--------------------------- MODULE NodeInfoChecker ---------------------------
(***************************************************************************)
(* nodeInfoChecker of SyncingStateNoneSuffrage (states/basic/              *)
(* state_syncing_none_suffrage.go): a node outside the suffrage polls the  *)
(* NodeInfo of every alive remote on a ticker, and each height above the  *)
(* last one found starts a goroutine that hands the alive remotes to       *)
(* syncs.Add as sync sources.                                              *)
(*                                                                         *)
(* Nodepool is outside the sampled sources; its methods are taken by what  *)
(* their names and uses say: Len() counts the local node and every remote, *)
(* LenRemoteAlives() and TraverseAliveRemotes() the remotes alive at the   *)
(* moment of the call. A remote's NodeInfo answer is any height it may    *)
(* report, or nothing (error, timeout, invalid info, no last block).      *)
(***************************************************************************)
EXTENDS Integers, Sequences, FiniteSets

CONSTANTS
    Remotes,     \* the remote nodes of the nodepool
    InitAlive,   \* the remotes alive when syncing starts
    Flaky,       \* whether remotes may die and come back meanwhile
    MaxHeight,   \* highest last-block height a remote reports
    NoInfo       \* request returned nil

ASSUME InitAlive \subseteq Remotes /\ Flaky \in BOOLEAN /\ MaxHeight \in Nat

NilHeight == -1
Heights == 0..MaxHeight

VARIABLES
    alive,       \* remotes the nodepool has alive
    cpc,         \* the start/check goroutine: "idle", "wait", "drain" or "stopped"
    ctxDone,     \* the ContextDaemon's ctx is canceled (nc.Stop)
    wg,          \* the WaitGroup counter of the current check
    req,         \* remotes whose request goroutine is running
    resultch,    \* NodeInfo heights buffered in resultch, in send order
    lastHeight,  \* nc.lastHeight
    wnh,         \* per height: its whenNewHeight goroutine's step
    wn,          \* per height: LenRemoteAlives() as whenNewHeight read it
    holder,      \* the whenNewHeight goroutine holding st.Lock, or NilHeight
    added,       \* heights passed to syncs.Add, in call order
    panicked,    \* sources[i] indexed past its length
    syncs        \* st.syncs is not nil

vars == <<alive, cpc, ctxDone, wg, req, resultch, lastHeight, wnh, wn, holder,
          added, panicked, syncs>>

-----------------------------------------------------------------------------

\* Mutant: the WaitGroup sized by Len(), the local node included.
WaitGroupSizeWithLocal == Cardinality(Remotes) + 1

\* check (81-105): no alive remote returns at once. Otherwise the
\* WaitGroup is sized by every remote, Len() - 1, and one request goroutine
\* starts for each alive remote; the goroutine then blocks in wg.Wait.
WaitGroupSize == Cardinality(Remotes)

Check ==
    /\ ~panicked
    /\ cpc = "idle"
    /\ alive # {}
    /\ wg' = WaitGroupSize
    /\ req' = alive
    /\ cpc' = "wait"
    /\ UNCHANGED <<alive, ctxDone, resultch, lastHeight, wnh, wn, holder, added,
                   panicked, syncs>>

\* request (135-150) and the goroutine around it (95-99): NodeInfo answers
\* or fails, and fails once nctx, made from the daemon's ctx, is canceled;
\* the result goes to the buffered resultch; wg.Done.
Request(r) ==
    /\ ~panicked
    /\ r \in req
    /\ \E h \in (IF ctxDone THEN {} ELSE Heights) \cup {NoInfo} :
         resultch' = IF h = NoInfo THEN resultch ELSE Append(resultch, h)
    /\ req' = req \ {r}
    /\ wg' = wg - 1
    /\ UNCHANGED <<alive, cpc, ctxDone, lastHeight, wnh, wn, holder, added,
                   panicked, syncs>>

\* wg.Wait() returns once every counted goroutine called Done; resultch
\* is closed.
Wait ==
    /\ ~panicked
    /\ cpc = "wait"
    /\ wg = 0
    /\ cpc' = "drain"
    /\ UNCHANGED <<alive, ctxDone, wg, req, resultch, lastHeight, wnh, wn, holder,
                   added, panicked, syncs>>

\* newHeight (118-133): under nc.Lock, a height above lastHeight becomes
\* lastHeight and starts whenNewHeight for it in a new goroutine.
NewHeight(h) ==
    IF lastHeight >= h
      THEN UNCHANGED <<lastHeight, wnh>>
      ELSE /\ lastHeight' = h
           /\ wnh' = [wnh EXCEPT ![h] = "lock"]

\* check (107-115): range over the closed resultch, newHeight for each;
\* at its end check returns to the ticker loop.
Drain ==
    /\ ~panicked
    /\ cpc = "drain"
    /\ IF resultch = << >>
         THEN /\ cpc' = "idle"
              /\ UNCHANGED <<resultch, lastHeight, wnh>>
         ELSE /\ NewHeight(Head(resultch))
              /\ resultch' = Tail(resultch)
              /\ UNCHANGED cpc
    /\ UNCHANGED <<alive, ctxDone, wg, req, wn, holder, added, panicked, syncs>>

-----------------------------------------------------------------------------
(* whenNewHeight (225-255), holding st.Lock throughout.                    *)

\* st.Lock(); a nil st.syncs returns; n := LenRemoteAlives(); no alive
\* remote returns.
WhenNewHeightCount(h) ==
    /\ ~panicked
    /\ wnh[h] = "lock"
    /\ holder = NilHeight
    /\ wn' = [wn EXCEPT ![h] = Cardinality(alive)]
    /\ IF ~syncs \/ alive = {}
         THEN /\ wnh' = [wnh EXCEPT ![h] = "done"]
              /\ UNCHANGED holder
         ELSE /\ wnh' = [wnh EXCEPT ![h] = "fill"]
              /\ holder' = h
    /\ UNCHANGED <<alive, cpc, ctxDone, wg, req, resultch, lastHeight, added,
                   panicked, syncs>>

\* sources := make([]Node, n), filled by a second traversal of the alive
\* remotes: more of them than n indexes past the slice and panics; else
\* syncs.Add(height, sources) and st.Unlock().
WhenNewHeightAdd(h) ==
    /\ ~panicked
    /\ wnh[h] = "fill"
    /\ IF Cardinality(alive) > wn[h]
         THEN /\ panicked' = TRUE
              /\ UNCHANGED <<wnh, holder, added>>
         ELSE /\ added' = Append(added, h)
              /\ wnh' = [wnh EXCEPT ![h] = "done"]
              /\ holder' = NilHeight
              /\ UNCHANGED panicked
    /\ UNCHANGED <<alive, cpc, ctxDone, wg, req, resultch, lastHeight, wn, syncs>>

-----------------------------------------------------------------------------

\* The nodepool's view of a remote changes.
AliveChange(r) ==
    /\ ~panicked
    /\ Flaky
    /\ alive' = IF r \in alive THEN alive \ {r} ELSE alive \cup {r}
    /\ UNCHANGED <<cpc, ctxDone, wg, req, resultch, lastHeight, wnh, wn, holder,
                   added, panicked, syncs>>

-----------------------------------------------------------------------------
(* SyncingStateNoneSuffrage.Enter and Exit (195-223): after the base       *)
(* state's callback, nc.Start() and nc.Stop() of the ContextDaemon (not    *)
(* sampled): Start runs start(ctx) in a goroutine with a fresh ctx, Stop    *)
(* cancels ctx. The base callbacks are taken as succeeding.                *)

\* Mutant: start's select without its ctx.Done() case.
StartReturnMissing == FALSE

\* start (70-74): the select takes ctx.Done() and start returns. When the
\* ticker has fired too, Go's select picks either, so Check stays enabled.
StartReturn ==
    /\ ~panicked
    /\ cpc = "idle"
    /\ ctxDone
    /\ cpc' = "stopped"
    /\ UNCHANGED <<alive, ctxDone, wg, req, resultch, lastHeight, wnh, wn,
                   holder, added, panicked, syncs>>

\* Exit's callback: the base state's callback, which may leave st.syncs
\* nil (BaseSyncingState is not sampled), then nc.Stop() cancels the
\* checker's ctx.
Exit ==
    /\ ~panicked
    /\ cpc # "stopped"
    /\ ~ctxDone
    /\ ctxDone' = TRUE
    /\ syncs' \in BOOLEAN
    /\ UNCHANGED <<alive, cpc, wg, req, resultch, lastHeight, wnh, wn, holder,
                   added, panicked>>

\* Enter's callback: the base state's callback sets up st.syncs, then
\* nc.Start() runs start again with a new ctx; nc.lastHeight is kept.
Enter ==
    /\ ~panicked
    /\ cpc = "stopped"
    /\ cpc' = "idle"
    /\ ctxDone' = FALSE
    /\ syncs' = TRUE
    /\ UNCHANGED <<alive, wg, req, resultch, lastHeight, wnh, wn, holder,
                   added, panicked>>

Init ==
    /\ alive = InitAlive
    /\ cpc = "idle"
    /\ ctxDone = FALSE
    /\ wg = 0
    /\ req = {}
    /\ resultch = << >>
    /\ lastHeight = NilHeight
    /\ wnh = [h \in Heights |-> "none"]
    /\ wn = [h \in Heights |-> 0]
    /\ holder = NilHeight
    /\ added = << >>
    /\ panicked = FALSE
    /\ syncs = TRUE

\* Every action requires ~panicked: a panic in any goroutine ends the
\* process.
\* The checker's own steps, with the nodepool as it is.
CheckerNext ==
    \/ Check
    \/ \E r \in Remotes : Request(r)
    \/ Wait
    \/ Drain
    \/ \E h \in Heights : WhenNewHeightCount(h) \/ WhenNewHeightAdd(h)
    \/ StartReturn
    \/ Enter \/ Exit

Next ==
    \/ CheckerNext
    \/ \E r \in Remotes : AliveChange(r)

\* The ticker fires forever and a request ends by its timeout, so the
\* checker's goroutines are weakly fair. st.Lock is taken intermittently;
\* Go's mutex hands it to a waiter starved for 1ms, hence strong fairness
\* for taking it. A canceled ctx is ready at every later select, which
\* Go's select takes with equal chance against the ticker: strong fairness.
Fairness ==
    /\ WF_vars(Check) /\ WF_vars(Wait) /\ WF_vars(Drain) /\ SF_vars(StartReturn)
    /\ \A r \in Remotes : WF_vars(Request(r))
    /\ \A h \in Heights : SF_vars(WhenNewHeightCount(h)) /\ WF_vars(WhenNewHeightAdd(h))

Spec == Init /\ [][Next]_vars /\ Fairness

\* The checker against a nodepool whose remotes stay as they are.
StableSpec == Init /\ [][CheckerNext]_vars /\ Fairness

=============================================================================
