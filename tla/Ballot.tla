-------------------------------- MODULE Ballot --------------------------------
(***************************************************************************)
(* SIGN and ACCEPT ballots (isaac/ballot_v0_sign.go, ballot_v0_accept.go): *)
(* how a node builds and signs one, how a receiver validates it, and how   *)
(* the valid ones reach Ballotbox.Vote. Honest nodes sign with their own   *)
(* key; a faulty node may sign anything with its key and may reassemble   *)
(* ballots out of the signatures it has seen.                              *)
(*                                                                         *)
(* Bytes are sequences and util.ConcatSlice is \o. SHA-256 is an injective *)
(* tag over its input and a signature is the pair (key, message), so a     *)
(* signature verifies only for the message its key signed. A node's key    *)
(* is named by its address. BaseBallotFactV0, BaseBallotV0 and             *)
(* IsValidBallot are not in the sampled sources; they follow spec.md 3 and *)
(* 6 (canonical payloads: a fact's bytes are H || R || payload).           *)
(***************************************************************************)
EXTENDS Voteproof, Sequences

CONSTANTS
    Faulty,        \* suffrage nodes whose keys sign whatever they like
    NetworkID,     \* the b []byte passed to Sign and IsValid
    LastHeight,    \* localstate.LastBlock().Height()
    SignedRounds,  \* rounds at which SIGN and ACCEPT ballots are built
    InitBallots,   \* INIT ballots (unsigned here) voted into the box
    ProposedBlock, \* the new block of each signed round's proposal
    NoVoteproof    \* a nil Voteproof

ASSUME Faulty \subseteq Nodes /\ LastHeight + 1 \in Heights
ASSUME SignedRounds \subseteq Rounds /\ InitBallots \subseteq Ballot
ASSUME ProposedBlock \in [SignedRounds -> Facts]

SignStages == {"SIGN", "ACCEPT"}

SHA256(e) == <<"sha256", e>>
HashBytes(h) == <<h>>
Publickey(k) == k
Sign(k, m) == [key |-> k, msg |-> m]
Verify(pub, sig, m) == sig.key = pub /\ sig.msg = m

\* newBlock.Proposal(): the proposal a block was made from.
Proposal(blk) == <<"proposal", blk>>

\* BaseBallotFactV0.Bytes: height || round (spec 6).
BaseBallotFactBytes(fct) == <<fct.height, fct.round>>

\* SIGNBallotFactV0.Bytes and ACCEPTBallotFactV0.Bytes share one layout.
SIGNBallotFactBytes(fct) == BaseBallotFactBytes(fct) \o <<fct.proposal, fct.newBlock>>

\* Mutant: the ACCEPT fact's bytes are those of its embedded base fact only.
ACCEPTBallotFactBytesBaseOnly(fct) == BaseBallotFactBytes(fct)

ACCEPTBallotFactBytes(fct) == BaseBallotFactBytes(fct) \o <<fct.proposal, fct.newBlock>>

FactBytes(bl) ==
    IF bl.stage = "SIGN" THEN SIGNBallotFactBytes(bl.fact)
                         ELSE ACCEPTBallotFactBytes(bl.fact)

\* Fact.Hash(): valuehash.NewSHA256(fact.Bytes()).
FactHash(bl) == SHA256(FactBytes(bl))

\* VoteproofV0.Bytes(): "TODO returns proper bytes", nil.
VoteproofBytes(vp) == <<>>

\* BaseBallotV0.Bytes: the node, signer and signature (signedAt left out).
BaseBallotBytes(bl) == <<bl.node, bl.signer, bl.signature>>

SIGNGenerateBodyHash(bl) == SHA256(SIGNBallotFactBytes(bl.fact) \o <<NetworkID>>)

ACCEPTGenerateBodyHash(bl) ==
    SHA256(ACCEPTBallotFactBytes(bl.fact) \o VoteproofBytes(bl.voteproof)
           \o <<NetworkID>>)

GenerateBodyHash(bl) ==
    IF bl.stage = "SIGN" THEN SIGNGenerateBodyHash(bl) ELSE ACCEPTGenerateBodyHash(bl)

SIGNGenerateHash(bl) ==
    SHA256(BaseBallotBytes(bl) \o SIGNBallotFactBytes(bl.fact)
           \o HashBytes(bl.bodyHash) \o <<NetworkID>>)

ACCEPTGenerateHash(bl) ==
    SHA256(BaseBallotBytes(bl) \o ACCEPTBallotFactBytes(bl.fact)
           \o HashBytes(bl.bodyHash) \o VoteproofBytes(bl.voteproof) \o <<NetworkID>>)

GenerateHash(bl) ==
    IF bl.stage = "SIGN" THEN SIGNGenerateHash(bl) ELSE ACCEPTGenerateHash(bl)

\* The signature inputs: bodyHash || b and factHash || b.
BodyMessage(bl) == HashBytes(GenerateBodyHash(bl)) \o <<NetworkID>>
FactMessage(bl) == HashBytes(FactHash(bl)) \o <<NetworkID>>

\* Sign: the body hash, the signature over it, the fact hash and its
\* signature are set together, then the ballot hash over all of them.
SignWith(bl, sig, factSig) ==
    LET signed == [bl EXCEPT !.signer = Publickey(sig.key), !.signature = sig,
                             !.bodyHash = GenerateBodyHash(bl),
                             !.factHash = FactHash(bl), !.factSignature = factSig]
    IN [signed EXCEPT !.hash = GenerateHash(signed)]

SignBallot(bl, pk) == SignWith(bl, Sign(pk, BodyMessage(bl)), Sign(pk, FactMessage(bl)))

\* An unsigned ballot of node n; NewSIGNBallotV0FromLocalstate and
\* NewACCEPTBallotV0FromLocalstate set the height to LastBlock + 1.
Unsigned(st, n, r, blk, vp) ==
    [stage |-> st, node |-> n, signer |-> n, signature |-> n,
     fact |-> [height |-> LastHeight + 1, round |-> r,
               proposal |-> Proposal(blk), newBlock |-> blk],
     bodyHash |-> n, factHash |-> n, factSignature |-> n,
     voteproof |-> vp, hash |-> n]

\* IsValidBallot (spec 3): the hashes are re-derivable, both signatures
\* verify under the signer, and the signer is the node's key.
IsValidBallot(bl) ==
    /\ bl.bodyHash = GenerateBodyHash(bl)
    /\ bl.factHash = FactHash(bl)
    /\ bl.hash = GenerateHash(bl)
    /\ bl.signer = Publickey(bl.node)
    /\ Verify(bl.signer, bl.signature, HashBytes(bl.bodyHash) \o <<NetworkID>>)
    /\ Verify(bl.signer, bl.factSignature, HashBytes(bl.factHash) \o <<NetworkID>>)

SIGNIsValid(bl) == IsValidBallot(bl)

\* ACCEPTBallotV0.IsValid: a voteproof is required and must itself be valid.
ACCEPTIsValid(bl) ==
    /\ bl.voteproof # NoVoteproof
    /\ IsValid(bl.voteproof)
    /\ IsValidBallot(bl)

BallotIsValid(bl) ==
    IF bl.stage = "SIGN" THEN SIGNIsValid(bl) ELSE ACCEPTIsValid(bl)

\* The ballot as the Ballotbox sees it: its key and the fact voted for.
Project(bl) == [node |-> bl.node, height |-> bl.fact.height,
                round |-> bl.fact.round, stage |-> bl.stage,
                fact |-> bl.fact.newBlock]

-----------------------------------------------------------------------------
VARIABLE sent   \* the SIGN and ACCEPT ballots honest nodes have broadcast

vars == <<records, latest, sent>>

Honest == Nodes \ Faulty

\* localstate.LastINITVoteproof() of a node about to ACCEPT at round r: the
\* INIT voteproof of (LastBlock + 1, r) whose majority moved it on.
LastINITVoteproof(r) ==
    VoteproofOf(<<LastHeight + 1, r, "INIT">>, records[<<LastHeight + 1, r, "INIT">>], FALSE)

\* NewSIGNBallotV0FromLocalstate / NewACCEPTBallotV0FromLocalstate and
\* Sign with the node's own key, once per stage and round, for the block
\* of the round's proposal.
NewBallotFromLocalstate(st, n, r, blk) ==
    /\ n \in Honest
    /\ blk = ProposedBlock[r]
    /\ ~\E b \in sent : b.node = n /\ b.stage = st /\ b.fact.round = r
    /\ st = "ACCEPT" => LastINITVoteproof(r).result = "MAJORITY"
    /\ LET vp == IF st = "ACCEPT" THEN LastINITVoteproof(r) ELSE NoVoteproof
       IN sent' = sent \cup {SignBallot(Unsigned(st, n, r, blk, vp), n)}
    /\ UNCHANGED <<records, latest>>

\* A broadcast ballot arrives: IsValid, then Ballotbox.Vote.
ReceiveBallot(b) ==
    /\ BallotIsValid(b)
    /\ BoxVote(Project(b))
    /\ UNCHANGED sent

\* Every signature a faulty relay has seen.
KnownSigs == UNION {{b.signature, b.factSignature} : b \in sent}

\* The voteproofs a relay can embed: finished INIT voteproofs and those of
\* broadcast ballots.
VoteproofChoices ==
    {VoteproofOf(k, records[k], FALSE) :
        k \in {k \in Keys : k[3] = "INIT" /\ records[k].result # "NOTYET"}}
    \cup {b.voteproof : b \in sent}

\* A faulty node assembles a ballot of node n: its own key signs anything,
\* otherwise it reuses a signature of n it has seen.
Forgeable(st, n, r, blk) ==
    \E vp \in IF st = "ACCEPT" THEN VoteproofChoices ELSE {NoVoteproof} :
        LET u == Unsigned(st, n, r, blk, vp)
            own(m) == IF n \in Faulty THEN {Sign(n, m)} ELSE {}
        IN \E sig \in {s \in KnownSigs : s.key = n} \cup own(BodyMessage(u)),
              fsig \in {s \in KnownSigs : s.key = n} \cup own(FactMessage(u)) :
               BallotIsValid(SignWith(u, sig, fsig))

\* Only an assembled ballot that passes IsValid reaches Ballotbox.Vote; the
\* vote depends on its stage, node, height, round and block alone.
ReceiveRelayed(st, n, r, blk) ==
    /\ Forgeable(st, n, r, blk)
    /\ BoxVote([node |-> n, height |-> LastHeight + 1, round |-> r,
                stage |-> st, fact |-> blk])
    /\ UNCHANGED sent

VoteINIT(b) == BoxVote(b) /\ UNCHANGED sent
Clean(h) == BoxClean(h) /\ UNCHANGED sent
Empty == BoxEmpty /\ UNCHANGED sent

Init == BoxInit /\ sent = {}

Next ==
    \/ \E b \in InitBallots : VoteINIT(b)
    \/ \E st \in SignStages, n \in Nodes, r \in SignedRounds, blk \in Facts :
           \/ NewBallotFromLocalstate(st, n, r, blk)
           \/ ReceiveRelayed(st, n, r, blk)
    \/ \E b \in sent : ReceiveBallot(b)
    \/ \E h \in Heights : Clean(h)
    \/ Empty

Spec == Init /\ [][Next]_vars

=============================================================================
