----------------------------- MODULE Hub_proofs -----------------------------
(* Theorems about HubCore, for every set of sessions, addresses and sources,   *)
(* and about HubServer, for every queue size and any number of commands.       *)
EXTENDS HubServer, WellFoundedInduction, SequenceTheorems, TLAPS

-----------------------------------------------------------------------------
(* The core: the inductive invariant *)

\* What a handler knows about the address it works on, step by step.
Holding ==
    /\ op.step \in {"claim_off", "claim_persist", "release_off", "release_local",
                    "release_persist", "recover_off", "recover_persist"}
        => op.address \in Addresses /\ owner[op.address] = None
    /\ op.step \in {"claim_off", "claim_persist", "release_off", "release_persist",
                    "recover_off", "recover_persist"}
        => op.address \in Sources
    /\ op.step \in {"claim_off", "claim_persist"} => op.session \in Sessions
    /\ op.step = "claim_persist" => op.address \in unknown \ hot
    /\ op.step = "release_local" => op.address \notin hot
    /\ op.step = "release_persist" => op.address \notin hot

\* A source in use is quarantined in memory and in the journal, and was OFF
\* when it was handed out.
Leased == \A a \in Sources : owner[a] # None => a \in unknown \cap journal /\ a \notin foreign

\* A running service knows every live output; a stopped one keeps nothing.
Known ==
    /\ up => hot \ foreign \subseteq unknown
    /\ ~up => owner = [a \in Addresses |-> None] /\ unknown = {} /\ op = Idle

CoreInv == CoreTypeOK /\ HotJournaled /\ Leased /\ Known /\ Holding

-----------------------------------------------------------------------------
(* Every step of the core keeps it *)

\* Between handlers nothing is known of an address.
LEMMA AtRest == /\ Idle \in Op /\ Idle.step = "idle"
                /\ op \in Op /\ Finish => op' \in Op /\ op'.step \in {"idle", "release"}
<1>1. Idle \in Op /\ Idle.step = "idle"
  BY DEF Idle, Op, Steps
<1>2. ASSUME op \in Op, Finish PROVE op' \in Op /\ op'.step \in {"idle", "release"}
  <2>1. CASE op.todo = {}
    BY <1>1, <1>2, <2>1 DEF Finish
  <2>2. CASE op.todo # {}
    <3>1. op' = [op EXCEPT !.step = "release", !.address = None]
      BY <1>2, <2>2 DEF Finish
    <3> QED BY <1>2, <3>1 DEF Op, Steps
  <2> QED BY <2>1, <2>2
<1> QED BY <1>1, <1>2

\* A handler that moves on keeps its address and session.
LEMMA Moved ==
    ASSUME NEW step \in Steps, op \in Op, GoTo(step)
    PROVE  /\ op' \in Op /\ op'.step = step
           /\ op'.address = op.address /\ op'.session = op.session
BY DEF GoTo, Op

\* A first start, with an empty journal, satisfies the invariant.
LEMMA CoreInitOK == CoreInit => CoreInv
BY AtRest, NoneAssumption, SourcesAssumption
DEF CoreInit, CoreInv, CoreTypeOK, HotJournaled, Leased, Known, Holding

\* Claim, transfer, listing, and the start of a release or a recovery.
LEMMA RequestsOK ==
    ASSUME CoreInv, NEW s \in Sessions, NEW a \in Addresses,
           Claim(s, a) \/ Transfer(s, a) \/ Release(s, a) \/ Disconnect(s) \/ List \/ Recover(a)
    PROVE  CoreInv'
<1> USE NoneAssumption, SourcesAssumption
<1>1. CASE Claim(s, a)
  <2>1. CASE fault' = TRUE /\ UNCHANGED <<owner, op>>
    BY <1>1, <2>1 DEF Claim, CoreInv, CoreTypeOK, HotJournaled, Leased, Known, Holding
  <2>2. CASE a \in Sources /\ op' = [Idle EXCEPT !.step = "claim_off", !.address = a, !.session = s]
                          /\ UNCHANGED <<owner, fault>>
    <3>1. op' \in Op /\ op'.step = "claim_off" /\ op'.address = a /\ op'.session = s
      BY <2>2 DEF Idle, Op, Steps
    <3> QED BY <1>1, <2>2, <3>1
            DEF Claim, Ready, CoreInv, CoreTypeOK, HotJournaled, Leased, Known, Holding
  <2>3. CASE a \notin Sources /\ owner' = [owner EXCEPT ![a] = s] /\ UNCHANGED <<op, fault>>
    BY <1>1, <2>3 DEF Claim, Ready, CoreInv, CoreTypeOK, HotJournaled, Leased, Known, Holding
  <2> QED BY <1>1, <2>1, <2>2, <2>3 DEF Claim
<1>2. CASE Transfer(s, a)
  BY <1>2 DEF Transfer, Ready, CoreInv, CoreTypeOK, HotJournaled, Leased, Known, Holding
<1>3. CASE Release(s, a) \/ Disconnect(s)
  <2> PICK S \in SUBSET Addresses : StartRelease(s, S)
    BY <1>3 DEF Release, Disconnect
  <2>1. op' \in Op /\ op'.step = "release"
    BY DEF StartRelease, Idle, Op, Steps
  <2> QED BY <2>1 DEF StartRelease, Ready, CoreInv, CoreTypeOK, HotJournaled, Leased, Known, Holding
<1>4. CASE List
  BY <1>4 DEF List, Ready, CoreInv, CoreTypeOK, HotJournaled, Leased, Known, Holding
<1>5. CASE Recover(a)
  <2>1. op' \in Op /\ op'.step = "recover_off" /\ op'.address = a
    BY <1>5 DEF Recover, Idle, Op, Steps
  <2> QED BY <1>5, <2>1
          DEF Recover, Ready, CoreInv, CoreTypeOK, HotJournaled, Leased, Known, Holding
<1> QED BY <1>1, <1>2, <1>3, <1>4, <1>5

\* The bus transactions and journal writes inside a handler.
LEMMA HandlersOK == ASSUME CoreInv, Handler PROVE CoreInv'
<1> USE NoneAssumption, SourcesAssumption, AtRest
    DEF CoreInv, CoreTypeOK, HotJournaled, Leased, Known, Holding, At
<1>1. CASE ClaimOff
  <2>1. CASE SourceOff(op.address) /\ unknown' = unknown \cup {op.address} /\ GoTo("claim_persist")
    BY <1>1, <2>1, Moved DEF ClaimOff, SourceOff, Steps
  <2>2. CASE SourceOffFailed(op.address) /\ Finish /\ UNCHANGED unknown
    BY <1>1, <2>2 DEF ClaimOff, SourceOffFailed, SourceOff, instruments
  <2> QED BY <1>1, <2>1, <2>2 DEF ClaimOff
<1>2. CASE ClaimPersist
  <2>1. CASE Persisted /\ owner' = [owner EXCEPT ![op.address] = op.session]
    BY <1>2, <2>1 DEF ClaimPersist, Persisted
  <2>2. CASE PersistFailed /\ UNCHANGED owner
    BY <1>2, <2>2 DEF ClaimPersist, PersistFailed
  <2> QED BY <1>2, <2>1, <2>2 DEF ClaimPersist
<1>3. CASE ReleaseOwner
  <2> PICK a \in op.todo :
        /\ owner' = [owner EXCEPT ![a] = None]
        /\ op' = [op EXCEPT !.step = IF a \in Sources THEN "release_off" ELSE "release_local",
                            !.address = a, !.todo = op.todo \ {a}]
    BY <1>3 DEF ReleaseOwner
  <2>1. /\ a \in Addresses
        /\ op' \in Op /\ op'.address = a
        /\ op'.step = IF a \in Sources THEN "release_off" ELSE "release_local"
    BY DEF Op, Steps
  <2> QED BY <1>3, <2>1 DEF ReleaseOwner
<1>4. CASE ReleaseOff
  <2>1. CASE SourceOff(op.address) /\ GoTo("release_local")
    BY <1>4, <2>1, Moved DEF ReleaseOff, SourceOff, Steps
  <2>2. CASE Finish /\ (SourceOffFailed(op.address) \/ UNCHANGED instruments)
    BY <1>4, <2>2 DEF ReleaseOff, SourceOffFailed, SourceOff, instruments
  <2> QED BY <1>4, <2>1, <2>2 DEF ReleaseOff
<1>5. CASE ReleaseLocal
  <2>1. CASE op.address \in Sources /\ unknown' = unknown \ {op.address} /\ GoTo("release_persist")
    BY <1>5, <2>1, Moved DEF ReleaseLocal, Steps
  <2>2. CASE UNCHANGED unknown /\ Finish
    BY <1>5, <2>2 DEF ReleaseLocal
  <2> QED BY <1>5, <2>1, <2>2 DEF ReleaseLocal
<1>6. CASE ReleasePersist
  BY <1>6 DEF ReleasePersist, PersistFailed
<1>7. CASE RecoverOff
  <2>1. CASE SourceOff(op.address) /\ unknown' = unknown \ {op.address} /\ GoTo("recover_persist")
    BY <1>7, <2>1, Moved DEF RecoverOff, SourceOff, Steps
  <2>2. CASE SourceOffFailed(op.address) /\ Finish /\ UNCHANGED unknown
    BY <1>7, <2>2 DEF RecoverOff, SourceOffFailed, SourceOff, instruments
  <2> QED BY <1>7, <2>1, <2>2 DEF RecoverOff
<1>8. CASE RecoverPersist
  BY <1>8 DEF RecoverPersist, PersistFailed
<1> QED BY <1>1, <1>2, <1>3, <1>4, <1>5, <1>6, <1>7, <1>8 DEF Handler

\* A crash forgets all but the journal, which the next start reads back.
LEMMA CrashesOK ==
    ASSUME CoreInv, Crash \/ Restart \/ (\E a \in Sources : Outside(a))
    PROVE  CoreInv'
<1> USE AtRest, NoneAssumption, SourcesAssumption
    DEF CoreInv, CoreTypeOK, HotJournaled, Leased, Known, Holding
<1>1. CASE Crash
  BY <1>1 DEF Crash
<1>2. CASE Restart
  BY <1>2 DEF Restart
<1>3. CASE \E a \in Sources : Outside(a)
  BY <1>3 DEF Outside
<1> QED BY <1>1, <1>2, <1>3

\* Every step of the service, a crash or a start included, keeps the invariant.
LEMMA StepsOK == CoreInv /\ [CoreNext]_coreVars => CoreInv'
<1> SUFFICES ASSUME CoreInv, [CoreNext]_coreVars PROVE CoreInv'
  OBVIOUS
<1>1. CASE \E s \in Sessions, a \in Addresses : Claim(s, a) \/ Transfer(s, a) \/ Release(s, a)
  BY <1>1, RequestsOK
<1>2. CASE \E s \in Sessions : Disconnect(s)
  <2> PICK s \in Sessions : Disconnect(s)
    BY <1>2
  <2> PICK a \in Addresses : TRUE
    BY DEF Disconnect, StartRelease
  <2> QED BY RequestsOK
<1>3. CASE List
  BY <1>3 DEF List, Ready, CoreInv, CoreTypeOK, HotJournaled, Leased, Known, Holding
<1>4. CASE \E a \in Addresses : Recover(a)
  <2> PICK a \in Addresses : Recover(a)
    BY <1>4
  <2>1. op' \in Op /\ op'.step = "recover_off" /\ op'.address = a
    BY DEF Recover, Idle, Op, Steps, NoneAssumption
  <2> QED BY <2>1, SourcesAssumption
          DEF Recover, Ready, CoreInv, CoreTypeOK, HotJournaled, Leased, Known, Holding
<1>5. CASE UNCHANGED coreVars
  BY <1>5 DEF coreVars, CoreInv, CoreTypeOK, HotJournaled, Leased, Known, Holding
<1> QED BY <1>1, <1>2, <1>3, <1>4, <1>5, HandlersOK, CrashesOK DEF CoreNext

\* The invariant of the service: in every reachable state, whatever failed.
THEOREM CoreInvariant == CoreSpec => []CoreInv
BY CoreInitOK, StepsOK, PTL DEF CoreSpec

\* However many sessions and instruments, and whatever fails or crashes, an
\* output a client turned ON is in the journal the next process reads, and
\* owned or fenced off.
THEOREM LiveOutputsJournaled == CoreSpec => [](CoreTypeOK /\ HotJournaled /\ LiveHeld)
<1>1. CoreInv => CoreTypeOK /\ HotJournaled /\ LiveHeld
  BY DEF CoreInv, CoreTypeOK, Known, Holding, LiveHeld, FenceOf!HotHeld, Fenced, Granting
<1> QED BY <1>1, CoreInvariant, PTL

-----------------------------------------------------------------------------
(* The service implements OutputFence *)

\* Steps that leave holders, fence and live outputs alone.
Quiet == UNCHANGED <<owner, unknown, hot, foreign, up>> /\ Granting = {} /\ Granting' = {}

\* Such a step is a stutter of the abstract fence.
LEMMA QuietStutters == Quiet => UNCHANGED FenceOf!fenceVars
BY DEF Quiet, FenceOf!fenceVars, Fenced

\* The first start maps to an initial state of the abstract fence.
LEMMA FenceInitOK == CoreInit => FenceOf!FenceInit
BY NoneAssumption, SourcesAssumption DEF CoreInit, FenceOf!FenceInit, Fenced, Granting, Idle

\* Requests: a transfer drives an output of its owner, nothing else shows.
LEMMA RequestsFenced ==
    ASSUME CoreInv, NEW s \in Sessions, NEW a \in Addresses,
           Claim(s, a) \/ Transfer(s, a)
    PROVE  FenceOf!FenceNext \/ UNCHANGED FenceOf!fenceVars
<1> USE NoneAssumption, SourcesAssumption
<1>1. CASE Claim(s, a)
  <2>1. CASE op' = [Idle EXCEPT !.step = "claim_off", !.address = a, !.session = s] /\ UNCHANGED owner
    <3>1. Quiet
      BY <1>1, <2>1 DEF Claim, Ready, Quiet, Granting, Idle
    <3> QED BY <3>1, QuietStutters
  <2>2. CASE UNCHANGED <<owner, op>>
    <3>1. Quiet
      BY <1>1, <2>2 DEF Claim, Ready, Quiet, Granting
    <3> QED BY <3>1, QuietStutters
  <2>3. CASE a \notin Sources /\ owner' = [owner EXCEPT ![a] = s] /\ UNCHANGED op
    <3>1. Granting = {} /\ Granting' = {}
      BY <1>1, <2>3 DEF Claim, Ready, Granting
    <3>2. \A b \in Sources : owner'[b] = owner[b]
      BY <2>3 DEF CoreInv, CoreTypeOK
    <3>3. Fenced' = Fenced
      BY <1>1, <3>1, <3>2 DEF Claim, Fenced, CoreInv, CoreTypeOK
    <3> QED BY <1>1, <3>2, <3>3 DEF Claim, FenceOf!fenceVars
  <2> QED BY <1>1, <2>1, <2>2, <2>3 DEF Claim
<1>2. CASE Transfer(s, a)
  <2>1. Granting = {} /\ Granting' = {} /\ Fenced' = Fenced
    BY <1>2 DEF Transfer, Ready, Granting, Fenced
  <2>2. CASE a \notin Sources
    BY <1>2, <2>1, <2>2 DEF Transfer, FenceOf!fenceVars, CoreInv, CoreTypeOK
  <2>3. CASE a \in Sources
    <3>1. a \notin foreign /\ owner[a] # None
      BY <1>2, <2>3 DEF Transfer, CoreInv, Leased
    <3>2. \/ hot' \ foreign' = (hot \ foreign) \cup {a}
          \/ hot' \ foreign' = (hot \ foreign) \ {a}
          \/ hot' \ foreign' = hot \ foreign
      BY <1>2, <2>3, <3>1 DEF Transfer, CoreInv, CoreTypeOK
    <3> QED BY <1>2, <2>1, <2>3, <3>1, <3>2
            DEF Transfer, FenceOf!FenceNext, FenceOf!Drive, FenceOf!fenceVars
  <2> QED BY <2>2, <2>3
<1> QED BY <1>1, <1>2

\* The abstract steps of one source.
LEMMA OneSource ==
    ASSUME NEW a \in Sources,
           FenceOf!Cool(a) \/ FenceOf!Lose({a}) \/ FenceOf!Unfence({a})
    PROVE  FenceOf!FenceNext
<1>1. {a} \in SUBSET Sources
  OBVIOUS
<1> QED BY <1>1 DEF FenceOf!FenceNext

\* Handlers: a claim grants, a release fences and may unfence, a recovery
\* unfences; a failing OFF may still have cooled its source.
LEMMA HandlersFenced ==
    ASSUME CoreInv, Handler
    PROVE  FenceOf!FenceNext \/ UNCHANGED FenceOf!fenceVars
<1> USE NoneAssumption, SourcesAssumption DEF At
<1> PICK a : a = op.address
  OBVIOUS
<1>0. ASSUME op \in Op, Finish PROVE Granting' = {}
  BY <1>0, AtRest DEF Granting
<1>1. ASSUME a \in Sources, owner[a] = None, SourceOffFailed(a), Granting = {}, Granting' = {},
             UNCHANGED <<owner, unknown, up>>
      PROVE  FenceOf!FenceNext \/ UNCHANGED FenceOf!fenceVars
  <2>1. Fenced' = Fenced
    BY <1>1 DEF Fenced
  <2>2. CASE SourceOff(a)
    <3>1. FenceOf!Cool(a)
      BY <1>1, <2>1, <2>2 DEF FenceOf!Cool, SourceOff
    <3> QED BY <1>1, <3>1, OneSource
  <2>3. CASE UNCHANGED instruments
    BY <1>1, <2>1, <2>3 DEF instruments, FenceOf!fenceVars
  <2> QED BY <1>1, <2>2, <2>3 DEF SourceOffFailed
<1>2. CASE ClaimOff
  <2>0. a \in Sources /\ owner[a] = None /\ op \in Op /\ up /\ Granting = {}
    BY <1>2 DEF ClaimOff, CoreInv, CoreTypeOK, Holding, Granting
  <2>1. CASE SourceOff(a) /\ unknown' = unknown \cup {a} /\ GoTo("claim_persist")
    <3>1. Granting' = {a}
      BY <2>0, <2>1, Moved DEF Granting, Steps
    <3>2. Fenced' = Fenced \ {a}
      BY <1>2, <2>0, <2>1, <3>1 DEF ClaimOff, Fenced
    <3>3. FenceOf!Unfence({a})
      BY <1>2, <2>1, <3>2 DEF ClaimOff, SourceOff, FenceOf!Unfence
    <3> QED BY <2>0, <3>3, OneSource
  <2>2. CASE SourceOffFailed(a) /\ Finish /\ UNCHANGED unknown
    BY <1>0, <1>1, <1>2, <2>0, <2>2 DEF ClaimOff
  <2> QED BY <1>2, <2>1, <2>2 DEF ClaimOff
<1>3. CASE ClaimPersist
  <2>0. /\ a \in Sources /\ owner[a] = None /\ op \in Op /\ up /\ op.session \in Sessions
        /\ a \in unknown /\ a \notin hot /\ Granting = {a} /\ Granting' = {}
    BY <1>0, <1>3 DEF ClaimPersist, CoreInv, CoreTypeOK, Holding, Granting
  <2>1. CASE owner' = [owner EXCEPT ![a] = op.session]
    <3>1. Fenced' = Fenced /\ a \notin Fenced
      BY <1>3, <2>0, <2>1 DEF ClaimPersist, Fenced, CoreInv, CoreTypeOK
    <3> PICK s \in Sessions : s = op.session
      BY <2>0
    <3>2. FenceOf!Grant(a, s)
      BY <1>3, <2>0, <2>1, <3>1 DEF ClaimPersist, FenceOf!Grant, CoreInv, CoreTypeOK
    <3> QED BY <2>0, <3>2 DEF FenceOf!FenceNext
  <2>2. CASE UNCHANGED owner
    <3>1. Fenced' = Fenced \cup {a}
      BY <1>3, <2>0, <2>2 DEF ClaimPersist, Fenced
    <3>2. FenceOf!Lose({a})
      BY <1>3, <2>0, <2>2, <3>1 DEF ClaimPersist, FenceOf!Lose
    <3> QED BY <2>0, <3>2, OneSource
  <2> QED BY <1>3, <2>1, <2>2 DEF ClaimPersist
<1>4. CASE ReleaseOwner
  <2> PICK b \in op.todo :
        /\ owner' = [owner EXCEPT ![b] = None]
        /\ op' = [op EXCEPT !.step = IF b \in Sources THEN "release_off" ELSE "release_local",
                            !.address = b, !.todo = op.todo \ {b}]
    BY <1>4 DEF ReleaseOwner
  <2>1. b \in Addresses /\ op'.step # "claim_persist"
    BY DEF CoreInv, CoreTypeOK, Op
  <2>2. Granting = {} /\ Granting' = {} /\ up /\ up'
    BY <1>4, <2>1 DEF ReleaseOwner, Granting
  <2>3. CASE b \in Sources /\ owner[b] # None
    <3>1. Fenced' = Fenced \cup {b}
      BY <1>4, <2>1, <2>2, <2>3 DEF ReleaseOwner, Fenced, CoreInv, CoreTypeOK, Leased
    <3>2. FenceOf!Lose({b})
      BY <1>4, <2>1, <2>3, <3>1 DEF ReleaseOwner, FenceOf!Lose, CoreInv, CoreTypeOK
    <3> QED BY <2>3, <3>2, OneSource
  <2>4. CASE b \notin Sources \/ owner[b] = None
    <3>1. \A x \in Sources : owner'[x] = owner[x]
      BY <2>1, <2>4 DEF CoreInv, CoreTypeOK
    <3>2. Fenced' = Fenced
      BY <1>4, <2>2, <3>1 DEF ReleaseOwner, Fenced, CoreInv, CoreTypeOK
    <3> QED BY <1>4, <3>1, <3>2 DEF ReleaseOwner, FenceOf!fenceVars
  <2> QED BY <2>3, <2>4
<1>5. CASE ReleaseOff
  <2>1. a \in Sources /\ owner[a] = None /\ op \in Op /\ Granting = {}
    BY <1>5 DEF ReleaseOff, CoreInv, CoreTypeOK, Holding, Granting
  <2>2. Granting' = {}
    BY <1>0, <1>5, <2>1, Moved DEF ReleaseOff, Granting, Steps
  <2>3. SourceOffFailed(a)
    BY <1>5 DEF ReleaseOff, SourceOffFailed
  <2> QED BY <1>1, <1>5, <2>1, <2>2, <2>3 DEF ReleaseOff
<1>6. CASE ReleaseLocal \/ RecoverOff
  <2>1. owner[a] = None /\ op \in Op /\ up /\ up' /\ Granting = {} /\ UNCHANGED owner
    BY <1>6 DEF ReleaseLocal, RecoverOff, CoreInv, CoreTypeOK, Holding, Granting
  <2>2. Granting' = {}
    BY <1>0, <1>6, <2>1, Moved DEF ReleaseLocal, RecoverOff, Granting, Steps
  <2>3. CASE a \in Sources /\ unknown' = unknown \ {a} /\ hot' \ foreign' = (hot \ foreign) \ {a}
    <3>1. Fenced' = Fenced \ {a}
      BY <2>1, <2>2, <2>3 DEF Fenced
    <3>2. FenceOf!Unfence({a})
      BY <2>1, <2>3, <3>1 DEF FenceOf!Unfence
    <3> QED BY <2>3, <3>2, OneSource
  <2>4. CASE UNCHANGED <<unknown, hot, foreign>>
    <3>1. Quiet
      BY <2>1, <2>2, <2>4 DEF Quiet
    <3> QED BY <3>1, QuietStutters
  <2>5. CASE a \in Sources /\ UNCHANGED unknown /\ SourceOffFailed(a)
    BY <1>1, <2>1, <2>2, <2>5
  <2>6. CASE ReleaseLocal
    BY <2>3, <2>4, <2>6 DEF ReleaseLocal, CoreInv, Holding
  <2>7. CASE RecoverOff
    BY <2>3, <2>5, <2>7 DEF RecoverOff, SourceOff, CoreInv, Holding
  <2> QED BY <1>6, <2>6, <2>7
<1>7. CASE ReleasePersist \/ RecoverPersist
  <2>1. /\ a \in Sources /\ owner[a] = None /\ op \in Op /\ up /\ up' /\ Granting = {}
        /\ Granting' = {} /\ UNCHANGED <<owner, hot, foreign>>
    BY <1>0, <1>7 DEF ReleasePersist, RecoverPersist, CoreInv, CoreTypeOK, Holding, Granting
  <2>2. CASE unknown' = unknown \cup {a}
    <3>1. Fenced' = Fenced \cup {a}
      BY <2>1, <2>2 DEF Fenced
    <3>2. FenceOf!Lose({a})
      BY <2>1, <3>1 DEF FenceOf!Lose
    <3> QED BY <2>1, <3>2, OneSource
  <2>3. CASE UNCHANGED unknown
    <3>1. Quiet
      BY <2>1, <2>3 DEF Quiet
    <3> QED BY <3>1, QuietStutters
  <2> QED BY <1>7, <2>2, <2>3 DEF ReleasePersist, RecoverPersist
<1> QED BY <1>2, <1>3, <1>4, <1>5, <1>6, <1>7 DEF Handler

\* A crash fences everything; a start lets out what the journal does not name.
LEMMA CrashesFenced ==
    ASSUME CoreInv, Crash \/ Restart \/ (\E a \in Sources : Outside(a))
    PROVE  FenceOf!FenceNext \/ UNCHANGED FenceOf!fenceVars
<1> USE NoneAssumption, SourcesAssumption
<1>1. CASE Crash
  <2>1. Fenced \cup Sources = Sources /\ Fenced' = Sources
    BY <1>1 DEF Crash, Fenced, CoreInv, CoreTypeOK
  <2>2. FenceOf!Lose(Sources)
    BY <1>1, <2>1 DEF Crash, FenceOf!Lose
  <2>3. Sources \in SUBSET Sources
    OBVIOUS
  <2> QED BY <2>2, <2>3 DEF FenceOf!FenceNext
<1>2. CASE Restart
  <2> PICK S \in SUBSET Sources : S = Sources \ journal
    OBVIOUS
  <2>1. Granting' = {}
    BY <1>2 DEF Restart, Granting, CoreInv, Known, Idle
  <2>2. \A x \in Sources : owner'[x] = None
    BY <1>2 DEF Restart, CoreInv, Known
  <2>3. Fenced = Sources /\ Fenced' = journal
    BY <1>2, <2>1, <2>2 DEF Restart, Fenced, CoreInv, CoreTypeOK
  <2>4. Fenced' = Fenced \ S /\ (hot \ foreign) \ S = hot \ foreign
    BY <2>3 DEF CoreInv, CoreTypeOK, HotJournaled
  <2>5. FenceOf!Unfence(S)
    BY <1>2, <2>4 DEF Restart, FenceOf!Unfence
  <2> QED BY <2>5 DEF FenceOf!FenceNext
<1>3. CASE \E a \in Sources : Outside(a)
  BY <1>3 DEF Outside, FenceOf!fenceVars, Fenced, Granting
<1> QED BY <1>1, <1>2, <1>3

\* Every step of the service is a step or a stutter of the abstract fence.
LEMMA StepsFenced ==
    CoreInv /\ [CoreNext]_coreVars => [FenceOf!FenceNext]_(FenceOf!fenceVars)
<1> SUFFICES ASSUME CoreInv, [CoreNext]_coreVars
             PROVE  FenceOf!FenceNext \/ UNCHANGED FenceOf!fenceVars
  OBVIOUS
<1>1. CASE \/ \E s \in Sessions, a \in Addresses : Release(s, a)
           \/ \E s \in Sessions : Disconnect(s)
           \/ \E a \in Addresses : Recover(a)
           \/ List
  <2>1. /\ op.step = "idle" /\ UNCHANGED <<owner, unknown, hot, foreign, up>>
        /\ op' = op \/ op'.step \in {"release", "recover_off"}
    BY <1>1 DEF Release, Disconnect, StartRelease, Recover, List, Ready, Idle
  <2>2. Quiet
    BY <2>1 DEF Quiet, Granting
  <2> QED BY <2>2, QuietStutters
<1>2. CASE \E s \in Sessions, a \in Addresses : Claim(s, a) \/ Transfer(s, a)
  BY <1>2, RequestsFenced
<1>3. CASE UNCHANGED coreVars
  BY <1>3 DEF coreVars, FenceOf!fenceVars, Fenced, Granting
<1> QED BY <1>1, <1>2, <1>3, HandlersFenced, CrashesFenced DEF CoreNext

\* The service implements OutputFence, whatever its constants: with its
\* handlers cut short by failures and crashes, a live output is always owned
\* or fenced, and only an output that is OFF is handed out.
THEOREM FenceImplemented == CoreSpec => ImplementsFence
<1>1. CoreInit => FenceOf!FenceInit
  BY FenceInitOK
<1>2. CoreInv /\ [CoreNext]_coreVars => [FenceOf!FenceNext]_(FenceOf!fenceVars)
  BY StepsFenced
<1> QED BY <1>1, <1>2, CoreInvariant, PTL DEF CoreSpec, ImplementsFence, FenceOf!FenceSpec

-----------------------------------------------------------------------------
(* What a step may do to an instrument *)

\* No step hands out or lets out a live output, or passes ownership along.
LEMMA SafeSteps == CoreInv /\ [CoreNext]_coreVars => Cold /\ Kept /\ Passed
<1> SUFFICES ASSUME CoreInv, [CoreNext]_coreVars PROVE Cold /\ Kept /\ Passed
  OBVIOUS
<1> USE NoneAssumption, SourcesAssumption DEF Cold, Kept, Passed, At
<1>1. CASE \E s \in Sessions, a \in Addresses : Claim(s, a)
  BY <1>1 DEF Claim, CoreInv, CoreTypeOK
<1>2. CASE Handler
  <2>1. CASE ClaimPersist
    BY <2>1 DEF ClaimPersist, CoreInv, CoreTypeOK, Holding
  <2>2. CASE ReleaseOwner
    BY <2>2 DEF ReleaseOwner, CoreInv, CoreTypeOK
  <2>3. CASE ClaimOff \/ ReleaseOff \/ ReleaseLocal \/ ReleasePersist
    BY <2>3 DEF ClaimOff, ReleaseOff, ReleaseLocal, ReleasePersist, CoreInv, Holding
  <2>4. CASE RecoverOff \/ RecoverPersist
    BY <2>4 DEF RecoverOff, RecoverPersist, SourceOff
  <2> QED BY <1>2, <2>1, <2>2, <2>3, <2>4 DEF Handler
<1>3. CASE \/ \E s \in Sessions, a \in Addresses : Transfer(s, a) \/ Release(s, a)
           \/ \E s \in Sessions : Disconnect(s)
           \/ \E a \in Addresses : Recover(a)
           \/ List
           \/ UNCHANGED coreVars
  <2>1. UNCHANGED <<owner, unknown>>
    BY <1>3 DEF Transfer, Release, Disconnect, StartRelease, Recover, List, coreVars
  <2> QED BY <2>1
<1>4. CASE Crash \/ Restart \/ (\E a \in Sources : Outside(a))
  BY <1>4 DEF Crash, Restart, Outside
<1> QED BY <1>1, <1>2, <1>3, <1>4 DEF CoreNext

\* Only an instrument that is OFF is handed out or let out of quarantine, and
\* ownership never passes from one session to another.
THEOREM InstrumentSteps == CoreSpec => SourcesGuarded
<1>1. CoreInv /\ [CoreNext]_coreVars => [Cold /\ Kept /\ Passed]_coreVars
  BY SafeSteps
<1> QED BY <1>1, CoreInvariant, PTL DEF CoreSpec, SourcesGuarded

-----------------------------------------------------------------------------
(* The server: the worker's queues *)

Event == [kind : {"register"}, session : Sessions, address : {None}]
           \cup [kind : Kinds, session : Sessions, address : Addresses]

\* What the channel and the worker's queue hold; the worker looks for an event
\* only where there is one.
QueueTypes ==
    /\ inbox \in Seq(Event) /\ pending \in Seq(Event)
    /\ wpc = "pick" => pending # <<>>
    /\ sessions \subseteq Sessions /\ lost \subseteq Sessions

\* A non-empty set of natural numbers has a least element.
LEMMA LeastOf ==
    ASSUME NEW S \in SUBSET Nat, S # {}
    PROVE  Min(S) \in S /\ \A y \in S : Min(S) <= y
<1> DEFINE Less == OpToRel(<, Nat)
<1>1. IsWellFoundedOn(Less, Nat)
  BY NatLessThanWellFounded
<1>2. \A x, y \in Nat : <<x, y>> \in Less <=> x < y
  BY DEF OpToRel
<1> HIDE DEF Less
<1>3. PICK x \in S : \A y \in S : ~ (<<y, x>> \in Less)
  BY <1>1, WFMin
<1>4. ASSUME NEW y \in S PROVE x <= y
  <2>1. x \in Nat /\ y \in Nat /\ ~(y < x)
    BY <1>2, <1>3
  <2> QED BY <2>1
<1> QED BY <1>4 DEF Min

\* `position` finds an event that is in the queue.
LEMMA ChosenInQueue ==
    ASSUME pending \in Seq(Event), pending # <<>>
    PROVE  Chosen \in 1..Len(pending)
<1> DEFINE I == {i \in 1..Len(pending) : pending[i].kind = "off" /\ pending[i].session \in sessions}
<1>1. Chosen = IF (IF I # {} THEN Min(I) ELSE 0) = 0 THEN 1 ELSE (IF I # {} THEN Min(I) ELSE 0)
  BY DEF Chosen, SelectInSeq
<1>2. Len(pending) \in Nat \ {0}
  OBVIOUS
<1>3. I \subseteq 1..Len(pending) /\ I \subseteq Nat
  BY <1>2
<1> HIDE DEF I
<1>4. CASE I = {}
  BY <1>1, <1>2, <1>4
<1>5. CASE I # {}
  <2>1. Min(I) \in I
    BY <1>3, <1>5, LeastOf
  <2> QED BY <1>1, <1>2, <1>3, <1>5, <2>1
<1> QED BY <1>4, <1>5

\* The event is taken out of the queue and the others keep their place.
LEMMA RestOfQueue ==
    ASSUME NEW s \in Seq(Event), NEW i \in 1..Len(s)
    PROVE  s[i] \in Event /\ RemoveAt(s, i) \in Seq(Event)
<1>1. s[i] \in Event /\ Len(s) \in Nat /\ i \in Nat
  BY ElementOfSeq, LenProperties
<1>2. SubSeq(s, 1, i - 1) \in Seq(Event)
  <2>1. \A k \in 1..(i - 1) : s[k] \in Event
    BY <1>1, ElementOfSeq
  <2>2. 1 \in Int /\ i - 1 \in Int
    BY <1>1
  <2> QED BY <2>1, <2>2, SubSeqProperties
<1>3. SubSeq(s, i + 1, Len(s)) \in Seq(Event)
  <2>1. \A k \in (i + 1)..Len(s) : s[k] \in Event
    BY <1>1, ElementOfSeq
  <2>2. i + 1 \in Int /\ Len(s) \in Int
    BY <1>1
  <2> QED BY <2>1, <2>2, SubSeqProperties
<1> QED BY <1>1, <1>2, <1>3, ConcatProperties DEF RemoveAt

-----------------------------------------------------------------------------
(* The server drives the core *)

\* The server's queues start empty.
LEMMA QueueInit == Init => QueueTypes
BY DEF Init, QueueTypes

\* A client's steps only ever add a well-formed event to the channel.
LEMMA ClientQueues ==
    ASSUME QueueTypes, NEW s \in Sessions, Client(s)
    PROVE  QueueTypes' /\ UNCHANGED <<coreVars, sessions, wpc>>
<1>1. CASE Accept(s)
  <2>1. Register(s) \in Event
    BY DEF Register, Event
  <2> QED BY <1>1, <2>1 DEF Accept, QueueTypes
<1>2. CASE \E r \in Requests : ReadCommand(s, r)
  <2> PICK r \in Requests : ReadCommand(s, r)
    BY <1>2
  <2>1. Command(s, r) \in Event
    BY DEF Command, Event, Requests
  <2> QED BY <2>1 DEF ReadCommand, QueueTypes
<1>3. CASE Greet(s) \/ ReadEnd(s) \/ WriteReply(s)
  BY <1>3 DEF Greet, ReadEnd, WriteReply, QueueTypes, workerVars
<1> QED BY <1>1, <1>2, <1>3 DEF Client

\* What the worker does with the event it picked.
LEMMA PickedEvent ==
    ASSUME QueueTypes, WorkerPick
    PROVE  \E e \in Event :
             /\ pending' \in Seq(Event)
             /\ IF e.kind = "register"
                  THEN sessions' = sessions \cup {e.session} /\ wpc' = "top" /\ UNCHANGED coreVars
                  ELSE /\ wpc' = "reply" /\ UNCHANGED sessions
                       /\ (e.session \in sessions /\ Request(e)) \/ UNCHANGED coreVars
<1>1. Chosen \in 1..Len(pending)
  BY ChosenInQueue DEF QueueTypes, WorkerPick
<1>2. pending[Chosen] \in Event /\ RemoveAt(pending, Chosen) \in Seq(Event)
  BY <1>1, RestOfQueue DEF QueueTypes
<1> QED BY <1>2 DEF WorkerPick, Goto

\* The worker moves events, never invents one.
LEMMA WorkerQueues ==
    ASSUME QueueTypes, Worker \/ Stop \/ UNCHANGED vars
    PROVE  QueueTypes'
<1>1. CASE WorkerPick
  <2>1. PICK e \in Event :
             /\ pending' \in Seq(Event)
             /\ IF e.kind = "register"
                  THEN sessions' = sessions \cup {e.session} /\ wpc' = "top"
                  ELSE wpc' = "reply" /\ UNCHANGED sessions
    BY <1>1, PickedEvent
  <2>2. e.session \in Sessions
    BY DEF Event
  <2>3. UNCHANGED <<inbox, lost>> /\ wpc' # "pick"
    BY <1>1, <2>1 DEF WorkerPick
  <2> QED BY <2>1, <2>2, <2>3 DEF QueueTypes
<1>2. CASE WorkerFill
  <2>1. CASE inbox # <<>> /\ pending' = Append(pending, Head(inbox)) /\ inbox' = Tail(inbox)
             /\ UNCHANGED wpc
    BY <1>2, <2>1 DEF WorkerFill, QueueTypes
  <2>2. CASE Goto(IF pending = <<>> THEN "top" ELSE "pick") /\ UNCHANGED <<inbox, pending>>
    BY <1>2, <2>2 DEF WorkerFill, QueueTypes, Goto
  <2> QED BY <1>2, <2>1, <2>2 DEF WorkerFill
<1>3. CASE WorkerTop \/ WorkerSweep \/ WorkerDrain
  <2>1. UNCHANGED <<inbox, pending>>
    BY <1>3 DEF WorkerTop, WorkerSweep, WorkerDrain
  <2>2. wpc' # "pick"
    BY <1>3 DEF WorkerTop, WorkerSweep, WorkerDrain, Goto
  <2>3. sessions' \subseteq sessions
    BY <1>3 DEF WorkerTop, WorkerSweep, WorkerDrain, Drop
  <2>4. lost' \subseteq Sessions
    BY <1>3 DEF WorkerTop, WorkerSweep, WorkerDrain, QueueTypes
  <2> QED BY <2>1, <2>2, <2>3, <2>4 DEF QueueTypes
<1>4. CASE WorkerCore \/ WorkerReply \/ Stop \/ UNCHANGED vars
  BY <1>4 DEF WorkerCore, WorkerReply, Stop, vars, workerVars, QueueTypes, Goto
<1> QED BY <1>1, <1>2, <1>3, <1>4 DEF Worker

\* A request of a registered session is a request of the core.
LEMMA RequestIsCore ==
    ASSUME NEW e \in Event, e.kind # "register", Request(e)
    PROVE  CoreNext
<1>1. e.session \in Sessions /\ e.address \in Addresses
  BY DEF Event
<1> QED BY <1>1 DEF Request, CoreNext

\* Dropping a session is a disconnect of the core, or leaves it alone.
LEMMA DropIsCore ==
    ASSUME NEW s \in Sessions, Drop(s)
    PROVE  CoreNext \/ UNCHANGED coreVars
BY DEF Drop, CoreNext

\* Whatever clients, queues and worker do, the core only ever takes one of its
\* own steps: the handlers of one worker never overlap.
LEMMA ServerSteps ==
    ASSUME QueueTypes, [Next]_vars
    PROVE  QueueTypes' /\ [CoreNext]_coreVars
<1>1. CASE \E s \in Sessions : Client(s)
  BY <1>1, ClientQueues
<1>2. CASE Worker
  <2>0. QueueTypes'
    BY <1>2, WorkerQueues
  <2>1. CASE WorkerPick
    BY <2>0, <2>1, PickedEvent, RequestIsCore
  <2>2. CASE WorkerSweep \/ WorkerDrain
    BY <2>0, <2>2, DropIsCore DEF WorkerSweep, WorkerDrain, QueueTypes
  <2>3. CASE WorkerTop \/ WorkerFill \/ WorkerReply
    BY <2>0, <2>3 DEF WorkerTop, WorkerFill, WorkerReply
  <2>4. CASE WorkerCore
    BY <2>0, <2>4 DEF WorkerCore, CoreNext
  <2> QED BY <1>2, <2>1, <2>2, <2>3, <2>4 DEF Worker
<1>3. CASE Stop \/ UNCHANGED vars
  BY <1>3, WorkerQueues DEF Stop, vars
<1> QED BY <1>1, <1>2, <1>3 DEF Next

\* The server with its queues and threads implements the core's specification,
\* so what is proved of the core (journal, fence, instrument steps) holds of
\* the served system.
THEOREM ServerImplementsCore == Spec => CoreSpec
<1>1. Init => CoreInit /\ QueueTypes
  BY QueueInit DEF Init
<1>2. QueueTypes /\ [Next]_vars => QueueTypes' /\ [CoreNext]_coreVars
  BY ServerSteps
<1> QED BY <1>1, <1>2, PTL DEF Spec, CoreSpec

-----------------------------------------------------------------------------
(* No orphaned lease *)

\* Why NoOrphanLease is inductive: a claim still under way belongs to a session
\* the worker knows, and the worker forgets a session only between handlers and
\* when it owns nothing.
LeaseInv ==
    /\ \A a \in Addresses : owner[a] # None => owner[a] \in sessions
    /\ op.step \in {"claim_off", "claim_persist"} => op.session \in sessions
    /\ wpc = "ended" => sessions = {}

\* A handler leases an instrument only to the session it started for.
LEMMA HandlerLeases ==
    ASSUME CoreInv, Handler
    PROVE  /\ \A a \in Addresses : owner'[a] # None =>
                \/ owner'[a] = owner[a]
                \/ op.step = "claim_persist" /\ owner'[a] = op.session
           /\ op'.step \in {"claim_off", "claim_persist"} =>
                op.step \in {"claim_off", "claim_persist"} /\ op'.session = op.session
<1> USE DEF CoreInv, CoreTypeOK, At
<1>1. CASE ClaimOff
  BY <1>1, AtRest, Moved DEF ClaimOff, Steps
<1>2. CASE ClaimPersist
  BY <1>2, AtRest DEF ClaimPersist
<1>3. CASE ReleaseOwner
  BY <1>3 DEF ReleaseOwner, Op
<1>4. CASE ReleaseOff \/ ReleaseLocal \/ ReleasePersist
  BY <1>4, AtRest, Moved DEF ReleaseOff, ReleaseLocal, ReleasePersist, Steps
<1>5. CASE RecoverOff \/ RecoverPersist
  BY <1>5, AtRest, Moved DEF RecoverOff, RecoverPersist, Steps
<1> QED BY <1>1, <1>2, <1>3, <1>4, <1>5 DEF Handler

\* A request leases an instrument only to the session that sent it.
LEMMA RequestLeases ==
    ASSUME CoreInv, NEW e \in Event, e.kind # "register", Request(e)
    PROVE  /\ \A a \in Addresses : owner'[a] # None => owner'[a] \in {owner[a], e.session}
           /\ op'.step \in {"claim_off", "claim_persist"} => op'.session = e.session
<1> USE DEF CoreInv, CoreTypeOK
<1>0. e.session \in Sessions /\ e.address \in Addresses
  BY DEF Event
<1>1. CASE Claim(e.session, e.address)
  <2>1. CASE UNCHANGED <<owner, op>>
    BY <1>1, <2>1 DEF Claim, Ready
  <2>2. CASE op' = [Idle EXCEPT !.step = "claim_off", !.address = e.address, !.session = e.session]
             /\ UNCHANGED owner
    BY <1>1, <2>2 DEF Claim, Idle
  <2>3. CASE owner' = [owner EXCEPT ![e.address] = e.session] /\ UNCHANGED op
    BY <1>0, <1>1, <2>3 DEF Claim, Ready
  <2> QED BY <1>1, <2>1, <2>2, <2>3 DEF Claim
<1>2. CASE Transfer(e.session, e.address) \/ List
  BY <1>2 DEF Transfer, List, Ready
<1>3. CASE Release(e.session, e.address) \/ Disconnect(e.session) \/ Recover(e.address)
  BY <1>3 DEF Release, Disconnect, StartRelease, Recover, Idle
<1> QED BY <1>1, <1>2, <1>3 DEF Request

\* A session is forgotten between handlers, when it owns nothing.
LEMMA DropLeases ==
    ASSUME CoreInv, NEW s \in Sessions, Drop(s), LeaseInv
    PROVE  /\ \A a \in Addresses : owner'[a] # None => owner'[a] \in sessions'
           /\ op'.step \notin {"claim_off", "claim_persist"}
<1>1. CASE Disconnect(s) /\ UNCHANGED sessions
  BY <1>1 DEF Disconnect, StartRelease, Idle, LeaseInv
<1>2. CASE Owned(s) = {} /\ Ready /\ sessions' = sessions \ {s} /\ UNCHANGED coreVars
  BY <1>2 DEF Ready, Owned, coreVars, LeaseInv
<1> QED BY <1>1, <1>2 DEF Drop

\* Every lease belongs to a registered session, whatever queues and
\* disconnections interleave with a claim; and none is left when the worker
\* ends.
THEOREM LeasesNeverOrphaned == Spec => []NoOrphanLease
<1>1. Init => LeaseInv /\ QueueTypes
  BY QueueInit DEF Init, CoreInit, LeaseInv, Idle
<1>2. CoreInv /\ QueueTypes /\ LeaseInv /\ [Next]_vars => QueueTypes' /\ LeaseInv'
  <2> SUFFICES ASSUME CoreInv, QueueTypes, LeaseInv, [Next]_vars PROVE LeaseInv'
    BY ServerSteps
  <2>1. CASE (\E s \in Sessions : Client(s)) \/ Stop \/ UNCHANGED vars
    <3>1. UNCHANGED <<coreVars, sessions, wpc>>
      BY <2>1, ClientQueues DEF Stop, vars, workerVars
    <3> QED BY <3>1 DEF LeaseInv, coreVars
  <2>2. CASE WorkerPick
    <3>1. wpc' # "ended"
      BY <2>2 DEF WorkerPick, Goto
    <3>2. PICK e \in Event :
             IF e.kind = "register"
               THEN sessions' = sessions \cup {e.session} /\ UNCHANGED coreVars
               ELSE /\ UNCHANGED sessions
                    /\ (e.session \in sessions /\ Request(e)) \/ UNCHANGED coreVars
      BY <2>2, PickedEvent
    <3>3. CASE UNCHANGED coreVars
      BY <3>1, <3>2, <3>3 DEF LeaseInv, coreVars
    <3>4. CASE e.kind # "register" /\ UNCHANGED sessions /\ e.session \in sessions /\ Request(e)
      BY <3>1, <3>4, RequestLeases DEF LeaseInv
    <3> QED BY <3>2, <3>3, <3>4
  <2>3. CASE WorkerSweep
    <3>1. wpc' # "ended"
      BY <2>3 DEF WorkerSweep, Goto
    <3>2. CASE \E s \in lost : Drop(s)
      BY <3>1, <3>2, DropLeases DEF QueueTypes, LeaseInv
    <3>3. CASE UNCHANGED <<coreVars, sessions>>
      BY <3>1, <3>3 DEF LeaseInv, coreVars
    <3> QED BY <2>3, <3>2, <3>3 DEF WorkerSweep
  <2>4. CASE WorkerDrain
    <3>1. CASE (\E s \in sessions : Drop(s)) /\ UNCHANGED wpc
      BY <2>4, <3>1, DropLeases DEF WorkerDrain, QueueTypes, LeaseInv
    <3>2. CASE sessions = {} /\ UNCHANGED <<coreVars, sessions>>
      BY <3>2 DEF LeaseInv, coreVars
    <3> QED BY <2>4, <3>1, <3>2 DEF WorkerDrain
  <2>5. CASE WorkerCore
    <3>1. Handler /\ UNCHANGED <<sessions, wpc>>
      BY <2>5 DEF WorkerCore, workerVars
    <3> QED BY <3>1, HandlerLeases DEF LeaseInv
  <2>6. CASE WorkerTop \/ WorkerFill \/ WorkerReply
    <3>1. UNCHANGED <<owner, op, sessions>> /\ wpc' # "ended"
      BY <2>6 DEF WorkerTop, WorkerFill, WorkerReply, coreVars, Goto
    <3> QED BY <3>1 DEF LeaseInv
  <2> QED BY <2>1, <2>2, <2>3, <2>4, <2>5, <2>6 DEF Next, Worker
<1>3. LeaseInv => NoOrphanLease
  BY DEF LeaseInv, NoOrphanLease
<1> QED BY <1>1, <1>2, <1>3, ServerImplementsCore, CoreInvariant, PTL DEF Spec

=============================================================================
