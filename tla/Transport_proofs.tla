-------------------------- MODULE Transport_proofs --------------------------
(* Theorems about Transport, for every set of benches (roles, ports, meters) *)
(* and any number of commands a helper still owes.                           *)
EXTENDS Transport, SequenceTheorems, TLAPS

-----------------------------------------------------------------------------
(* The inductive invariant *)

AllRoles == UNION {DOMAIN b.port : b \in Benches}
Telegram == [role : AllRoles \cup {"any"}, op : {"ON", "OFF", "other"}]
Session == [open : BOOLEAN, poisoned : BOOLEAN, dead : BOOLEAN, lease : BOOLEAN,
            todo : Seq(Telegram), ready : Nat]

\* A session that takes transfers, and the sources its helper may still turn
\* ON.
Good(h) == h.open /\ ~h.poisoned
Owed(h) == {h.todo[i].role : i \in {k \in 1..Len(h.todo) : h.todo[k].op = "ON"}}

\* A session in use owes nothing: every command it did not answer in time
\* poisoned it.
Clean(h) == Good(h) => h.todo = <<>> /\ h.ready = 0

HelpersInv ==
    /\ bench \in Benches /\ attached \subseteq Roles
    /\ helper \in [Ports -> Session]
    /\ \A p \in Ports : Clean(helper[p])
    /\ \A p \in Ports : \A r \in Owed(helper[p]) : r \in Roles /\ Port(r) = p

\* No late command can turn ON a source that was reported OFF, or that is
\* about to be.
OffInv ==
    /\ said \cap on = {}
    /\ \A p \in Ports : Owed(helper[p]) \cap said = {}
    /\ call.at = "zero" => /\ call.role \notin on
                           /\ \A p \in Ports : call.role \notin Owed(helper[p])

\* A role that need not be validated was identified through its session.
KnownInv ==
    /\ \A r \in attached : Good(helper[Port(r)]) /\ r \notin pending => r \in known
    /\ IdentifiedFirst

\* A meter with no conversion since the last level has its mark.
ReadInv == first \subseteq bench.adc /\ first \cap attached \subseteq discard

Ops == {"idle", "connect", "disconnect", "ON", "LEVEL", "READ", "off", "off all"}
Points == {"idle", "claim", "identify", "reject", "detach", "validate", "ON", "LEVEL", "READ",
           "verify", "dispatch", "check", "zero", "recover", "finish"}
Requested == {"CLEAR", "ABORT", "CLS", "LOCAL", "RELEASE", "REN", "EXIT"}
CallType == [op : Ops, role : AllRoles \cup {"none"}, at : Points,
             steps : Seq(AllRoles \cup Requested), sent : SUBSET AllRoles,
             tried : SUBSET AllRoles, tries : Nat, expired : BOOLEAN, failed : BOOLEAN,
             spoiled : BOOLEAN]
Pair == {"source", "source2"}

\* Where a call is and the role it works on; a call that is not a connection
\* works on an attached role.
CallShape(c) ==
    /\ c \in CallType /\ ~c.spoiled
    /\ c.at # "idle" => c.op # "idle" /\ c.role \in Roles
    /\ c.op \notin {"idle", "connect"} => c.role \in attached
    /\ c.op = "off all" => /\ c.role \in Pair
                           /\ c.steps \in Seq(attached \cap Pair)
    /\ c.at = "validate" => c.op \in {"ON", "LEVEL", "READ"}
    /\ c.at \in {"verify", "dispatch", "check", "zero", "recover", "finish"}
         => c.op \in {"off", "off all"}
    /\ c.at = "detach" => c.op = "disconnect"
    /\ c.op = "disconnect" => c.steps \in Seq(Requested) /\ c.steps # <<>>
    /\ c.at \in {"ON", "LEVEL", "READ"} => c.op = c.at

Inv == /\ HelpersInv /\ OffInv /\ KnownInv /\ ReadInv /\ CallShape(call) /\ OwnAnswer

-----------------------------------------------------------------------------
(* One request *)

\* Roles, ports and sessions of the bench in use.
LEMMA BenchFacts ==
    ASSUME bench \in Benches
    PROVE  /\ Roles \subseteq AllRoles
           /\ \A r \in Roles : Port(r) \in Ports
           /\ Closed \in Session /\ ~Closed.open /\ Closed.todo = <<>> /\ Owed(Closed) = {}
           /\ Fresh \in Session /\ Clean(Fresh) /\ Owed(Fresh) = {}
           /\ bench.adc \subseteq Roles
<1>1. Roles \subseteq AllRoles /\ bench.adc \subseteq Roles
  BY TransportAssumption DEF AllRoles, Roles
<1>2. \A r \in Roles : Port(r) \in Ports
  BY DEF Ports, Port
<1>3. Closed \in Session /\ ~Closed.open /\ Closed.todo = <<>>
  BY DEF Closed, Session
<1>4. Fresh \in Session /\ Fresh.todo = <<>> /\ Fresh.ready = 0
  <2>1. Closed.ready = 0
    BY DEF Closed
  <2> QED BY <1>3, <2>1 DEF Fresh, Session
<1>5. Owed(Closed) = {} /\ Owed(Fresh) = {}
  BY <1>3, <1>4 DEF Owed
<1> QED BY <1>1, <1>2, <1>3, <1>4, <1>5 DEF Clean

\* Queues of commands: what is added, what is left, what comes first.
LEMMA OwedFacts ==
    ASSUME NEW s \in Seq(Telegram), NEW t \in Telegram
    PROVE  LET owes(q) == {q[i].role : i \in {k \in 1..Len(q) : q[k].op = "ON"}}
               own == IF t.op = "ON" THEN {t.role} ELSE {}
               new == Append(s, t)
           IN  /\ new \in Seq(Telegram) /\ new # <<>> /\ Len(new) = Len(s) + 1
               /\ Tail(new) \in Seq(Telegram) /\ Head(new) \in Telegram
               /\ owes(new) \subseteq owes(s) \cup own
               /\ owes(Tail(new)) \subseteq owes(s) \cup own
               /\ Head(new).op = "ON" => Head(new).role \in owes(s) \cup own
               /\ s = <<>> => Tail(new) = <<>> /\ Len(new) = 1
<1> DEFINE owes(q) == {q[i].role : i \in {k \in 1..Len(q) : q[k].op = "ON"}}
           own == IF t.op = "ON" THEN {t.role} ELSE {}
           new == Append(s, t)
<1>1. /\ new \in Seq(Telegram) /\ Len(s) \in Nat /\ Len(new) = Len(s) + 1 /\ new # <<>>
      /\ \A i \in 1..Len(s) : new[i] = s[i]
      /\ new[Len(s) + 1] = t
  OBVIOUS
<1> HIDE DEF new
<1>2. /\ Tail(new) \in Seq(Telegram) /\ Head(new) \in Telegram /\ Head(new) = new[1]
      /\ Len(Tail(new)) = Len(new) - 1
      /\ \A i \in 1..Len(Tail(new)) : Tail(new)[i] = new[i + 1]
  BY <1>1
<1>3. ASSUME NEW i \in 1..Len(new), new[i].op = "ON" PROVE new[i].role \in owes(s) \cup own
  <2>1. CASE i \in 1..Len(s)
    BY <1>1, <1>3, <2>1
  <2>2. CASE i = Len(s) + 1
    BY <1>1, <1>3, <2>2
  <2> QED BY <1>1, <2>1, <2>2
<1>4. owes(new) \subseteq owes(s) \cup own
  BY <1>3
<1>5. ASSUME NEW i \in 1..Len(Tail(new)), Tail(new)[i].op = "ON"
      PROVE  Tail(new)[i].role \in owes(s) \cup own
  <2>1. i + 1 \in 1..Len(new) /\ Tail(new)[i] = new[i + 1]
    BY <1>1, <1>2
  <2> QED BY <1>3, <1>5, <2>1
<1>6. owes(Tail(new)) \subseteq owes(s) \cup own
  BY <1>5
<1>7. Head(new).op = "ON" => Head(new).role \in owes(s) \cup own
  <2>1. 1 \in 1..Len(new)
    BY <1>1
  <2> QED BY <1>2, <1>3, <2>1
<1>8. s = <<>> => Tail(new) = <<>> /\ Len(new) = 1
  <2> SUFFICES ASSUME s = <<>> PROVE Tail(new) = <<>> /\ Len(new) = 1
    OBVIOUS
  <2>1. Len(new) = 1 /\ Len(Tail(new)) = 0
    BY <1>1, <1>2
  <2> QED BY <2>1, <1>2, EmptySeq
<1> QED BY <1>1, <1>2, <1>4, <1>6, <1>7, <1>8 DEF new

\* Another queue, other answers: the rest of a session stays.
With(h, q, n) == [h EXCEPT !.ready = n, !.todo = q]
Lost(h) == [h EXCEPT !.dead = TRUE, !.todo = <<>>, !.ready = 0]
LEMMA SessionChange ==
    ASSUME NEW h \in Session
    PROVE  /\ \A q \in Seq(Telegram), n \in Nat :
                /\ With(h, q, n) \in Session /\ With(h, q, n).todo = q /\ With(h, q, n).ready = n
                /\ With(h, q, n).open = h.open /\ With(h, q, n).poisoned = h.poisoned
           /\ Lost(h) \in Session /\ Lost(h).todo = <<>> /\ Lost(h).ready = 0
           /\ Lost(h).open = h.open /\ Lost(h).poisoned = h.poisoned
<1>1. <<>> \in Seq(Telegram)
  OBVIOUS
<1> QED BY <1>1 DEF Session, With, Lost

\* The sources a request may turn ON.
Ordered(r, op) == IF op = "ON" THEN {r} ELSE {}

\* What an outcome of a request can be: a session that took transfers before,
\* still owes only what it owed and what it was just told, and whose answer is
\* the request's own.
Sound(h, r, op, x) ==
    /\ x.h \in Session /\ Clean(x.h)
    /\ Good(x.h) => Good(h)
    /\ x.ok \in BOOLEAN /\ x.own \in BOOLEAN /\ x.slow \in BOOLEAN
    /\ x.ok /\ op \in Scpi => x.own /\ x.h.todo = <<>>
    /\ Owed(x.h) \subseteq Owed(h) \cup Ordered(r, op)
    /\ x.on \subseteq on \cup Owed(h) \cup Ordered(r, op)

\* HelperSession::request returns one outcome, made of these parts.
LEMMA OutcomeSound ==
    ASSUME NEW h, NEW r, NEW op, NEW g \in Session, NEW o, Clean(g), Good(g) => Good(h),
           NEW ok \in BOOLEAN, NEW own \in BOOLEAN, NEW slow \in BOOLEAN,
           ok /\ op \in Scpi => own /\ g.todo = <<>>,
           Owed(g) \subseteq Owed(h) \cup Ordered(r, op),
           o \subseteq on \cup Owed(h) \cup Ordered(r, op)
    PROVE  Sound(h, r, op, Outcome(ok, own, g, o, slow))
<1> DEFINE x == Outcome(ok, own, g, o, slow)
<1>1. x.ok = ok /\ x.own = own /\ x.h = g /\ x.on = o /\ x.slow = slow
  BY DEF Outcome
<1> HIDE DEF x
<1>2. x.h \in Session /\ Clean(x.h) /\ (Good(x.h) => Good(h))
  BY <1>1
<1>3. x.ok \in BOOLEAN /\ x.own \in BOOLEAN /\ x.slow \in BOOLEAN
  BY <1>1
<1>4. x.ok /\ op \in Scpi => x.own /\ x.h.todo = <<>>
  BY <1>1
<1>5. Owed(x.h) \subseteq Owed(h) \cup Ordered(r, op)
  BY <1>1
<1>6. x.on \subseteq on \cup Owed(h) \cup Ordered(r, op)
  BY <1>1
<1>7. Sound(h, r, op, x)
  BY <1>2, <1>3, <1>4, <1>5, <1>6, Zenon DEF Sound
<1> QED BY <1>7 DEF x

\* A request that is not sent changes nothing.
LEMMA RefusedSound ==
    ASSUME NEW h \in Session, NEW g \in Session, Clean(g), Good(g) => Good(h), Owed(g) \subseteq Owed(h),
           NEW r, NEW op
    PROVE  Sound(h, r, op, Refused(g))
<1>1. Owed(g) \subseteq Owed(h) \cup Ordered(r, op) /\ on \subseteq on \cup Owed(h) \cup Ordered(r, op)
  OBVIOUS
<1> QED BY <1>1, OutcomeSound DEF Refused

\* A command can turn on the role it names, and nothing else.
LEMMA ExecutedBound ==
    ASSUME NEW c, NEW o \in Executed(c, on)
    PROVE  o \subseteq on \cup (IF c.op = "ON" THEN {c.role} ELSE {})
<1>1. CASE c.op = "ON"
  BY <1>1 DEF Executed
<1>2. CASE c.op = "OFF"
  BY <1>2 DEF Executed
<1>3. CASE c.op \notin {"ON", "OFF"}
  <2>1. o = on
    BY <1>3 DEF Executed
  <2> QED BY <2>1
<1> QED BY <1>1, <1>2, <1>3

\* HelperSession::request, whatever the helper does with it.
LEMMA RequestSound ==
    ASSUME NEW h \in Session, Clean(h), NEW r \in AllRoles, NEW op, NEW x \in Request(h, r, op)
    PROVE  Sound(h, r, op, x)
<1> DEFINE scpi == op \in Scpi
           t == Command(r, op)
           sent == Append(h.todo, t)
           bad(g) == [g EXCEPT !.poisoned = @ \/ scpi]
           late(g) == [g EXCEPT !.poisoned = TRUE]
           read == IF h.ready > 0 THEN [h EXCEPT !.ready = @ - 1, !.todo = sent]
                                  ELSE [h EXCEPT !.todo = Tail(sent)]
           after == IF h.ready > 0 THEN {on} ELSE Executed(Head(sent), on)
           died == [h EXCEPT !.dead = TRUE, !.todo = <<>>, !.ready = 0]
           told == [h EXCEPT !.todo = sent]
<1>1. t \in Telegram /\ (IF t.op = "ON" THEN {t.role} ELSE {}) = Ordered(r, op)
  BY DEF Command, Telegram, Ordered
<1>2. h.todo \in Seq(Telegram) /\ h.ready \in Nat
  BY DEF Session
<1> HIDE DEF t
<1> DEFINE owes(q) == {q[i].role : i \in {k \in 1..Len(q) : q[k].op = "ON"}}
<1>3. /\ sent \in Seq(Telegram) /\ sent # <<>> /\ Len(sent) = Len(h.todo) + 1
      /\ Tail(sent) \in Seq(Telegram) /\ Head(sent) \in Telegram
      /\ owes(sent) \subseteq Owed(h) \cup Ordered(r, op)
      /\ owes(Tail(sent)) \subseteq Owed(h) \cup Ordered(r, op)
      /\ Head(sent).op = "ON" => Head(sent).role \in Owed(h) \cup Ordered(r, op)
      /\ h.todo = <<>> => Tail(sent) = <<>> /\ Len(sent) = 1
  BY <1>1, <1>2, OwedFacts DEF Owed
<1> HIDE DEF sent
<1>4. CASE \/ ~h.open \/ (scpi /\ h.poisoned)
           \/ h.dead
  <2>1. x \in {Refused(h), Refused(late(h))}
    <3> DEFINE rest == {Outcome(TRUE, h.ready = 0 /\ Len(sent) = 1, read, o, FALSE) : o \in after}
               \cup {Outcome(FALSE, FALSE, bad(read), o, FALSE) : o \in after}
               \cup {Outcome(FALSE, FALSE, bad(died), o, FALSE) : o \in Executed(t, on)}
               \cup {Outcome(FALSE, FALSE, late(h), on, TRUE)}
               \cup (IF Len(sent) + h.ready <= MaxLate
                       THEN {Outcome(FALSE, FALSE, late(told), on, TRUE)} ELSE {})
    <3>1. Request(h, r, op) =
             CASE ~h.open \/ (scpi /\ h.poisoned) -> {Refused(h)}
               [] h.open /\ ~(scpi /\ h.poisoned) /\ h.dead -> {Refused(late(h))}
               [] OTHER -> rest
      BY Zenon DEF Request, sent, t
    <3> HIDE DEF rest, late, scpi
    <3> QED BY <1>4, <3>1
  <2>2. /\ late(h) \in Session /\ ~Good(late(h)) /\ Owed(late(h)) = Owed(h)
    BY DEF Session, Good, Owed
  <2>3. Sound(h, r, op, Refused(late(h)))
    BY <2>2, RefusedSound DEF Clean
  <2> QED BY <2>1, <2>3, RefusedSound
<1>5. CASE ~(~h.open \/ (scpi /\ h.poisoned)) /\ ~h.dead
  <2>1. scpi => h.todo = <<>> /\ h.ready = 0
    BY <1>5 DEF Clean, Good
  <2>2. Request(h, r, op) =
           {Outcome(TRUE, h.ready = 0 /\ Len(sent) = 1, read, o, FALSE) : o \in after}
           \cup {Outcome(FALSE, FALSE, bad(read), o, FALSE) : o \in after}
           \cup {Outcome(FALSE, FALSE, bad(died), o, FALSE) : o \in Executed(t, on)}
           \cup {Outcome(FALSE, FALSE, late(h), on, TRUE)}
           \cup (IF Len(sent) + h.ready <= MaxLate
                   THEN {Outcome(FALSE, FALSE, late(told), on, TRUE)} ELSE {})
    BY <1>5 DEF Request, sent, t
  <2>3. \A o \in after : o \subseteq on \cup Owed(h) \cup Ordered(r, op)
    <3>1. after \subseteq {on} \cup Executed(Head(sent), on)
      OBVIOUS
    <3> QED BY <1>3, <3>1, ExecutedBound
  <2>4. \A o \in Executed(t, on) : o \subseteq on \cup Owed(h) \cup Ordered(r, op)
    BY <1>1, ExecutedBound
  <2>5. /\ read \in Session /\ Owed(read) \subseteq Owed(h) \cup Ordered(r, op)
        /\ read.open = h.open /\ read.poisoned = h.poisoned
        /\ h.todo = <<>> /\ h.ready = 0 => read.todo = <<>> /\ read.ready = 0
    <3>1. CASE h.ready > 0
      <4>1. /\ read \in Session /\ read.todo = sent /\ read.open = h.open /\ read.poisoned = h.poisoned
        <5>1. h.ready - 1 \in Nat /\ read = With(h, sent, h.ready - 1)
          BY <1>2, <3>1 DEF With
        <5> HIDE DEF read
        <5> QED BY <1>3, <5>1, SessionChange
      <4>2. Owed(read) = owes(sent)
        BY <4>1 DEF Owed
      <4> QED BY <1>3, <3>1, <4>1, <4>2
    <3>2. CASE ~(h.ready > 0)
      <4>1. /\ read \in Session /\ read.todo = Tail(sent) /\ read.ready = h.ready
            /\ read.open = h.open /\ read.poisoned = h.poisoned
        BY <1>2, <1>3, <3>2 DEF Session
      <4>2. Owed(read) = owes(Tail(sent))
        BY <4>1 DEF Owed
      <4> QED BY <1>3, <3>2, <4>1, <4>2
    <3> QED BY <3>1, <3>2
  <2>6. died \in Session /\ Owed(died) = {} /\ died.todo = <<>> /\ died.ready = 0
        /\ died.open = h.open /\ died.poisoned = h.poisoned
    <3>1. died \in Session /\ died.todo = <<>> /\ died.ready = 0
          /\ died.open = h.open /\ died.poisoned = h.poisoned
      <4>1. died = Lost(h)
        BY DEF Lost
      <4> HIDE DEF died
      <4> QED BY <4>1, SessionChange
    <3>2. Owed(died) = {}
      BY <3>1 DEF Owed
    <3> QED BY <3>1, <3>2
  <2>7. ASSUME NEW g \in Session
        PROVE  /\ bad(g) \in Session /\ bad(g).open = g.open /\ bad(g).poisoned = (g.poisoned \/ scpi)
               /\ bad(g).todo = g.todo /\ bad(g).ready = g.ready /\ Owed(bad(g)) = Owed(g)
               /\ late(g) \in Session /\ ~Good(late(g)) /\ Owed(late(g)) = Owed(g)
    BY DEF Session, Owed, Good
  <2>8. told \in Session /\ Owed(told) \subseteq Owed(h) \cup Ordered(r, op)
    BY <1>3 DEF Session, Owed
  <2> HIDE DEF read, died, told, bad, late, after, scpi
  <2>9. Clean(read) /\ (Good(read) => Good(h)) /\ (scpi => read.todo = <<>>)
    BY <2>1, <2>5 DEF Clean, Good
  <2>10. CASE \E o \in after : x = Outcome(TRUE, h.ready = 0 /\ Len(sent) = 1, read, o, FALSE)
    <3>1. scpi => (h.ready = 0 /\ Len(sent) = 1) /\ read.todo = <<>>
      BY <1>3, <2>1, <2>9
    <3>2. op \in Scpi => (h.ready = 0 /\ Len(sent) = 1) /\ read.todo = <<>>
      BY <3>1 DEF scpi
    <3> QED BY <3>2, <2>3, <2>5, <2>9, <2>10, OutcomeSound
  <2>11. CASE \E o \in after : x = Outcome(FALSE, FALSE, bad(read), o, FALSE)
    <3>1. Clean(bad(read)) /\ (Good(bad(read)) => Good(h))
      BY <2>5, <2>7, <2>9 DEF Clean, Good
    <3>2. bad(read) \in Session /\ Owed(bad(read)) \subseteq Owed(h) \cup Ordered(r, op)
      BY <2>5, <2>7
    <3> QED BY <2>3, <2>11, <3>1, <3>2, OutcomeSound
  <2>12. CASE \E o \in Executed(t, on) : x = Outcome(FALSE, FALSE, bad(died), o, FALSE)
    <3>1. Clean(bad(died)) /\ (Good(bad(died)) => Good(h))
      BY <2>6, <2>7, <1>5 DEF Clean, Good
    <3>2. bad(died) \in Session /\ Owed(bad(died)) \subseteq Owed(h) \cup Ordered(r, op)
      BY <2>6, <2>7
    <3> QED BY <2>4, <2>12, <3>1, <3>2, OutcomeSound
  <2>13. CASE \/ x = Outcome(FALSE, FALSE, late(h), on, TRUE)
              \/ x = Outcome(FALSE, FALSE, late(told), on, TRUE)
    <3>1. PICK g \in {late(h), late(told)} : x = Outcome(FALSE, FALSE, g, on, TRUE)
      BY <2>13
    <3>2. /\ g \in Session /\ Clean(g) /\ ~Good(g) /\ Owed(g) \subseteq Owed(h) \cup Ordered(r, op)
      BY <2>7, <2>8 DEF Clean
    <3>3. on \subseteq on \cup Owed(h) \cup Ordered(r, op)
      OBVIOUS
    <3> QED BY <3>1, <3>2, <3>3, OutcomeSound
  <2> QED BY <2>2, <2>10, <2>11, <2>12, <2>13
<1> QED BY <1>4, <1>5

-----------------------------------------------------------------------------
(* What a step does to the helpers *)

\* A step that can turn on, besides what the helpers still owe, the sources of
\* `new`; the sessions of the ports `fresh` are replaced.
Tamed(new, fresh) ==
    /\ bench' = bench
    /\ helper' \in [Ports -> Session]
    /\ \A p \in Ports : /\ Clean(helper'[p])
                        /\ p \notin fresh /\ Good(helper'[p]) => Good(helper[p])
                        /\ Owed(helper'[p]) \subseteq Owed(helper[p]) \cup {r \in new : Port(r) = p}
    /\ \A r \in on' : r \in on \/ r \in new \/ \E p \in Ports : r \in Owed(helper[p])

\* Everything the helpers owe after such a step is of their own ports.
LEMMA HelpersKept ==
    ASSUME HelpersInv, NEW new, NEW fresh, Tamed(new, fresh), new \subseteq Roles,
           attached' \subseteq Roles
    PROVE  HelpersInv'
<1>1. Roles' = Roles /\ Ports' = Ports /\ \A r : Port(r)' = Port(r)
  BY DEF Tamed, Roles, Ports, Port
<1>2. \A p \in Ports : Clean(helper'[p])
  BY DEF Tamed
<1>3. ASSUME NEW p \in Ports, NEW r \in Owed(helper'[p]) PROVE r \in Roles /\ Port(r) = p
  BY <1>3 DEF Tamed, HelpersInv
<1>4. bench' \in Benches /\ helper' \in [Ports -> Session]
  BY DEF Tamed, HelpersInv
<1>5. ASSUME NEW p \in Ports PROVE Clean(helper[p])' /\ \A r \in Owed(helper[p])' : r \in Owed(helper'[p])
  BY <1>2 DEF Clean, Good, Owed
<1> QED
  <2>1. (\A p \in Ports : Clean(helper[p]))'
    BY <1>1, <1>5
  <2>2. (\A p \in Ports : \A r \in Owed(helper[p]) : r \in Roles /\ Port(r) = p)'
    BY <1>1, <1>3, <1>5
  <2>3. (bench \in Benches /\ attached \subseteq Roles /\ helper \in [Ports -> Session])'
    BY <1>1, <1>4
  <2> QED BY <2>1, <2>2, <2>3 DEF HelpersInv

\* A source reported OFF stays OFF in such a step.
LEMMA OffKept ==
    ASSUME HelpersInv, OffInv, NEW new, NEW fresh, Tamed(new, fresh),
           \A r \in said' : r \notin new /\ (r \in said \/ (call.at = "zero" /\ r = call.role)),
           call'.at = "zero" =>
               \/ call.at = "zero" /\ call'.role = call.role /\ call.role \notin new
               \/ call'.role \notin on' /\ \A p \in Ports : call'.role \notin Owed(helper'[p])
    PROVE  OffInv'
<1>1. Ports' = Ports
  BY DEF Tamed, Roles, Ports
<1>2. ASSUME NEW r, r \notin new,
             \/ r \in said
             \/ call.at = "zero" /\ r = call.role
      PROVE  r \notin on' /\ \A p \in Ports : r \notin Owed(helper'[p])
  <2>1. r \notin on /\ \A p \in Ports : r \notin Owed(helper[p])
    BY <1>2 DEF OffInv
  <2> QED BY <1>2, <2>1 DEF Tamed
<1>3. said' \cap on' = {} /\ \A p \in Ports : Owed(helper'[p]) \cap said' = {}
  BY <1>2
<1>4. call'.at = "zero" => call'.role \notin on' /\ \A p \in Ports : call'.role \notin Owed(helper'[p])
  BY <1>2
<1>5. \A p \in Ports : Owed(helper[p])' = Owed(helper'[p])
  BY DEF Owed
<1> QED BY <1>1, <1>3, <1>4, <1>5 DEF OffInv

\* A call that may send a transfer now, if its session takes one.
Entitled(c) ==
    c.at \in {"ON", "LEVEL", "READ", "dispatch"} =>
        (Good(helper[Port(c.role)]) => c.role \in known)

\* Roles identified through their session stay so, unless it is replaced.
LEMMA KnownKept ==
    ASSUME HelpersInv, KnownInv, NEW new, NEW fresh, Tamed(new, fresh),
           attached' \subseteq Roles,
           \A r \in attached' : r \notin known' =>
               \/ r \in pending'
               \/ r \in attached /\ r \notin pending /\ r \notin known /\ Port(r) \notin fresh,
           Entitled(call)'
    PROVE  KnownInv'
<1>1. Roles' = Roles /\ Ports' = Ports /\ \A r : Port(r)' = Port(r)
  BY DEF Tamed, Roles, Ports, Port
<1>2. \A r \in Roles : Port(r) \in Ports
  BY DEF Ports, Port
<1>3. ASSUME NEW r \in attached', Good(helper'[Port(r)]), r \notin pending' PROVE r \in known'
  BY <1>2, <1>3 DEF Tamed, KnownInv
<1>4. \A r \in attached' : Good(helper[Port(r)])' = Good(helper'[Port(r)])
  BY <1>1 DEF Good
<1>5. (\A r \in attached : Good(helper[Port(r)]) /\ r \notin pending => r \in known)'
  BY <1>1, <1>3, <1>4
<1>6. IdentifiedFirst'
  BY DEF Entitled, IdentifiedFirst, Good
<1> QED BY <1>5, <1>6 DEF KnownInv

\* One port changes, to a session that is allowed.
LEMMA OnePort ==
    ASSUME HelpersInv, NEW p \in Ports, NEW g \in Session, Clean(g), NEW new, NEW fresh,
           p \notin fresh /\ Good(g) => Good(helper[p]),
           \A r \in Owed(g) : r \in Owed(helper[p]) \/ (r \in new /\ Port(r) = p),
           \A r \in on' : r \in on \/ r \in new \/ r \in Owed(helper[p]),
           bench' = bench, helper' = [helper EXCEPT ![p] = g]
    PROVE  Tamed(new, fresh)
<1>1. helper \in [Ports -> Session] /\ \A q \in Ports : Clean(helper[q])
  BY DEF HelpersInv
<1>2. helper' \in [Ports -> Session] /\ helper'[p] = g /\ \A q \in Ports \ {p} : helper'[q] = helper[q]
  BY <1>1
<1>3. ASSUME NEW q \in Ports
      PROVE  /\ Clean(helper'[q])
             /\ q \notin fresh /\ Good(helper'[q]) => Good(helper[q])
             /\ Owed(helper'[q]) \subseteq Owed(helper[q]) \cup {r \in new : Port(r) = q}
  <2>1. CASE q = p
    BY <1>2, <2>1
  <2>2. CASE q # p
    <3>1. helper'[q] = helper[q] /\ Clean(helper[q])
      BY <1>1, <1>2, <2>2
    <3> QED BY <3>1
  <2> QED BY <2>1, <2>2
<1> QED BY <1>2, <1>3 DEF Tamed

\* A step of the engine thread that sends nothing.
LEMMA Silent ==
    ASSUME HelpersInv, bench' = bench, helper' = helper, on' = on
    PROVE  Tamed({}, {})
BY DEF Tamed, HelpersInv

\* A helper that was ended owes nothing.
LEMMA EndedFacts ==
    ASSUME NEW h \in Session
    PROVE  LET g == [Ended(h) EXCEPT !.lease = FALSE]
           IN  g \in Session /\ ~g.open /\ g.todo = <<>> /\ Clean(g) /\ ~Good(g) /\ Owed(g) = {}
<1> DEFINE e == Ended(h)
           g == [e EXCEPT !.lease = FALSE]
<1>1. Closed \in Session /\ ~Closed.open /\ Closed.todo = <<>>
  BY DEF Closed, Session
<1>2. e \in Session /\ ~e.open /\ e.todo = <<>>
  BY <1>1 DEF Ended, Session
<1> HIDE DEF e
<1>3. g \in Session /\ ~g.open /\ g.todo = <<>>
  BY <1>2 DEF Session
<1> HIDE DEF g
<1>4. Clean(g) /\ ~Good(g) /\ Owed(g) = {}
  BY <1>3 DEF Clean, Good, Owed
<1> QED BY <1>3, <1>4 DEF g, e

\* HelperSession::request and what follows it in the same step: the session
\* stays as the request left it, or its helper is ended.
LEMMA RequestTamed ==
    ASSUME HelpersInv, NEW r \in Roles, NEW op, NEW x, NEW g \in Session,
           Sound(helper[Port(r)], r, op, x),
           g = x.h \/ (~g.open /\ g.todo = <<>>),
           bench' = bench, helper' = [helper EXCEPT ![Port(r)] = g], on' = x.on
    PROVE  Tamed(Ordered(r, op), {})
<1>1. Port(r) \in Ports
  BY DEF Ports, Port
<1>2. /\ Clean(g) /\ (Good(g) => Good(helper[Port(r)]))
      /\ \A q \in Owed(g) : q \in Owed(helper[Port(r)]) \cup Ordered(r, op)
  <2>1. CASE g = x.h
    BY <2>1 DEF Sound
  <2>2. CASE ~g.open /\ g.todo = <<>>
    BY <2>2 DEF Clean, Good, Owed
  <2> QED BY <2>1, <2>2
<1>3. \A q \in on' : q \in on \cup Owed(helper[Port(r)]) \cup Ordered(r, op)
  BY DEF Sound
<1>4. \A q \in Ordered(r, op) : Port(q) = Port(r)
  BY DEF Ordered
<1>5. /\ \A q \in Owed(g) : q \in Owed(helper[Port(r)]) \/ (q \in Ordered(r, op) /\ Port(q) = Port(r))
      /\ \A q \in on' : q \in on \/ q \in Ordered(r, op) \/ q \in Owed(helper[Port(r)])
  BY <1>2, <1>3, <1>4
<1> HIDE DEF Tamed
<1> QED BY <1>1, <1>2, <1>5, OnePort

\* A helper executes what it had not answered in time.
LEMMA RunTamed ==
    ASSUME HelpersInv, NEW p \in Ports, HelperRuns(p)
    PROVE  Tamed({}, {})
<1> DEFINE h == helper[p]
           g == [h EXCEPT !.todo = Tail(@), !.ready = @ + 1]
<1>1. h \in Session /\ Clean(h) /\ h.todo \in Seq(Telegram) /\ h.todo # <<>> /\ h.ready \in Nat
  BY DEF HelpersInv, HelperRuns, Session
<1>2. helper' = [helper EXCEPT ![p] = g] /\ on' \in Executed(Head(h.todo), on) /\ bench' = bench
  BY DEF HelperRuns
<1> HIDE DEF h
<1>3. g = With(h, Tail(h.todo), h.ready + 1)
  BY DEF With
<1> HIDE DEF g
<1>4. /\ Tail(h.todo) \in Seq(Telegram) /\ Len(Tail(h.todo)) = Len(h.todo) - 1 /\ Len(h.todo) \in Nat
      /\ \A i \in 1..Len(Tail(h.todo)) : Tail(h.todo)[i] = h.todo[i + 1]
      /\ Head(h.todo) = h.todo[1] /\ 1 \in 1..Len(h.todo) /\ h.ready + 1 \in Nat
  BY <1>1
<1>5. g \in Session /\ g.todo = Tail(h.todo) /\ g.open = h.open /\ g.poisoned = h.poisoned
  BY <1>1, <1>3, <1>4, SessionChange
<1>6. ~Good(g) /\ Clean(g)
  BY <1>1, <1>5 DEF Good, Clean
<1>7. ASSUME NEW r \in Owed(g) PROVE r \in Owed(h)
  <2>1. PICK i \in 1..Len(g.todo) : g.todo[i].op = "ON" /\ r = g.todo[i].role
    BY DEF Owed
  <2>2. i + 1 \in 1..Len(h.todo) /\ g.todo[i] = h.todo[i + 1]
    BY <1>4, <1>5, <2>1
  <2> QED BY <2>1, <2>2 DEF Owed
<1>8. ASSUME NEW r \in on' PROVE r \in on \/ r \in Owed(h)
  <2>1. r \in on \/ (Head(h.todo).op = "ON" /\ r = Head(h.todo).role)
    BY <1>2, ExecutedBound
  <2> QED BY <1>4, <2>1 DEF Owed
<1>9. h = helper[p]
  BY DEF h
<1>10. /\ \A r \in Owed(g) : r \in Owed(helper[p]) \/ (r \in {} /\ Port(r) = p)
       /\ \A r \in on' : r \in on \/ r \in {} \/ r \in Owed(helper[p])
  BY <1>7, <1>8, <1>9
<1> QED BY <1>2, <1>5, <1>6, <1>10, OnePort

\* Every request of the engine thread is one HelperSession::request.
LEMMA Asked ==
    ASSUME HelpersInv, NEW r \in Roles, NEW op, NEW x \in Request(helper[Port(r)], r, op)
    PROVE  Sound(helper[Port(r)], r, op, x)
<1>1. r \in AllRoles /\ Port(r) \in Ports
  BY BenchFacts DEF HelpersInv
<1>2. helper[Port(r)] \in Session /\ Clean(helper[Port(r)])
  BY <1>1 DEF HelpersInv
<1> QED BY <1>1, <1>2, RequestSound

\* Endpoint::request_before, which refuses after the deadline.
LEMMA Answered ==
    ASSUME HelpersInv, NEW r \in Roles, NEW op, NEW x \in Answers(r, op)
    PROVE  Sound(helper[Port(r)], r, op, x)
<1>1. CASE call.expired
  <2>1. Port(r) \in Ports /\ x = Refused(helper[Port(r)])
    BY <1>1, BenchFacts DEF HelpersInv, Answers
  <2>2. helper[Port(r)] \in Session /\ Clean(helper[Port(r)])
    BY <2>1 DEF HelpersInv
  <2> QED BY <2>1, <2>2, RefusedSound
<1>2. CASE ~call.expired
  BY <1>2, Asked DEF Answers
<1> QED BY <1>1, <1>2

-----------------------------------------------------------------------------
(* The call of the engine thread *)

\* A longer list of names holds the same ones.
LEMMA SeqWider ==
    ASSUME NEW S, NEW T, S \subseteq T, NEW s \in Seq(S)
    PROVE  s \in Seq(T)
OBVIOUS

\* Of more than one request something is left.
LEMMA TailOfMore ==
    ASSUME NEW S, NEW s \in Seq(S), Len(s) > 1
    PROVE  Tail(s) \in Seq(S) /\ Tail(s) # <<>>
<1>1. Len(s) \in Nat /\ Len(s) # 0 /\ s # <<>>
  OBVIOUS
<1>2. Tail(s) \in Seq(S) /\ Len(Tail(s)) = Len(s) - 1
  BY <1>1, HeadTailProperties
<1>3. Len(Tail(s)) # 0
  BY <1>1, <1>2
<1> QED BY <1>2, <1>3, EmptySeq

\* SOURCE_ROLES: the sources that are swept are attached.
LEMMA SweepersFacts ==
    /\ Sweepers \in Seq(attached \cap Pair)
    /\ attached \cap Pair # {} => Sweepers # <<>>
    /\ Sweepers # <<>> => /\ Head(Sweepers) \in attached \cap Pair
                          /\ Tail(Sweepers) \in Seq(attached \cap Pair)
<1>1. CASE "source" \in attached /\ "source2" \in attached
  BY <1>1 DEF Sweepers, Pair
<1>2. CASE "source" \in attached /\ "source2" \notin attached
  BY <1>2 DEF Sweepers, Pair
<1>3. CASE "source" \notin attached /\ "source2" \in attached
  BY <1>3 DEF Sweepers, Pair
<1>4. CASE "source" \notin attached /\ "source2" \notin attached
  BY <1>4 DEF Sweepers, Pair
<1> QED BY <1>1, <1>2, <1>3, <1>4

\* A call that returns leaves nothing behind.
LEMMA Returned ==
    ASSUME call' = Idle
    PROVE  CallShape(call)' /\ Entitled(call)' /\ call'.at # "zero"
<1>1. Idle.at = "idle" /\ Idle.op = "idle" /\ Idle.spoiled = FALSE
  BY DEF Idle
<1>2. Idle \in CallType
  BY DEF Idle, CallType, Ops, Points
<1> QED BY <1>1, <1>2 DEF CallShape, Entitled

\* Steps that change the call, and nothing the invariant relates.
LEMMA CallOnly ==
    ASSUME Inv, UNCHANGED <<bench, attached, helper, pending, discard, on, said, known, first, crossed>>,
           CallShape(call)', Entitled(call)',
           call'.at = "zero" => call.at = "zero" /\ call'.role = call.role
    PROVE  Inv'
<1>1. Tamed({}, {})
  BY Silent DEF Inv
<1>2. HelpersInv'
  BY <1>1, HelpersKept DEF Inv, HelpersInv
<1>3. OffInv'
  BY <1>1, OffKept DEF Inv
<1>4. KnownInv'
  BY <1>1, KnownKept DEF Inv, HelpersInv
<1> QED BY <1>2, <1>3, <1>4 DEF Inv, ReadInv, OwnAnswer

\* Steps that make one request.
LEMMA RequestStep ==
    ASSUME Inv, NEW r \in Roles, NEW op, NEW x, NEW g \in Session,
           Sound(helper[Port(r)], r, op, x),
           g = x.h \/ (~g.open /\ g.todo = <<>>),
           bench' = bench, helper' = [helper EXCEPT ![Port(r)] = g], on' = x.on,
           attached' \subseteq Roles,
           \A q \in said' : /\ q \notin Ordered(r, op)
                            /\ q \in said \/ (call.at = "zero" /\ q = call.role),
           call'.at = "zero" =>
               call'.role \notin on' /\ \A p \in Ports : call'.role \notin Owed(helper'[p]),
           \A q \in attached' : q \notin known' =>
               q \in pending' \/ (q \in attached /\ q \notin pending /\ q \notin known),
           CallShape(call)', Entitled(call)', ReadInv', ~crossed'
    PROVE  Inv'
<1>1. Tamed(Ordered(r, op), {}) /\ Ordered(r, op) \subseteq Roles
  BY RequestTamed DEF Inv, Ordered
<1>2. HelpersInv'
  BY <1>1, HelpersKept DEF Inv
<1>3. OffInv'
  BY <1>1, OffKept DEF Inv
<1>4. KnownInv'
  BY <1>1, KnownKept DEF Inv
<1> QED BY <1>2, <1>3, <1>4 DEF Inv, OwnAnswer

\* A new call.
Names == AllRoles \cup Requested
Opened(o, r, a) == [Idle EXCEPT !.op = o, !.role = r, !.at = a]
OpenedWith(o, r, a, s) == [Idle EXCEPT !.op = o, !.role = r, !.at = a, !.steps = s]
LEMMA BeginFields ==
    ASSUME NEW o \in Ops, NEW r \in AllRoles, NEW a \in Points
    PROVE  LET c == Opened(o, r, a)
           IN  c \in CallType /\ c.op = o /\ c.role = r /\ c.at = a /\ c.steps = <<>> /\ ~c.spoiled
<1>1. <<>> \in Seq(Names)
  OBVIOUS
<1> QED BY <1>1 DEF Opened, Idle, CallType, Names

\* A new call with its list of roles or requests.
LEMMA BeginSteps ==
    ASSUME NEW o \in Ops, NEW r \in AllRoles, NEW a \in Points, NEW s \in Seq(Names)
    PROVE  /\ OpenedWith(o, r, a, s) \in CallType /\ OpenedWith(o, r, a, s).op = o
           /\ OpenedWith(o, r, a, s).role = r /\ OpenedWith(o, r, a, s).at = a
           /\ OpenedWith(o, r, a, s).steps = s /\ ~OpenedWith(o, r, a, s).spoiled
BY DEF OpenedWith, Idle, CallType, Names

\* A call of force_sources_output_off works on the attached sources.
Sweeping(c) ==
    /\ c \in CallType /\ ~c.spoiled /\ c.op = "off all"
    /\ c.role \in attached \cap Pair /\ c.steps \in Seq(attached \cap Pair)

\* The next dispatch goes to an attached source, unverified only if it need not
\* be identified again.
LEMMA DispatchedFacts ==
    ASSUME bench \in Benches, attached \subseteq Roles, NEW c, Sweeping(c), NEW ok \in BOOLEAN
    PROVE  /\ Sweeping(Dispatched(c, ok))
           /\ Dispatched(c, ok).at \in {"verify", "dispatch", "check", "recover"}
           /\ Dispatched(c, ok).at = "dispatch" => Dispatched(c, ok).role \notin pending
<1> DEFINE sent == IF ok THEN c.sent \cup {c.role} ELSE c.sent
           lead == Head(Sweepers)
           next == Head(c.steps)
           d1 == [c EXCEPT !.sent = sent, !.role = next, !.steps = Tail(c.steps),
                           !.at = FirstStep(next)]
           d2 == [c EXCEPT !.sent = sent, !.role = lead, !.steps = Tail(Sweepers),
                           !.at = IF lead \in sent THEN "check" ELSE "recover"]
<1>1. attached \cap Pair \subseteq AllRoles /\ attached \cap Pair \subseteq Names
  BY BenchFacts DEF Names
<1>2. /\ c \in CallType /\ ~c.spoiled /\ c.op = "off all"
      /\ c.role \in attached \cap Pair /\ c.steps \in Seq(attached \cap Pair)
  BY DEF Sweeping
<1>3. sent \in SUBSET AllRoles
  BY <1>1, <1>2 DEF CallType
<1> HIDE DEF sent
<1>4. FirstStep(next) \in {"verify", "dispatch"} /\ (FirstStep(next) = "dispatch" => next \notin pending)
  BY DEF FirstStep
<1>5. CASE c.steps # <<>>
  <2>1. Dispatched(c, ok) = d1
    BY <1>5 DEF Dispatched, sent
  <2>2. next \in attached \cap Pair /\ Tail(c.steps) \in Seq(attached \cap Pair)
    BY <1>2, <1>5, HeadTailProperties
  <2>3. Tail(c.steps) \in Seq(AllRoles \cup Requested)
    BY <1>1, <2>2, SeqWider DEF Names
  <2> HIDE DEF next
  <2>4. /\ d1 \in CallType /\ d1.spoiled = c.spoiled /\ d1.op = c.op
        /\ d1.role = next /\ d1.steps = Tail(c.steps) /\ d1.at = FirstStep(next)
    BY <1>1, <1>2, <1>3, <1>4, <2>2, <2>3 DEF CallType, Points
  <2> HIDE DEF d1
  <2> QED BY <1>2, <1>4, <2>1, <2>2, <2>4 DEF Sweeping
<1>6. CASE c.steps = <<>>
  <2>1. Dispatched(c, ok) = d2
    BY <1>6 DEF Dispatched, sent
  <2>2. lead \in attached \cap Pair /\ Tail(Sweepers) \in Seq(attached \cap Pair)
    BY <1>2, SweepersFacts
  <2>3. Tail(Sweepers) \in Seq(AllRoles \cup Requested)
    BY <1>1, <2>2, SeqWider DEF Names
  <2> DEFINE a == IF lead \in sent THEN "check" ELSE "recover"
           d3 == [c EXCEPT !.sent = sent, !.role = lead, !.steps = Tail(Sweepers), !.at = a]
  <2>4. a \in {"check", "recover"} /\ d2 = d3
    OBVIOUS
  <2> HIDE DEF lead, a, d2
  <2>5. /\ d3 \in CallType /\ d3.spoiled = c.spoiled /\ d3.op = c.op
        /\ d3.role = lead /\ d3.steps = Tail(Sweepers) /\ d3.at = a
    BY <1>1, <1>2, <1>3, <2>2, <2>3, <2>4 DEF CallType, Points
  <2> HIDE DEF d3
  <2> QED BY <1>2, <2>1, <2>2, <2>4, <2>5 DEF Sweeping
<1> QED BY <1>5, <1>6

\* The second round goes on with an attached source, or ends.
LEMMA FinishedFacts ==
    ASSUME bench \in Benches, attached \subseteq Roles, NEW c \in CallType, ~c.spoiled,
           c.op = "off" \/ Sweeping(c), NEW ok \in BOOLEAN
    PROVE  \/ Finished(c, ok) = Idle
           \/ /\ Sweeping(Finished(c, ok))
              /\ Finished(c, ok).at \in {"finish", "check", "recover"}
<1> DEFINE next == Head(c.steps)
           a == IF next \in c.sent THEN "check" ELSE "recover"
           f == c.failed \/ ~ok
           d1 == [c EXCEPT !.at = "finish", !.failed = f, !.tries = 0]
           d2 == [c EXCEPT !.role = next, !.steps = Tail(c.steps), !.failed = f,
                           !.tries = 0, !.at = a]
<1>1. attached \cap Pair \subseteq AllRoles /\ attached \cap Pair \subseteq Names
  BY BenchFacts DEF Names
<1>2. CASE c.op = "off"
  BY <1>2 DEF Finished
<1>3. CASE Sweeping(c) /\ c.steps = <<>>
  <2>1. Finished(c, ok) = d1
    BY <1>3 DEF Finished, Sweeping
  <2>2. f \in BOOLEAN
    BY DEF CallType
  <2> HIDE DEF f
  <2>3. /\ d1 \in CallType /\ d1.spoiled = c.spoiled /\ d1.op = c.op
        /\ d1.role = c.role /\ d1.steps = c.steps /\ d1.at = "finish"
    BY <2>2 DEF CallType, Points
  <2> HIDE DEF d1
  <2> QED BY <1>3, <2>1, <2>3 DEF Sweeping
<1>4. CASE Sweeping(c) /\ c.steps # <<>>
  <2>1. Finished(c, ok) = d2
    BY <1>4 DEF Finished, Sweeping
  <2>2. f \in BOOLEAN /\ a \in {"check", "recover"}
    BY DEF CallType
  <2>3. next \in attached \cap Pair /\ Tail(c.steps) \in Seq(attached \cap Pair)
    BY <1>4, HeadTailProperties DEF Sweeping
  <2>4. Tail(c.steps) \in Seq(AllRoles \cup Requested)
    BY <1>1, <2>3, SeqWider DEF Names
  <2> HIDE DEF f, a, next
  <2>5. /\ d2 \in CallType /\ d2.spoiled = c.spoiled /\ d2.op = c.op
        /\ d2.role = next /\ d2.steps = Tail(c.steps) /\ d2.at = a
    BY <1>1, <2>2, <2>3, <2>4 DEF CallType, Points
  <2> HIDE DEF d2
  <2> QED BY <1>4, <2>1, <2>2, <2>3, <2>5 DEF Sweeping
<1> QED BY <1>2, <1>3, <1>4

\* A call that forces outputs off goes on with an attached source.
Forced(c) == c \in CallType /\ ~c.spoiled /\ c.op = "off" /\ c.role \in attached

\* The call of a forcing step is one of the two.
LEMMA ForcingFacts ==
    ASSUME CallShape(call), call.at \in {"verify", "dispatch", "check", "zero", "recover", "finish"}
                            \/ Forcing
    PROVE  /\ call.role \in attached
           /\ Forced(call) \/ Sweeping(call)
<1>1. call.op \in {"off", "off all"} /\ call \in CallType /\ ~call.spoiled
  BY DEF CallShape, Forcing
<1> QED BY <1>1 DEF CallShape, Forced, Sweeping

\* And it has the shape of a call after the step.
LEMMA ForcedShape ==
    ASSUME attached \subseteq Roles, bench' = bench, attached' = attached,
           Forced(call') \/ Sweeping(call'),
           call'.at \in {"identify", "verify", "dispatch", "check", "zero", "recover", "finish"}
    PROVE  CallShape(call)'
<1>1. Roles' = Roles
  BY DEF Roles
<1>2. /\ call' \in CallType /\ ~call'.spoiled /\ call'.op \in {"off", "off all"}
      /\ call'.role \in attached
      /\ call'.op = "off all" => call'.role \in Pair /\ call'.steps \in Seq(attached \cap Pair)
  BY DEF Forced, Sweeping
<1> QED BY <1>1, <1>2 DEF CallShape

-----------------------------------------------------------------------------
(* connect_model, disconnect and discover *)

\* What every step of a call starts from.
LEMMA Parts ==
    ASSUME Inv
    PROVE  /\ HelpersInv /\ OffInv /\ KnownInv /\ ReadInv /\ CallShape(call) /\ ~crossed
           /\ bench \in Benches /\ attached \subseteq Roles /\ call \in CallType /\ ~call.spoiled
           /\ \A r \in Roles : r \in AllRoles /\ Port(r) \in Ports /\ helper[Port(r)] \in Session
<1>1. HelpersInv /\ OffInv /\ KnownInv /\ ReadInv /\ CallShape(call) /\ ~crossed
  BY DEF Inv, OwnAnswer
<1>2. bench \in Benches /\ attached \subseteq Roles /\ helper \in [Ports -> Session]
  BY <1>1 DEF HelpersInv
<1> QED BY <1>1, <1>2, BenchFacts DEF CallShape

\* A session that is dropped is left ended.
LEMMA DroppedFacts ==
    ASSUME HelpersInv, NEW p \in Ports, NEW h \in Session
    PROVE  \E g \in Session : /\ g = h \/ (~g.open /\ g.todo = <<>>)
                              /\ Dropped([helper EXCEPT ![p] = h], p) = [helper EXCEPT ![p] = g]
<1> DEFINE hs == [helper EXCEPT ![p] = h]
           g == [Ended(h) EXCEPT !.lease = FALSE]
<1>1. CASE OnPort(p) # {}
  BY <1>1 DEF Dropped
<1>2. CASE OnPort(p) = {}
  <2>1. g \in Session /\ ~g.open /\ g.todo = <<>>
    BY EndedFacts
  <2>2. helper \in [Ports -> Session] /\ hs[p] = h
    BY DEF HelpersInv
  <2>3. Dropped(hs, p) = [hs EXCEPT ![p] = g]
    BY <1>2, <2>2 DEF Dropped
  <2> HIDE DEF g
  <2>4. [hs EXCEPT ![p] = g] = [helper EXCEPT ![p] = g]
    BY <2>2
  <2> QED BY <2>1, <2>3, <2>4
<1> QED BY <1>1, <1>2

\* A connection begins: the session in use is shared, or a fresh helper's.
LEMMA ConnectStep ==
    ASSUME Inv, NEW r \in Roles, Connect(r)
    PROVE  Inv'
<1> DEFINE p == Port(r)
           next == IF Hub(p) THEN "claim" ELSE "identify"
<1>1. UNCHANGED <<bench, attached, usable, pending, discard, on, said, first, crossed>>
  BY DEF Connect
<1>2. ASSUME call' = [Idle EXCEPT !.op = "connect", !.role = r, !.at = next]
      PROVE  CallShape(call)' /\ Entitled(call)' /\ call'.at # "zero"
  <2>1. next \in {"claim", "identify"} /\ r \in AllRoles /\ <<>> \in Seq(Names)
    BY Parts
  <2> HIDE DEF next
  <2>2. call' \in CallType /\ call'.op = "connect" /\ call'.role = r /\ call'.at = next /\ ~call'.spoiled
    <3>1. call' = Opened("connect", r, next)
      BY <1>2 DEF Opened
    <3>2. "connect" \in Ops /\ next \in Points
      BY <2>1 DEF Ops, Points
    <3> QED BY <2>1, <3>1, <3>2, BeginFields
  <2>3. Roles' = Roles
    BY <1>1 DEF Roles
  <2> QED BY <2>1, <2>2, <2>3 DEF CallShape, Entitled
<1>3. CASE /\ Begin("connect", r, next) \/ Return
           /\ UNCHANGED <<helper, known>>
  <2>1. CallShape(call)' /\ Entitled(call)' /\ call'.at # "zero"
    BY <1>2, <1>3, Returned DEF Begin, Return
  <2> QED BY <1>1, <1>3, <2>1, CallOnly
<1>4. CASE /\ Begin("connect", r, next) /\ OnPort(p) = {}
           /\ helper' = [helper EXCEPT ![p] = Fresh]
           /\ known' = {q \in known : Port(q) # p}
  <2>1. CallShape(call)' /\ Entitled(call)' /\ call'.at # "zero"
    BY <1>2, <1>4 DEF Begin
  <2>2. HelpersInv /\ p \in Ports /\ Fresh \in Session /\ Clean(Fresh) /\ Owed(Fresh) = {}
    BY Parts, BenchFacts
  <2>3. Tamed({}, {p})
    BY <1>1, <1>4, <2>2, OnePort
  <2>4. HelpersInv'
    BY <1>1, <2>3, HelpersKept, Parts
  <2>5. OffInv'
    BY <1>1, <2>1, <2>3, OffKept, Parts
  <2>6. ASSUME NEW q \in attached', q \notin known', q \notin pending'
        PROVE  q \in attached /\ q \notin pending /\ q \notin known /\ Port(q) \notin {p}
    BY <1>1, <1>4, <2>6 DEF OnPort
  <2>7. KnownInv'
    BY <1>1, <2>1, <2>3, <2>6, KnownKept, Parts
  <2> QED BY <1>1, <2>1, <2>4, <2>5, <2>7, Parts DEF Inv, ReadInv, OwnAnswer
<1> QED BY <1>3, <1>4 DEF Connect

\* claim_instrument of a hub session.
LEMMA ClaimStep ==
    ASSUME Inv, Claim
    PROVE  Inv'
<1> DEFINE r == call.role
           p == Port(r)
<1>1. /\ UNCHANGED <<bench, attached, usable, pending, discard, said, known, first, crossed>>
      /\ call.at = "claim"
  BY DEF Claim
<1>2. r \in Roles
  BY <1>1, Parts DEF CallShape
<1>3. PICK x \in Request(helper[p], r, "CLAIM") :
         /\ on' = x.on
         /\ IF x.ok THEN At("identify") /\ helper' = [helper EXCEPT ![p] = x.h]
                    ELSE Return /\ helper' = Dropped([helper EXCEPT ![p] = x.h], p)
  BY DEF Claim
<1>4. Sound(helper[p], r, "CLAIM", x) /\ Ordered(r, "CLAIM") = {} /\ x.h \in Session
  BY <1>2, <1>3, Asked, Parts DEF Ordered, Sound
<1>5. CallShape(call)' /\ Entitled(call)' /\ call'.at # "zero"
  <2>1. CASE call' = Idle
    BY <2>1, Returned
  <2>2. CASE call' = [call EXCEPT !.at = "identify"]
    <3>1. /\ call' \in CallType /\ call'.at = "identify" /\ call'.op = call.op /\ call'.role = call.role
          /\ call'.spoiled = call.spoiled /\ call'.steps = call.steps
      BY <2>2, Parts DEF CallType, Points
    <3>2. Roles' = Roles
      BY <1>1 DEF Roles
    <3> QED BY <1>1, <3>1, <3>2, Parts DEF CallShape, Entitled
  <2> QED BY <1>3, <2>1, <2>2 DEF At, Return
<1>6. PICK g \in Session : (g = x.h \/ (~g.open /\ g.todo = <<>>)) /\ helper' = [helper EXCEPT ![p] = g]
  BY <1>2, <1>3, <1>4, DroppedFacts, Parts
<1> QED BY <1>1, <1>2, <1>3, <1>4, <1>5, <1>6, RequestStep, Parts DEF ReadInv

\* A call that goes on at another point.
LEMMA Moved ==
    ASSUME Inv, NEW a \in Points, call' = [call EXCEPT !.at = a]
    PROVE  /\ call' \in CallType /\ call'.at = a /\ call'.op = call.op /\ call'.role = call.role
           /\ call'.steps = call.steps /\ ~call'.spoiled
BY Parts DEF CallType

\* A transfer's answer is its own.
LEMMA TookFacts ==
    ASSUME Inv, NEW r \in Roles, NEW op, NEW x, Sound(helper[Port(r)], r, op, x), Took(r, op, x)
    PROVE  /\ helper' = [helper EXCEPT ![Port(r)] = x.h] /\ on' = x.on /\ ~crossed'
           /\ x.h \in Session
BY Parts DEF Took, Sound

\* identify_endpoint and verify_model.
LEMMA IdentifyStep ==
    ASSUME Inv, Identify
    PROVE  Inv'
<1> DEFINE r == call.role
<1>1. /\ UNCHANGED <<bench, pending, said, first>> /\ call.at = "identify" /\ call.op = "connect"
  BY DEF Identify
<1>2. r \in Roles /\ Roles' = Roles
  BY <1>1, Parts DEF CallShape, Roles
<1>3. PICK x \in Request(helper[Port(r)], r, "QUERY") :
         /\ Took(r, "QUERY", x)
         /\ \/ /\ x.ok /\ Return
               /\ attached' = attached \cup {r} /\ known' = known \cup {r} /\ usable' = TRUE
               /\ discard' = IF r \in bench.adc THEN discard \cup {r} ELSE discard \ {r}
            \/ At("reject") /\ UNCHANGED <<attached, known, usable, discard>>
  BY DEF Identify
<1>4. Sound(helper[Port(r)], r, "QUERY", x) /\ Ordered(r, "QUERY") = {}
  BY <1>2, <1>3, Asked, Parts DEF Ordered
<1>5. /\ helper' = [helper EXCEPT ![Port(r)] = x.h] /\ on' = x.on /\ ~crossed' /\ x.h \in Session
  BY <1>2, <1>3, <1>4, TookFacts
<1>6. CallShape(call)' /\ Entitled(call)' /\ call'.at # "zero"
  <2>1. CASE call' = Idle
    BY <2>1, Returned
  <2>2. CASE call' = [call EXCEPT !.at = "reject"]
    <3>1. "reject" \in Points
      BY DEF Points
    <3>2. /\ call' \in CallType /\ call'.at = "reject" /\ call'.op = "connect" /\ call'.role = r
          /\ ~call'.spoiled
      BY <1>1, <2>2, <3>1, Moved
    <3> QED BY <1>2, <3>2 DEF CallShape, Entitled
  <2> QED BY <1>3, <2>1, <2>2 DEF At, Return
<1>7. /\ attached' \subseteq Roles
      /\ \A q \in attached' : q \notin known' =>
               q \in pending' \/ (q \in attached /\ q \notin pending /\ q \notin known)
      /\ ReadInv'
  BY <1>1, <1>2, <1>3, Parts DEF ReadInv
<1> QED BY <1>1, <1>2, <1>4, <1>5, <1>6, <1>7, RequestStep

\* The instrument that was not the expected one is let go.
LEMMA RejectStep ==
    ASSUME Inv, Reject
    PROVE  Inv'
<1> DEFINE r == call.role
           p == Port(r)
           op == IF Hub(p) THEN "RELEASE" ELSE IF OnPort(p) # {} THEN "LOCAL" ELSE "EXIT"
<1>1. /\ UNCHANGED <<bench, attached, usable, pending, discard, said, known, first, crossed>>
      /\ call.at = "reject" /\ call' = Idle
  BY DEF Reject, Return
<1>2. r \in Roles
  BY <1>1, Parts DEF CallShape
<1>3. PICK x \in Request(helper[p], r, op) :
         on' = x.on /\ helper' = Dropped([helper EXCEPT ![p] = x.h], p)
  BY DEF Reject
<1>4. Sound(helper[p], r, op, x) /\ Ordered(r, op) = {} /\ x.h \in Session
  BY <1>2, <1>3, Asked, Parts DEF Ordered, Sound
<1> HIDE DEF op
<1>5. CallShape(call)' /\ Entitled(call)' /\ call'.at # "zero"
  BY <1>1, Returned
<1>6. PICK g \in Session : (g = x.h \/ (~g.open /\ g.todo = <<>>)) /\ helper' = [helper EXCEPT ![p] = g]
  BY <1>2, <1>3, <1>4, DroppedFacts, Parts
<1> QED BY <1>1, <1>2, <1>3, <1>4, <1>5, <1>6, RequestStep, Parts DEF ReadInv

\* The requests of a disconnection.
LEMMA DetachingFacts ==
    ASSUME NEW r
    PROVE  Detaching(r) \in Seq(Requested) /\ Detaching(r) # <<>> /\ Detaching(r) \in Seq(Names)
<1> DEFINE a == IF r \in bench.adc THEN <<"CLEAR", "ABORT", "CLS">> ELSE <<>>
           b == IF Hub(Port(r)) THEN <<"RELEASE">> ELSE <<>>
           c == IF OnPort(Port(r)) = {r} THEN <<"REN", "EXIT">> ELSE <<>>
           l == <<"LOCAL">>
<1>1. a \in Seq(Requested) /\ b \in Seq(Requested) /\ c \in Seq(Requested) /\ l \in Seq(Requested)
  <2>1. /\ <<>> \in Seq(Requested) /\ <<"LOCAL">> \in Seq(Requested) /\ <<"RELEASE">> \in Seq(Requested)
        /\ <<"REN", "EXIT">> \in Seq(Requested) /\ <<"CLEAR", "ABORT", "CLS">> \in Seq(Requested)
    BY DEF Requested
  <2> QED BY <2>1, Zenon
<1>2. Len(l) = 1 /\ Detaching(r) = ((a \o l) \o b) \o c
  <2>1. Len(l) = 1
    OBVIOUS
  <2>2. Detaching(r) = ((a \o l) \o b) \o c
    BY Zenon DEF Detaching
  <2> QED BY <2>1, <2>2
<1> HIDE DEF a, b, c, l
<1>3. /\ a \o l \in Seq(Requested) /\ Len(a \o l) = Len(a) + Len(l) /\ Len(a) \in Nat
  BY <1>1
<1> DEFINE d == a \o l
<1> HIDE DEF d
<1>4. d \o b \in Seq(Requested) /\ Len(d \o b) = Len(d) + Len(b) /\ Len(b) \in Nat
  BY <1>1, <1>3 DEF d
<1> DEFINE e == d \o b
<1> HIDE DEF e
<1>5. e \o c \in Seq(Requested) /\ Len(e \o c) = Len(e) + Len(c) /\ Len(c) \in Nat
  BY <1>1, <1>4 DEF e
<1>6. Detaching(r) = e \o c /\ Len(Detaching(r)) > 0
  BY <1>2, <1>3, <1>4, <1>5 DEF d, e
<1>7. Detaching(r) # <<>>
  BY <1>6
<1> QED BY <1>5, <1>6, <1>7, SeqWider DEF Names

\* disconnect of one role.
LEMMA DisconnectStep ==
    ASSUME Inv, NEW r \in Roles, Disconnect(r)
    PROVE  Inv'
<1>1. /\ UNCHANGED <<bench, attached, helper, usable, pending, discard, on, said, known, first, crossed>>
      /\ r \in attached
      /\ call' = OpenedWith("disconnect", r, "detach", Detaching(r))
  BY DEF Disconnect, OpenedWith
<1>2. "disconnect" \in Ops /\ "detach" \in Points /\ r \in AllRoles /\ Roles' = Roles
  BY <1>1, Parts DEF Ops, Points, Roles
<1>3. /\ call' \in CallType /\ call'.op = "disconnect" /\ call'.role = r /\ call'.at = "detach"
      /\ call'.steps = Detaching(r) /\ ~call'.spoiled
  BY <1>1, <1>2, BeginSteps, DetachingFacts
<1>4. CallShape(call)' /\ Entitled(call)' /\ call'.at # "zero"
  BY <1>1, <1>2, <1>3, DetachingFacts DEF CallShape, Entitled
<1> QED BY <1>1, <1>4, CallOnly

\* One request of a disconnection; the role is forgotten only at its end.
LEMMA DetachStep ==
    ASSUME Inv, Detach
    PROVE  Inv'
<1> DEFINE r == call.role
           p == Port(r)
           step == Head(call.steps)
           op == IF step \in {"ABORT", "CLS"} THEN "WRITE" ELSE step
           cleared == /\ attached' = attached \ {r}
                      /\ discard' = IF r = "reference" THEN discard \ {r} ELSE discard
           kept == UNCHANGED <<attached, discard, known>>
<1>1. UNCHANGED <<bench, usable, pending, said, first>> /\ call.at = "detach"
  BY DEF Detach
<1>2. /\ call.op = "disconnect" /\ r \in attached /\ r \in Roles /\ Roles' = Roles
      /\ call.steps \in Seq(Requested) /\ call.steps # <<>>
  BY <1>1, Parts DEF CallShape, Roles
<1>3. step \in Requested /\ op # "ON" /\ (step \in {"ABORT", "CLS"} => op \in Scpi)
  BY <1>2, HeadTailProperties DEF Requested, Scpi
<1>4. PICK x \in Request(helper[p], r, op) :
        /\ on' = x.on
        /\ crossed' = (crossed \/ (x.ok /\ step \in {"ABORT", "CLS"} /\ ~x.own))
        /\ \/ /\ helper' = [helper EXCEPT ![p] = [Ended(x.h) EXCEPT !.lease = FALSE]]
              /\ cleared /\ known' = known \ {r} /\ Return
           \/ /\ helper' = [helper EXCEPT ![p] = x.h]
              /\ \/ Return /\ kept
                 \/ /\ Len(call.steps) > 1 /\ call' = [call EXCEPT !.steps = Tail(@)] /\ kept
                 \/ cleared /\ known' = known \ {r} /\ Return
  BY DEF Detach
<1> HIDE DEF op, step
<1>5. Sound(helper[p], r, op, x) /\ Ordered(r, op) = {} /\ x.h \in Session
  BY <1>2, <1>3, <1>4, Asked, Parts DEF Ordered, Sound
<1>6. ~crossed'
  BY <1>3, <1>4, <1>5, Parts DEF Sound
<1>7. PICK g \in Session : (g = x.h \/ (~g.open /\ g.todo = <<>>)) /\ helper' = [helper EXCEPT ![p] = g]
  BY <1>4, <1>5, EndedFacts
<1>8. \/ cleared /\ known' = known \ {r} /\ call' = Idle
      \/ kept /\ call' = Idle
      \/ Len(call.steps) > 1 /\ call' = [call EXCEPT !.steps = Tail(@)] /\ kept
  BY <1>4 DEF Return
<1>9. /\ attached' \subseteq Roles
      /\ \A q \in attached' : q \notin known' =>
               q \in pending' \/ (q \in attached /\ q \notin pending /\ q \notin known)
      /\ ReadInv'
  BY <1>1, <1>2, <1>8, Parts DEF ReadInv
<1>10. CallShape(call)' /\ Entitled(call)' /\ call'.at # "zero"
  <2>1. CASE call' = Idle
    BY <2>1, Returned
  <2>2. CASE Len(call.steps) > 1 /\ call' = [call EXCEPT !.steps = Tail(@)] /\ kept
    <3>1. Tail(call.steps) \in Seq(Requested) /\ Tail(call.steps) # <<>>
      <4>1. Len(call.steps) > 1
        BY <2>2, Zenon
      <4> QED BY <1>2, <4>1, TailOfMore
    <3>2. Tail(call.steps) \in Seq(AllRoles \cup Requested)
      BY <3>1, SeqWider
    <3>3. /\ call' \in CallType /\ call'.at = "detach" /\ call'.op = "disconnect" /\ call'.role = r
          /\ ~call'.spoiled /\ call'.steps = Tail(call.steps)
      BY <1>1, <1>2, <2>2, <3>2, Parts DEF CallType
    <3>4. attached' = attached /\ Roles' = Roles /\ r \in attached /\ r \in Roles
      BY <1>2, <2>2
    <3>5. call'.steps \in Seq(Requested) /\ call'.steps # <<>>
      BY <3>1, <3>3
    <3> HIDE DEF r, kept
    <3>6. CallShape(call)'
      BY <3>3, <3>4, <3>5 DEF CallShape
    <3> QED BY <3>3, <3>6 DEF Entitled
  <2> QED BY <1>8, <2>1, <2>2
<1> QED BY <1>1, <1>2, <1>4, <1>5, <1>6, <1>7, <1>9, <1>10, RequestStep

\* LIST through the bridge in use.
LEMMA DiscoverStep ==
    ASSUME Inv, NEW r \in Roles, Discover(r)
    PROVE  Inv'
<1>1. /\ UNCHANGED <<bench, attached, usable, pending, discard, said, known, first, crossed>>
      /\ Port(r) = Bus /\ call' = Idle
  BY DEF Discover, Return
<1>2. PICK x \in Request(helper[Port(r)], r, "LIST") :
         on' = x.on /\ helper' = [helper EXCEPT ![Port(r)] = x.h]
  BY <1>1 DEF Discover
<1>3. Sound(helper[Port(r)], r, "LIST", x) /\ Ordered(r, "LIST") = {} /\ x.h \in Session
  BY <1>2, Asked, Parts DEF Ordered, Sound
<1>4. CallShape(call)' /\ Entitled(call)' /\ call'.at # "zero"
  BY <1>1, Returned
<1> QED BY <1>1, <1>2, <1>3, <1>4, RequestStep, Parts DEF ReadInv

-----------------------------------------------------------------------------
(* Ordinary writes and readings *)

\* ensure_usable and validate_recovery: the transfer goes to a role that was
\* identified, or it is validated first.
LEMMA OrdinaryStep ==
    ASSUME Inv, NEW r \in Roles, NEW op \in {"ON", "LEVEL", "READ"}, Ordinary(op, r)
    PROVE  Inv'
<1> DEFINE a == IF r \in pending THEN "validate" ELSE op
<1>1. /\ UNCHANGED <<bench, attached, helper, usable, pending, discard, on, said, known, first, crossed>>
      /\ r \in attached
  BY DEF Ordinary
<1>2. call' = Idle \/ call' = Opened(op, r, a)
  BY DEF Ordinary, Begin, Return, Opened
<1>3. CASE call' = Idle
  BY <1>1, <1>3, CallOnly, Returned
<1>4. CASE call' = Opened(op, r, a)
  <2>1. op \in Ops /\ a \in Points /\ r \in AllRoles /\ Roles' = Roles
    BY <1>1, Parts DEF Ops, Points, Roles
  <2>2. a = "validate" \/ (a = op /\ r \notin pending)
    OBVIOUS
  <2> HIDE DEF a
  <2>3. /\ call' \in CallType /\ call'.op = op /\ call'.role = r /\ call'.at = a /\ ~call'.spoiled
    BY <1>4, <2>1, BeginFields
  <2>4. CallShape(call)' /\ call'.at # "zero"
    BY <1>1, <2>1, <2>2, <2>3 DEF CallShape
  <2>5. Entitled(call)'
    <3>1. a = op => (Good(helper[Port(r)]) => r \in known)
      BY <1>1, <2>2, Parts DEF KnownInv
    <3>2. helper'[Port(r)'] = helper[Port(r)]
      BY <1>1 DEF Port
    <3>3. a = op => (Good(helper'[Port(r)']) => r \in known')
      BY <1>1, <3>1, <3>2
    <3> QED BY <2>2, <2>3, <3>3 DEF Entitled, Good, Port
  <2> QED BY <1>1, <2>4, <2>5, CallOnly
<1> QED BY <1>2, <1>3, <1>4

\* The session a call would send to after the step.
LEMMA EntitledAfter ==
    ASSUME bench' = bench,
           call'.at \in {"ON", "LEVEL", "READ", "dispatch"} =>
               (Good(helper'[Port(call'.role)]) => call'.role \in known')
    PROVE  Entitled(call)'
<1>1. Port(call.role)' = Port(call'.role)
  BY DEF Port
<1>2. Good(helper[Port(call.role)])' = Good(helper'[Port(call'.role)])
  BY <1>1 DEF Good
<1> QED BY <1>2 DEF Entitled

\* validate_recovery before an ordinary transfer.
LEMMA ValidateStep ==
    ASSUME Inv, Validate
    PROVE  Inv'
<1> DEFINE r == call.role
<1>1. /\ UNCHANGED <<bench, attached, discard, said, first>> /\ call.at = "validate"
  BY DEF Validate
<1>2. r \in Roles /\ r \in attached /\ Roles' = Roles /\ call.op \in {"ON", "LEVEL", "READ"}
  BY <1>1, Parts DEF CallShape, Roles
<1>3. PICK x \in Request(helper[Port(r)], r, "QUERY") :
         /\ Took(r, "QUERY", x)
         /\ \/ call' = [call EXCEPT !.at = call.op] /\ pending' = pending \ {r} /\ known' = known \cup {r}
            \/ call' = Idle /\ UNCHANGED <<pending, known>>
  BY DEF Validate, At, Return
<1>4. Sound(helper[Port(r)], r, "QUERY", x) /\ Ordered(r, "QUERY") = {}
  BY <1>2, <1>3, Asked, Parts DEF Ordered
<1>5. /\ helper' = [helper EXCEPT ![Port(r)] = x.h] /\ on' = x.on /\ ~crossed' /\ x.h \in Session
  BY <1>2, <1>3, <1>4, TookFacts
<1>6. CallShape(call)' /\ Entitled(call)' /\ call'.at # "zero"
  <2>1. CASE call' = Idle
    BY <2>1, Returned
  <2>2. CASE call' = [call EXCEPT !.at = call.op] /\ known' = known \cup {r}
    <3>1. call.op \in Points
      BY <1>2 DEF Points
    <3>2. /\ call' \in CallType /\ call'.at = call.op /\ call'.op = call.op /\ call'.role = r
          /\ ~call'.spoiled
      BY <2>2, <3>1, Moved
    <3>3. CallShape(call)' /\ call'.at # "zero"
      BY <1>1, <1>2, <3>2 DEF CallShape
    <3> QED BY <1>1, <2>2, <3>2, <3>3, EntitledAfter
  <2> QED BY <1>3, <2>1, <2>2
<1>7. \A q \in attached' : q \notin known' =>
               q \in pending' \/ (q \in attached /\ q \notin pending /\ q \notin known)
  BY <1>1, <1>3
<1>8. attached' \subseteq Roles /\ ReadInv'
  BY <1>1, Parts DEF ReadInv
<1> QED BY <1>1, <1>2, <1>4, <1>5, <1>6, <1>7, <1>8, RequestStep

\* A write that switches the output on or sets a level.
LEMMA WriteStep ==
    ASSUME Inv, Write
    PROVE  Inv'
<1> DEFINE r == call.role
<1>1. /\ UNCHANGED <<bench, attached, usable, pending, known>> /\ call.at \in {"ON", "LEVEL"}
      /\ said' = IF call.at = "ON" THEN said \ {r} ELSE said
  BY DEF Write
<1>2. r \in Roles
  BY <1>1, Parts DEF CallShape
<1>3. PICK x \in Request(helper[Port(r)], r, call.at) :
         /\ Took(r, call.at, x) /\ call' = Idle
         /\ \/ discard' = discard \cup bench.adc /\ first' = bench.adc
            \/ UNCHANGED <<discard, first>>
  BY DEF Write, Return
<1>4. Sound(helper[Port(r)], r, call.at, x)
  BY <1>2, <1>3, Asked, Parts
<1>5. /\ helper' = [helper EXCEPT ![Port(r)] = x.h] /\ on' = x.on /\ ~crossed' /\ x.h \in Session
  BY <1>2, <1>3, <1>4, TookFacts
<1>6. CallShape(call)' /\ Entitled(call)' /\ call'.at # "zero"
  BY <1>3, Returned
<1>7. /\ \A q \in said' : q \notin Ordered(r, call.at) /\ q \in said
      /\ attached' \subseteq Roles /\ ReadInv'
  BY <1>1, <1>3, Parts DEF ReadInv, Ordered
<1> QED BY <1>1, <1>2, <1>4, <1>5, <1>6, <1>7, RequestStep

\* adc_query: the conversion that is returned is not the first one.
LEMMA ConvertStep ==
    ASSUME Inv, Convert
    PROVE  Inv'
<1> DEFINE m == call.role
<1>1. /\ UNCHANGED <<bench, attached, usable, pending, said, known>> /\ call.at = "READ"
  BY DEF Convert
<1>2. m \in Roles /\ m \in attached
  BY <1>1, Parts DEF CallShape
<1>3. PICK x \in Request(helper[Port(m)], m, "READ") :
         /\ Took(m, "READ", x)
         /\ first' = IF x.ok THEN first \ {m} ELSE first
         /\ IF x.ok /\ m \in discard
              THEN discard' = discard \ {m} /\ UNCHANGED call
              ELSE /\ call' = [Idle EXCEPT !.spoiled = x.ok /\ m \in first]
                   /\ UNCHANGED discard
  BY DEF Convert
<1>4. Sound(helper[Port(m)], m, "READ", x) /\ Ordered(m, "READ") = {}
  BY <1>2, <1>3, Asked, Parts DEF Ordered
<1>5. /\ helper' = [helper EXCEPT ![Port(m)] = x.h] /\ on' = x.on /\ ~crossed' /\ x.h \in Session
  BY <1>2, <1>3, <1>4, TookFacts
<1>6. CASE x.ok /\ m \in discard
  <2>1. /\ discard' = discard \ {m} /\ first' = first \ {m} /\ call' = call
    BY <1>3, <1>6
  <2>2. attached' \subseteq Roles /\ ReadInv'
    BY <1>1, <2>1, Parts DEF ReadInv
  <2>3. CallShape(call)' /\ call'.at # "zero"
    <3>1. Roles' = Roles /\ attached' = attached /\ CallShape(call)
      BY <1>1, Parts DEF Roles
    <3> QED BY <1>1, <2>1, <3>1 DEF CallShape
  <2>4. Good(helper'[Port(m)]) => m \in known'
    <3>1. helper'[Port(m)] = x.h
      BY <1>2, <1>5, Parts DEF HelpersInv
    <3>2. Good(helper[Port(m)]) => m \in known
      BY <1>1, Parts DEF KnownInv, IdentifiedFirst, Good
    <3> QED BY <1>1, <1>4, <3>1, <3>2 DEF Sound
  <2>5. Entitled(call)'
    BY <1>1, <2>1, <2>4, EntitledAfter
  <2> QED BY <1>1, <1>2, <1>4, <1>5, <2>2, <2>3, <2>5, RequestStep
<1>7. CASE ~(x.ok /\ m \in discard)
  <2>1. ~(x.ok /\ m \in first)
    BY <1>2, <1>7, Parts DEF ReadInv
  <2>2. UNCHANGED discard /\ call' = [Idle EXCEPT !.spoiled = FALSE]
    BY <1>3, <1>7, <2>1
  <2>3. call' = Idle
    BY <2>2 DEF Idle
  <2>4. attached' \subseteq Roles /\ ReadInv'
    BY <1>1, <1>3, <2>2, Parts DEF ReadInv
  <2> QED BY <1>1, <1>2, <1>4, <1>5, <2>3, <2>4, RequestStep, Returned
<1> QED BY <1>6, <1>7

-----------------------------------------------------------------------------
(* Forcing outputs off *)

\* force_output_off_role and force_sources_output_off begin with a role that
\* was identified, or verify it.
LEMMA OffBegins ==
    ASSUME Inv, UNCHANGED <<bench, attached, helper, usable, pending, discard, on, said, known, first, crossed>>,
           Forced(call') \/ Sweeping(call'), call'.at = FirstStep(call'.role)
    PROVE  Inv'
<1>1. call'.role \in attached
  BY DEF Forced, Sweeping
<1>2. call'.at \in {"verify", "dispatch"} /\ (call'.at = "dispatch" => call'.role \notin pending)
  BY DEF FirstStep
<1>3. call'.at = "dispatch" => (Good(helper'[Port(call'.role)]) => call'.role \in known')
  BY <1>1, <1>2, Parts DEF KnownInv
<1>4. Entitled(call)'
  BY <1>2, <1>3, EntitledAfter
<1>5. CallShape(call)'
  BY <1>2, ForcedShape, Parts
<1> QED BY <1>2, <1>4, <1>5, CallOnly

\* force_output_off_role.
LEMMA OffStep ==
    ASSUME Inv, NEW r \in Roles, Off(r)
    PROVE  Inv'
<1>1. /\ UNCHANGED <<bench, attached, helper, usable, pending, discard, on, said, known, first, crossed>>
      /\ r \in attached /\ call' = Opened("off", r, FirstStep(r))
  BY DEF Off, Begin, Opened
<1>2. "off" \in Ops /\ FirstStep(r) \in Points /\ r \in AllRoles
  BY Parts DEF Ops, Points, FirstStep
<1>3. call' \in CallType /\ call'.op = "off" /\ call'.role = r /\ call'.at = FirstStep(r) /\ ~call'.spoiled
  BY <1>1, <1>2, BeginFields
<1> QED BY <1>1, <1>3, OffBegins DEF Forced

\* force_sources_output_off.
LEMMA OffAllStep ==
    ASSUME Inv, OffAll
    PROVE  Inv'
<1> DEFINE lead == Head(Sweepers)
<1>1. /\ UNCHANGED <<bench, attached, helper, usable, pending, discard, on, said, known, first, crossed>>
      /\ Sweepers # <<>> /\ call' = OpenedWith("off all", lead, FirstStep(lead), Tail(Sweepers))
  BY DEF OffAll, OpenedWith
<1>2. lead \in attached \cap Pair /\ Tail(Sweepers) \in Seq(attached \cap Pair)
  BY <1>1, SweepersFacts
<1> HIDE DEF lead
<1>3. attached \cap Pair \subseteq Names
  BY Parts, BenchFacts DEF Names
<1>4. /\ "off all" \in Ops /\ FirstStep(lead) \in Points /\ lead \in AllRoles /\ Tail(Sweepers) \in Seq(Names)
  <2>1. "off all" \in Ops /\ FirstStep(lead) \in Points
    BY DEF Ops, Points, FirstStep
  <2>2. lead \in AllRoles
    BY <1>2, Parts
  <2>3. Tail(Sweepers) \in Seq(Names)
    BY <1>2, <1>3, SeqWider
  <2> QED BY <2>1, <2>2, <2>3
<1>5. /\ call' \in CallType /\ call'.op = "off all" /\ call'.role = lead /\ call'.at = FirstStep(lead)
      /\ call'.steps = Tail(Sweepers) /\ ~call'.spoiled
  <2> DEFINE rest == Tail(Sweepers)
             start == FirstStep(lead)
             name == "off all"
  <2>1. /\ rest \in Seq(Names) /\ start \in Points /\ call' = OpenedWith(name, lead, start, rest)
        /\ name \in Ops /\ lead \in AllRoles
    BY <1>1, <1>4
  <2> HIDE DEF rest, start, name
  <2>2. /\ call' \in CallType /\ call'.op = name /\ call'.role = lead /\ call'.at = start
        /\ call'.steps = rest /\ ~call'.spoiled
    BY <2>1, BeginSteps
  <2> QED BY <2>2 DEF rest, start, name
<1>6. Sweeping(call')
  BY <1>2, <1>5 DEF Sweeping
<1> QED BY <1>1, <1>5, <1>6, OffBegins

\* Changes of a forcing call that keep its role.
LEMMA SameRole ==
    ASSUME NEW c \in CallType, c.op = call.op, c.role = call.role, c.steps = call.steps, ~c.spoiled
    PROVE  /\ Forced(call) => Forced(c)
           /\ Sweeping(call) => Sweeping(c)
BY DEF Forced, Sweeping

\* The 28 seconds pass.
LEMMA DeadlineStep ==
    ASSUME Inv, Deadline
    PROVE  Inv'
<1>1. /\ UNCHANGED <<bench, attached, helper, usable, pending, discard, on, said, known, first, crossed>>
      /\ call' = [call EXCEPT !.expired = TRUE]
  BY DEF Deadline
<1>2. /\ call' \in CallType /\ call'.at = call.at /\ call'.op = call.op /\ call'.role = call.role
      /\ call'.steps = call.steps /\ ~call'.spoiled
  BY <1>1, Parts DEF CallType
<1>3. CallShape(call)'
  <2>1. Roles' = Roles /\ attached' = attached
    BY <1>1 DEF Roles
  <2>2. CallShape(call)
    BY Parts
  <2> QED BY <1>2, <2>1, <2>2 DEF CallShape
<1>4. Entitled(call)'
  BY <1>1, <1>2, EntitledAfter, Parts DEF KnownInv, IdentifiedFirst, Good
<1> QED BY <1>1, <1>2, <1>3, <1>4, CallOnly

\* A request of a forcing call that goes on with a dispatch of another source.
LEMMA DispatchedStep ==
    ASSUME Inv, NEW new, Tamed(new, {}), UNCHANGED <<bench, attached, pending>>, known \subseteq known',
           NEW c, Sweeping(c), NEW ok \in BOOLEAN, call' = Dispatched(c, ok)
    PROVE  CallShape(call)' /\ Entitled(call)' /\ call'.at # "zero"
<1>1. /\ Sweeping(call') /\ call'.at \in {"verify", "dispatch", "check", "recover"}
      /\ call'.at = "dispatch" => call'.role \notin pending
  BY DispatchedFacts, Parts
<1>2. call'.role \in attached /\ call'.role \in Roles /\ Port(call'.role) \in Ports
  BY <1>1, Parts DEF Sweeping
<1>3. call'.at = "dispatch" => (Good(helper'[Port(call'.role)]) => call'.role \in known')
  BY <1>1, <1>2, Parts DEF Tamed, KnownInv
<1>4. Entitled(call)'
  BY <1>1, <1>3, EntitledAfter
<1>5. CallShape(call)'
  BY <1>1, ForcedShape, Parts
<1> QED BY <1>1, <1>4, <1>5

\* verify_recovered_role before the first OFF.
LEMMA VerifyStep ==
    ASSUME Inv, Verify
    PROVE  Inv'
<1> DEFINE r == call.role
<1>1. /\ UNCHANGED <<bench, attached, usable, pending, discard, said, first>> /\ call.at = "verify"
  BY DEF Verify
<1>2. r \in Roles /\ r \in attached /\ (Forced(call) \/ Sweeping(call))
  BY <1>1, ForcingFacts, Parts
<1>3. PICK x \in Answers(r, "QUERY"), match \in BOOLEAN :
         LET good == x.ok /\ match
             c == [call EXCEPT !.expired = IF call.op = "off" THEN @ ELSE Elapsed(x)]
         IN  /\ Took(r, "QUERY", x)
             /\ known' = IF good THEN known \cup {r} ELSE known
             /\ call' = CASE good -> [c EXCEPT !.at = "dispatch"]
                          [] ~good /\ FirstRound -> Dispatched(c, FALSE)
                          [] ~good /\ ~FirstRound -> [c EXCEPT !.at = "recover"]
  BY DEF Verify
<1> DEFINE good == x.ok /\ match
           e == IF call.op = "off" THEN call.expired ELSE Elapsed(x)
           c == [call EXCEPT !.expired = e]
<1>4. Sound(helper[Port(r)], r, "QUERY", x) /\ Ordered(r, "QUERY") = {}
  BY <1>2, <1>3, Answered, Parts DEF Ordered
<1>5. /\ helper' = [helper EXCEPT ![Port(r)] = x.h] /\ on' = x.on /\ ~crossed' /\ x.h \in Session
  BY <1>2, <1>3, <1>4, TookFacts
<1>6. Tamed(Ordered(r, "QUERY"), {})
  BY <1>1, <1>2, <1>4, <1>5, RequestTamed, Parts
<1>7. e \in BOOLEAN
  BY <1>4, Parts DEF Sound, CallType, Elapsed
<1>8. /\ known' = IF good THEN known \cup {r} ELSE known
      /\ \/ good /\ call' = [c EXCEPT !.at = "dispatch"]
         \/ ~good /\ FirstRound /\ call' = Dispatched(c, FALSE)
         \/ ~good /\ call' = [c EXCEPT !.at = "recover"]
  BY <1>3
<1> HIDE DEF e, good
<1>9. c \in CallType /\ c.op = call.op /\ c.role = r /\ c.steps = call.steps /\ c.spoiled = call.spoiled
  BY <1>7, Parts DEF CallType
<1> HIDE DEF c
<1>10. CallShape(call)' /\ Entitled(call)' /\ call'.at # "zero"
  <2>1. ASSUME NEW a \in {"dispatch", "recover"}, call' = [c EXCEPT !.at = a]
        PROVE  CallShape(call)' /\ call'.role = r /\ call'.at = a
    <3>1. /\ call' \in CallType /\ call'.op = call.op /\ call'.role = r /\ call'.steps = call.steps
          /\ call'.spoiled = call.spoiled /\ call'.at = a
      BY <1>9, <2>1 DEF CallType, Points
    <3>2. Forced(call') \/ Sweeping(call')
      BY <1>2, <3>1, SameRole, Parts
    <3> QED BY <1>1, <3>1, <3>2, ForcedShape, Parts
  <2>2. CASE good /\ call' = [c EXCEPT !.at = "dispatch"]
    BY <1>1, <1>8, <2>1, <2>2, EntitledAfter
  <2>3. CASE ~good /\ FirstRound /\ call' = Dispatched(c, FALSE)
    <3>1. call.op = "off all"
      BY <2>3 DEF FirstRound
    <3>2. Sweeping(call)
      BY <1>2, <3>1 DEF Forced
    <3>3. Sweeping(c)
      BY <1>9, <3>2, SameRole, Parts
    <3> QED BY <1>1, <1>6, <1>8, <2>3, <3>3, DispatchedStep
  <2>4. CASE ~good /\ call' = [c EXCEPT !.at = "recover"]
    BY <1>1, <2>1, <2>4, EntitledAfter
  <2> QED BY <1>8, <2>2, <2>3, <2>4
<1>11. /\ attached' \subseteq Roles /\ ReadInv'
       /\ \A q \in attached' : q \notin known' =>
               q \in pending' \/ (q \in attached /\ q \notin pending /\ q \notin known)
  BY <1>1, <1>8, Parts DEF ReadInv
<1> QED BY <1>1, <1>2, <1>4, <1>5, <1>10, <1>11, RequestStep

\* What one request of a forcing call leaves to show.
LEMMA ForcingStep ==
    ASSUME Inv, NEW r \in Roles, NEW op \in Scpi \ {"ON"}, NEW x \in Answers(r, op), Took(r, op, x)
    PROVE  /\ Sound(helper[Port(r)], r, op, x) /\ Ordered(r, op) = {} /\ x.h \in Session
           /\ helper' = [helper EXCEPT ![Port(r)] = x.h] /\ on' = x.on /\ ~crossed'
           /\ bench' = bench => Tamed(Ordered(r, op), {})
           /\ Elapsed(x) \in BOOLEAN /\ x.ok \in BOOLEAN
<1>1. Sound(helper[Port(r)], r, op, x) /\ Ordered(r, op) = {}
  BY Answered, Parts DEF Ordered
<1>2. /\ helper' = [helper EXCEPT ![Port(r)] = x.h] /\ on' = x.on /\ ~crossed' /\ x.h \in Session
  BY <1>1, TookFacts
<1>3. bench' = bench => Tamed(Ordered(r, op), {})
  BY <1>1, <1>2, RequestTamed, Parts
<1>4. Elapsed(x) \in BOOLEAN /\ x.ok \in BOOLEAN
  BY <1>1, Parts DEF Sound, CallType, Elapsed
<1> QED BY <1>1, <1>2, <1>3, <1>4

\* A forcing call that goes on with the same source.
LEMMA StaysWith ==
    ASSUME Inv, UNCHANGED <<bench, attached>>, Forced(call) \/ Sweeping(call), NEW c \in CallType,
           c.op = call.op, c.role = call.role, c.steps = call.steps, c.spoiled = call.spoiled,
           NEW a \in {"identify", "dispatch", "check", "zero", "recover"},
           call' = [c EXCEPT !.at = a]
    PROVE  CallShape(call)' /\ call'.role = call.role /\ call'.at = a
<1>1. /\ call' \in CallType /\ call'.op = call.op /\ call'.role = call.role
      /\ call'.steps = call.steps /\ call'.spoiled = call.spoiled /\ call'.at = a
  BY DEF CallType, Points
<1>2. Forced(call') \/ Sweeping(call')
  BY <1>1, SameRole, Parts
<1> QED BY <1>1, <1>2, ForcedShape, Parts

\* output_off_dispatch.
LEMMA DispatchStep ==
    ASSUME Inv, Dispatch
    PROVE  Inv'
<1> DEFINE r == call.role
           taken == ~call.expired /\ helper[Port(r)].open /\ ~helper[Port(r)].poisoned
<1>1. /\ UNCHANGED <<bench, attached, usable, pending, discard, said, known, first>>
      /\ call.at = "dispatch"
  BY DEF Dispatch
<1>2. r \in Roles /\ r \in attached /\ (Forced(call) \/ Sweeping(call))
  BY <1>1, ForcingFacts, Parts
<1>3. PICK x \in Answers(r, "OFF") :
         LET c == [call EXCEPT !.expired = Elapsed(x), !.tried = IF taken THEN @ \cup {r} ELSE @]
         IN  /\ Took(r, "OFF", x)
             /\ call' = CASE FirstRound -> Dispatched(c, x.ok)
                          [] ~FirstRound -> [c EXCEPT !.at = IF x.ok THEN "check" ELSE "recover"]
  BY DEF Dispatch
<1> DEFINE e == Elapsed(x)
           t == IF taken THEN call.tried \cup {r} ELSE call.tried
           c == [call EXCEPT !.expired = e, !.tried = t]
           a == IF x.ok THEN "check" ELSE "recover"
<1>4. "OFF" \in Scpi \ {"ON"}
  BY DEF Scpi
<1>5. /\ Sound(helper[Port(r)], r, "OFF", x) /\ Ordered(r, "OFF") = {} /\ x.h \in Session
      /\ helper' = [helper EXCEPT ![Port(r)] = x.h] /\ on' = x.on /\ ~crossed'
      /\ Tamed(Ordered(r, "OFF"), {}) /\ e \in BOOLEAN /\ x.ok \in BOOLEAN
  BY <1>1, <1>2, <1>3, <1>4, ForcingStep
<1>6. t \in SUBSET AllRoles /\ a \in {"check", "recover"}
  BY <1>2, Parts DEF CallType
<1>7. \/ FirstRound /\ call' = Dispatched(c, x.ok)
      \/ call' = [c EXCEPT !.at = a]
  BY <1>3
<1> HIDE DEF e, t, a
<1>8. c \in CallType /\ c.op = call.op /\ c.role = r /\ c.steps = call.steps /\ c.spoiled = call.spoiled
  BY <1>5, <1>6, Parts DEF CallType
<1> HIDE DEF c
<1>9. CallShape(call)' /\ Entitled(call)' /\ call'.at # "zero"
  <2>1. CASE FirstRound /\ call' = Dispatched(c, x.ok)
    <3>1. call.op = "off all"
      BY <2>1 DEF FirstRound
    <3>2. Sweeping(c)
      BY <1>2, <1>8, <3>1, SameRole, Parts DEF Forced
    <3> QED BY <1>1, <1>5, <2>1, <3>2, DispatchedStep
  <2>2. CASE call' = [c EXCEPT !.at = a]
    <3>1. CallShape(call)' /\ call'.at = a
      BY <1>1, <1>2, <1>6, <1>8, <2>2, StaysWith
    <3> QED BY <1>1, <1>6, <3>1, EntitledAfter
  <2> QED BY <1>7, <2>1, <2>2
<1>10. attached' \subseteq Roles /\ ReadInv'
  BY <1>1, Parts DEF ReadInv
<1> QED BY <1>1, <1>2, <1>5, <1>9, <1>10, RequestStep

\* output_off_verify_and_zero: what the instrument answers is its state, and no
\* helper can turn it on any more.
LEMMA CheckStep ==
    ASSUME Inv, Check
    PROVE  Inv'
<1> DEFINE r == call.role
<1>1. /\ UNCHANGED <<bench, attached, usable, pending, discard, said, known, first>>
      /\ call.at = "check"
  BY DEF Check
<1>2. r \in Roles /\ r \in attached /\ (Forced(call) \/ Sweeping(call))
  BY <1>1, ForcingFacts, Parts
<1>3. PICK x \in Answers(r, "QUERY"), off \in BOOLEAN :
         /\ Took(r, "QUERY", x)
         /\ x.own => off = (r \notin x.on)
         /\ call' = [call EXCEPT !.expired = Elapsed(x),
                                 !.at = IF x.ok /\ off THEN "zero" ELSE "recover"]
  BY DEF Check
<1> DEFINE e == Elapsed(x)
           a == IF x.ok /\ off THEN "zero" ELSE "recover"
           c == [call EXCEPT !.expired = e]
<1>4. "QUERY" \in Scpi \ {"ON"}
  BY DEF Scpi
<1>5. /\ Sound(helper[Port(r)], r, "QUERY", x) /\ Ordered(r, "QUERY") = {} /\ x.h \in Session
      /\ helper' = [helper EXCEPT ![Port(r)] = x.h] /\ on' = x.on /\ ~crossed'
      /\ Tamed(Ordered(r, "QUERY"), {}) /\ e \in BOOLEAN /\ x.ok \in BOOLEAN
  BY <1>1, <1>2, <1>3, <1>4, ForcingStep
<1>6. a \in {"zero", "recover"} /\ (a = "zero" => x.ok /\ off) /\ call' = [c EXCEPT !.at = a]
  BY <1>3
<1> HIDE DEF e, a
<1>7. c \in CallType /\ c.op = call.op /\ c.role = r /\ c.steps = call.steps /\ c.spoiled = call.spoiled
  BY <1>5, Parts DEF CallType
<1> HIDE DEF c
<1>8. CallShape(call)' /\ call'.at = a /\ call'.role = r
  BY <1>1, <1>2, <1>6, <1>7, StaysWith
<1>9. Entitled(call)'
  BY <1>1, <1>6, <1>8, EntitledAfter
<1>10. ASSUME a = "zero"
       PROVE  r \notin on' /\ \A p \in Ports : r \notin Owed(helper'[p])
  <2>1. x.own /\ x.h.todo = <<>>
    BY <1>4, <1>5, <1>6, <1>10 DEF Sound
  <2>2. r \notin on'
    BY <1>3, <1>5, <1>6, <1>10, <2>1
  <2>3. Owed(x.h) = {}
    BY <2>1 DEF Owed
  <2>4. helper \in [Ports -> Session] /\ Port(r) \in Ports
    BY <1>2, Parts DEF HelpersInv
  <2>5. ASSUME NEW p \in Ports PROVE r \notin Owed(helper'[p])
    <3>1. CASE p = Port(r)
      BY <1>5, <2>3, <2>4, <3>1
    <3>2. CASE p # Port(r)
      <4>1. helper'[p] = helper[p]
        BY <1>5, <2>4, <3>2
      <4> QED BY <3>2, <4>1, Parts DEF HelpersInv
    <3> QED BY <3>1, <3>2
  <2> QED BY <2>2, <2>5
<1>11. attached' \subseteq Roles /\ ReadInv'
  BY <1>1, Parts DEF ReadInv
<1> QED BY <1>1, <1>2, <1>5, <1>8, <1>9, <1>10, <1>11, RequestStep

\* A source is done with; the next one follows.
LEMMA FinishedStep ==
    ASSUME Inv, UNCHANGED <<bench, attached>>, NEW c, Forced(c) \/ Sweeping(c), NEW ok \in BOOLEAN,
           call' = Finished(c, ok)
    PROVE  CallShape(call)' /\ Entitled(call)' /\ call'.at # "zero"
<1>1. c \in CallType /\ ~c.spoiled /\ (c.op = "off" \/ Sweeping(c))
  BY DEF Forced, Sweeping
<1>2. CASE call' = Idle
  BY <1>2, Returned
<1>3. CASE Sweeping(call') /\ call'.at \in {"finish", "check", "recover"}
  BY <1>3, ForcedShape, EntitledAfter, Parts
<1> QED BY <1>1, <1>2, <1>3, FinishedFacts, Parts

\* The level after a verified OFF, and the report.
LEMMA ZeroStep ==
    ASSUME Inv, Zero
    PROVE  Inv'
<1> DEFINE r == call.role
<1>1. /\ UNCHANGED <<bench, attached, usable, pending, discard, known, first>>
      /\ call.at = "zero"
  BY DEF Zero
<1>2. r \in Roles /\ r \in attached /\ (Forced(call) \/ Sweeping(call))
  BY <1>1, ForcingFacts, Parts
<1>3. PICK x \in Answers(r, "LEVEL") :
         /\ Took(r, "LEVEL", x)
         /\ said' = said \cup {r}
         /\ call' = Finished([call EXCEPT !.expired = Elapsed(x)], TRUE)
  BY DEF Zero
<1> DEFINE e == Elapsed(x)
           c == [call EXCEPT !.expired = e]
<1>4. "LEVEL" \in Scpi \ {"ON"}
  BY DEF Scpi
<1>5. /\ Sound(helper[Port(r)], r, "LEVEL", x) /\ Ordered(r, "LEVEL") = {} /\ x.h \in Session
      /\ helper' = [helper EXCEPT ![Port(r)] = x.h] /\ on' = x.on /\ ~crossed'
      /\ e \in BOOLEAN
  BY <1>2, <1>3, <1>4, ForcingStep
<1>6. call' = Finished(c, TRUE)
  BY <1>3
<1> HIDE DEF e
<1>7. c \in CallType /\ c.op = call.op /\ c.role = r /\ c.steps = call.steps /\ c.spoiled = call.spoiled
  BY <1>5, Parts DEF CallType
<1> HIDE DEF c
<1>8. CallShape(call)' /\ Entitled(call)' /\ call'.at # "zero"
  <2>1. Forced(c) \/ Sweeping(c)
    BY <1>2, <1>7, SameRole, Parts
  <2> QED BY <1>1, <1>6, <2>1, FinishedStep
<1>9. /\ attached' \subseteq Roles /\ ReadInv'
      /\ \A q \in said' : /\ q \notin Ordered(r, "LEVEL")
                          /\ q \in said \/ (call.at = "zero" /\ q = call.role)
      /\ \A q \in attached' : q \notin known' =>
               q \in pending' \/ (q \in attached /\ q \notin pending /\ q \notin known)
  BY <1>1, <1>3, <1>5, Parts DEF ReadInv
<1> HIDE DEF r
<1> QED BY <1>1, <1>2, <1>5, <1>8, <1>9, RequestStep

\* output_off_recover and replace_source_helper: with the helper its late
\* commands are gone, and every role of the port must be identified again.
LEMMA RecoverStep ==
    ASSUME Inv, Recover
    PROVE  Inv'
<1> DEFINE r == call.role
           p == Port(r)
           again == [call EXCEPT !.tries = @ + 1]
<1>1. /\ UNCHANGED <<bench, attached, discard, on, said, first, crossed>> /\ call.at = "recover"
  BY DEF Recover
<1>2. r \in Roles /\ r \in attached /\ p \in Ports /\ (Forced(call) \/ Sweeping(call))
  BY <1>1, ForcingFacts, Parts
<1>3. /\ again \in CallType /\ again.op = call.op /\ again.role = r /\ again.steps = call.steps
      /\ again.spoiled = call.spoiled /\ again.at = "recover"
  BY <1>1, Parts DEF CallType
<1> DEFINE g == [Ended(helper[p]) EXCEPT !.lease = FALSE]
<1>4. \/ call' = Finished(call, FALSE) /\ UNCHANGED <<helper, pending, known>>
      \/ call' = again /\ UNCHANGED <<helper, pending, known>>
      \/ call' = again /\ helper' = [helper EXCEPT ![p] = g] /\ UNCHANGED <<pending, known>>
      \/ /\ call' = [again EXCEPT !.at = "identify"]
         /\ helper' = [helper EXCEPT ![p] = Fresh]
         /\ pending' = pending \cup OnPort(p)
         /\ known' = {q \in known : Port(q) # p}
  BY DEF Recover
<1> HIDE DEF again
<1>5. ASSUME call' = again PROVE CallShape(call)' /\ Entitled(call)' /\ call'.at # "zero"
  <2>1. Forced(call') \/ Sweeping(call')
    BY <1>2, <1>3, <1>5, SameRole, Parts
  <2> QED BY <1>1, <1>3, <1>5, <2>1, ForcedShape, EntitledAfter, Parts
<1>6. CASE call' = Finished(call, FALSE) /\ UNCHANGED <<helper, pending, known>>
  BY <1>1, <1>2, <1>6, FinishedStep, CallOnly
<1>7. CASE call' = again /\ UNCHANGED <<helper, pending, known>>
  BY <1>1, <1>5, <1>7, CallOnly
<1>8. CASE call' = again /\ helper' = [helper EXCEPT ![p] = g] /\ UNCHANGED <<pending, known>>
  <2>1. g \in Session /\ Clean(g) /\ ~Good(g) /\ Owed(g) = {}
    BY <1>2, EndedFacts, Parts
  <2> HIDE DEF g
  <2>2. Tamed({}, {})
    BY <1>1, <1>2, <1>8, <2>1, OnePort, Parts
  <2>3. HelpersInv'
    BY <1>1, <2>2, HelpersKept, Parts
  <2>4. OffInv'
    BY <1>1, <1>5, <1>8, <2>2, OffKept, Parts
  <2>5. KnownInv'
    BY <1>1, <1>5, <1>8, <2>2, KnownKept, Parts
  <2> QED BY <1>1, <1>5, <1>8, <2>3, <2>4, <2>5, Parts DEF Inv, ReadInv, OwnAnswer
<1>9. CASE /\ call' = [again EXCEPT !.at = "identify"]
           /\ helper' = [helper EXCEPT ![p] = Fresh]
           /\ pending' = pending \cup OnPort(p)
           /\ known' = {q \in known : Port(q) # p}
  <2>1. CallShape(call)' /\ call'.at = "identify"
    BY <1>1, <1>2, <1>3, <1>9, StaysWith
  <2>2. Entitled(call)'
    BY <1>1, <2>1, EntitledAfter
  <2>3. HelpersInv /\ Fresh \in Session /\ Clean(Fresh) /\ Owed(Fresh) = {}
    BY Parts, BenchFacts
  <2>4. Tamed({}, {p})
    BY <1>1, <1>2, <1>9, <2>3, OnePort
  <2>5. HelpersInv'
    BY <1>1, <2>4, HelpersKept, Parts
  <2>6. OffInv'
    BY <1>1, <2>1, <2>4, OffKept, Parts
  <2>7. ASSUME NEW q \in attached', q \notin known', q \notin pending'
        PROVE  q \in attached /\ q \notin pending /\ q \notin known /\ Port(q) \notin {p}
    BY <1>1, <1>9, <2>7 DEF OnPort
  <2>8. KnownInv'
    BY <1>1, <2>2, <2>4, <2>7, KnownKept, Parts
  <2> QED BY <1>1, <2>1, <2>5, <2>6, <2>8, Parts DEF Inv, ReadInv, OwnAnswer
<1> QED BY <1>4, <1>6, <1>7, <1>8, <1>9

\* The source is identified through its new helper.
LEMMA ReidentifyStep ==
    ASSUME Inv, Reidentify
    PROVE  Inv'
<1> DEFINE r == call.role
<1>1. /\ UNCHANGED <<bench, attached, usable, discard, said, first>> /\ Forcing /\ call.at = "identify"
  BY DEF Reidentify
<1>2. r \in Roles /\ r \in attached /\ (Forced(call) \/ Sweeping(call))
  BY <1>1, ForcingFacts, Parts
<1>3. PICK x \in Answers(r, "QUERY"), match \in BOOLEAN :
         LET good == x.ok /\ match
         IN  /\ Took(r, "QUERY", x)
             /\ known' = IF good THEN known \cup {r} ELSE known
             /\ pending' = IF good THEN pending \ {r} ELSE pending
             /\ call' = [call EXCEPT !.expired = Elapsed(x),
                                     !.at = IF good THEN "dispatch" ELSE "recover"]
  BY DEF Reidentify
<1> DEFINE good == x.ok /\ match
           e == Elapsed(x)
           a == IF good THEN "dispatch" ELSE "recover"
           c == [call EXCEPT !.expired = e]
<1>4. "QUERY" \in Scpi \ {"ON"}
  BY DEF Scpi
<1>5. /\ Sound(helper[Port(r)], r, "QUERY", x) /\ Ordered(r, "QUERY") = {} /\ x.h \in Session
      /\ helper' = [helper EXCEPT ![Port(r)] = x.h] /\ on' = x.on /\ ~crossed'
      /\ e \in BOOLEAN
  BY <1>2, <1>3, <1>4, ForcingStep
<1>6. /\ a \in {"dispatch", "recover"} /\ (a = "dispatch" => good) /\ call' = [c EXCEPT !.at = a]
      /\ known' = IF good THEN known \cup {r} ELSE known
      /\ pending' = IF good THEN pending \ {r} ELSE pending
  BY <1>3
<1> HIDE DEF e, a, good
<1>7. c \in CallType /\ c.op = call.op /\ c.role = r /\ c.steps = call.steps /\ c.spoiled = call.spoiled
  BY <1>5, Parts DEF CallType
<1> HIDE DEF c
<1>8. CallShape(call)' /\ call'.at = a /\ call'.role = r
  BY <1>1, <1>2, <1>6, <1>7, StaysWith
<1>9. Entitled(call)'
  BY <1>1, <1>6, <1>8, EntitledAfter
<1>10. /\ attached' \subseteq Roles /\ ReadInv'
       /\ \A q \in attached' : q \notin known' =>
               q \in pending' \/ (q \in attached /\ q \notin pending /\ q \notin known)
  BY <1>1, <1>6, Parts DEF ReadInv
<1>11. call'.at # "zero"
  BY <1>6, <1>8
<1> QED BY <1>1, <1>2, <1>5, <1>8, <1>9, <1>10, <1>11, RequestStep

\* A helper executes a late command: only what its session still owed.
LEMMA RunStep ==
    ASSUME Inv, NEW p \in Ports, HelperRuns(p)
    PROVE  Inv'
<1>1. UNCHANGED <<bench, attached, usable, pending, discard, call, said, known, first, crossed>>
  BY DEF HelperRuns
<1>2. Tamed({}, {})
  BY RunTamed, Parts
<1>3. HelpersInv'
  BY <1>1, <1>2, HelpersKept, Parts
<1>4. OffInv'
  BY <1>1, <1>2, OffKept, Parts
<1>5. Entitled(call)'
  <2>1. call.at \in {"ON", "LEVEL", "READ", "dispatch"} =>
            call.role \in Roles /\ (Good(helper[Port(call.role)]) => call.role \in known)
    BY Parts DEF CallShape, KnownInv, IdentifiedFirst, Good
  <2>2. call.at \in {"ON", "LEVEL", "READ", "dispatch"} =>
            (Good(helper'[Port(call.role)]) => call.role \in known')
    BY <1>1, <1>2, <2>1, Parts DEF Tamed
  <2> QED BY <1>1, <2>2, EntitledAfter
<1>6. KnownInv'
  BY <1>1, <1>2, <1>5, KnownKept, Parts
<1>7. CallShape(call)'
  <2>1. Roles' = Roles /\ attached' = attached /\ call' = call /\ CallShape(call)
    BY <1>1, Parts DEF Roles
  <2> QED BY <2>1 DEF CallShape
<1> QED BY <1>1, <1>3, <1>4, <1>6, <1>7, Parts DEF Inv, ReadInv, OwnAnswer

-----------------------------------------------------------------------------
(* The theorems *)

\* The inductive invariant holds initially and every step keeps it.
LEMMA InitInv == Init => Inv
<1> SUFFICES ASSUME Init PROVE Inv
  OBVIOUS
<1>1. bench \in Benches /\ attached = {} /\ said = {} /\ known = {} /\ first = {} /\ crossed = FALSE
      /\ pending = {} /\ discard = {} /\ call = Idle /\ helper = [p \in Ports |-> Closed]
  BY DEF Init
<1>2. Closed \in Session /\ ~Closed.open /\ Owed(Closed) = {}
  BY <1>1, BenchFacts
<1>3. HelpersInv
  BY <1>1, <1>2 DEF HelpersInv, Clean, Good
<1>4. Idle.at = "idle" /\ Idle.op = "idle" /\ Idle.spoiled = FALSE
  BY DEF Idle
<1>5. CallShape(call)
  <2>1. Idle \in CallType
    BY DEF Idle, CallType, Ops, Points
  <2> QED BY <1>1, <1>4, <2>1 DEF CallShape
<1>6. OffInv /\ KnownInv /\ ReadInv
  BY <1>1, <1>2, <1>4 DEF OffInv, KnownInv, ReadInv, IdentifiedFirst
<1> QED BY <1>1, <1>3, <1>5, <1>6 DEF Inv, OwnAnswer

\* Every step of the engine thread, of time and of the helpers keeps it.
LEMMA NextInv == Inv /\ [Next]_vars => Inv'
<1> SUFFICES ASSUME Inv, [Next]_vars PROVE Inv'
  OBVIOUS
<1>1. CASE UNCHANGED vars
  <2>1. UNCHANGED <<bench, attached, helper, pending, discard, on, said, known, first, crossed>> /\ call' = call
    BY <1>1 DEF vars
  <2>2. CallShape(call)'
    <3>1. Roles' = Roles /\ attached' = attached /\ call' = call /\ CallShape(call)
      BY <2>1, Parts DEF Roles
    <3> QED BY <3>1 DEF CallShape
  <2>3. Entitled(call)'
    BY <2>1, EntitledAfter, Parts DEF KnownInv, IdentifiedFirst, Good
  <2> QED BY <2>1, <2>2, <2>3, CallOnly
<1>2. CASE Engine
  <2>1. \A r \in Roles : WriteOn(r) \/ WriteLevel(r) \/ Read(r) => Inv'
    BY OrdinaryStep DEF WriteOn, WriteLevel, Read
  <2> QED BY <1>2, <2>1, OffAllStep, ConnectStep, DisconnectStep, DiscoverStep, OffStep DEF Engine
<1>3. CASE Finish
  <2>1. /\ UNCHANGED <<bench, attached, helper, pending, discard, on, said, known, first, crossed>>
        /\ call' = Idle
    BY <1>3 DEF Finish, Return
  <2> QED BY <2>1, Returned, CallOnly
<1>4. CASE Step
  BY <1>3, <1>4, ClaimStep, IdentifyStep, RejectStep, DetachStep, ValidateStep, WriteStep, ConvertStep,
     VerifyStep, DispatchStep, CheckStep, ZeroStep, RecoverStep, ReidentifyStep DEF Step
<1> QED BY <1>1, <1>2, <1>4, DeadlineStep, RunStep DEF Next

\* HelperSession::request, force_output_off_role, replace_source_helper and
\* adc_query together: the inductive invariant, on every bench.
THEOREM TransportInvariant == Spec => []Inv
BY InitInv, NextInv, PTL DEF Spec

\* The answer a transfer is given is its own, never that of an earlier request
\* that timed out: HelperSession::request poisons the session.
THEOREM AnswersAreOwn == Spec => []OwnAnswer
<1>1. Inv => OwnAnswer
  BY DEF Inv
<1> QED BY <1>1, TransportInvariant, PTL

\* A source that output_off_verify_and_zero reported OFF is OFF until it is
\* switched on again, whatever a helper was told before.
THEOREM ReportedOffStays == Spec => []OffStays
<1>1. Inv => OffStays
  BY DEF Inv, OffInv, OffStays
<1> QED BY <1>1, TransportInvariant, PTL

\* After replace_source_helper no transfer and no OFF goes to a role that was not
\* identified through the new helper.
THEOREM TransfersIdentified == Spec => []IdentifiedFirst
<1>1. Inv => IdentifiedFirst
  BY DEF Inv, KnownInv
<1> QED BY <1>1, TransportInvariant, PTL

\* adc_query never returns the first conversion after a level was set.
THEOREM ReadingsFresh == Spec => []FreshReading
<1>1. Inv => FreshReading
  BY DEF Inv, CallShape, FreshReading
<1> QED BY <1>1, TransportInvariant, PTL

=============================================================================
