------------------------- MODULE Deliverables_proofs -------------------------
(***************************************************************************)
(* Proofs about module Deliverables, for any people, any length of the     *)
(* chain, any statuses set by hand and any number of writes and faults.    *)
(***************************************************************************)
EXTENDS Deliverables, TLAPS

USE DeliverablesAssumption

-----------------------------------------------------------------------------
(* Every session works on a copy that may be old.  The invariant says of the head, and
   of every copy that will be written, what the snapshots still know of it: its content
   and its status are each found in one, and, as long as no session wrote over another,
   both in the one with its version number. *)

Recorded(x) ==
    /\ \E v \in versions : v.content = x.content
    /\ \E v \in versions : v.status = x.status

Snapped(x) ==
    /\ \E v \in versions : v.version = x.version /\ v.status = x.status /\ v.content = x.content
    /\ x.version <= head.version
    /\ x.version = head.version => x.status = head.status /\ x.content = head.content

Known(x) == Recorded(x) /\ (~raced => Snapped(x))

\* A session whose copy is a row it loaded.
Live(s) ==
    \/ session[s].pc \in {"finished", "authored", "linked", "loaded", "resumed", "linking"}
    \/ session[s].pc = "calling" /\ session[s].step > 0

Born == head # NoHead

CopyOK(s) ==
    /\ session[s].pc = "calling" => session[s].step < ChainLength
    /\ Live(s) => Known(session[s].copy)
    /\ session[s].pc = "loaded" /\ session[s].op \in {"approved", "rejected"} =>
          session[s].copy.status = "awaiting_human"

PersonOK(p) ==
    /\ session[p].pc \in {"idle", "calling", "finished", "loaded", "resumed", "answering",
                          "linking", "deciding"}
    /\ session[p].pc = "idle" => session[p].op = "none"
    /\ session[p].pc = "calling" => session[p].step > 0
    /\ session[p].pc # "idle" => Born

ProducerOK ==
    /\ session[Producer].pc \in {"idle", "dispatched", "calling", "created", "finished",
                                 "authored", "linked", "over"}
    /\ request.status = "none" => session[Producer].pc = "idle"
    /\ session[Producer].pc = "dispatched" => ~Born
    /\ session[Producer].pc = "calling" /\ session[Producer].step = 0 => ~Born
    /\ session[Producer].pc = "created" \/ Live(Producer) => Born
    /\ session[Producer].pc = "linked" => request.output \/ faults > 0

StoreOK ==
    /\ Born => Known(head) /\ head.version # 0
    /\ ~Born => versions = {} /\ item = "none"

DeliverablesInv ==
    /\ TypeOK /\ StoreOK
    /\ \A s \in Actors : CopyOK(s)
    /\ \A p \in People : PersonOK(p)
    /\ ProducerOK
    /\ PeopleFinalize /\ GateClosesWhatWaits /\ CompleteMeansOutput

Bys     == {"chain", "person", "resume", "gate"}
Decided == {"approved", "rejected", "published", "superseded"}

-----------------------------------------------------------------------------
(* What a write of the store keeps. *)

\* The store is of its type; the head is known, and what was known still is.
StoreTyped ==
    /\ head \in Row /\ versions \subseteq Snapshot /\ writes \in Nat /\ raced \in BOOLEAN
    /\ \A v \in versions : v.n <= writes

\* A version appended, from whatever copy that is known, leaves the head and every other
\* copy known.  It decides only if its author is no chain, and closes what waits if it is
\* appended by the gate to a copy that waits.
LEMMA AppendKeeps ==
    ASSUME StoreTyped, StoreOK, Born, NEW s \in Actors, session[s].copy \in Row,
           Known(session[s].copy), NEW new \in Row, new.status \in Statuses, NEW by \in Bys,
           AppendVersion(s, new, by)
    PROVE  /\ StoreTyped' /\ StoreOK' /\ Born'
           /\ \A x \in Row : Known(x) => Known(x)'
           /\ \A x \in Row : x = head' => Known(x)'
           /\ PeopleFinalize /\ (by # "chain" \/ new.status \notin Decided) => PeopleFinalize'
           /\ (/\ GateClosesWhatWaits
               /\ by = "gate" => /\ session[s].copy.status = "awaiting_human"
                                 /\ new.content = session[s].copy.content)
                 => GateClosesWhatWaits'
<1>1. PICK copy \in Row : copy = session[s].copy
  OBVIOUS
<1>2. PICK next : next = [new EXCEPT !.version = copy.version + 1]
  OBVIOUS
<1>3. /\ next \in Row /\ next.version = copy.version + 1 /\ next.version \in Nat \ {0}
      /\ next.status = new.status /\ next.content = new.content
      /\ copy.version \in Nat
  BY <1>2 DEF Row
<1>4. PICK snap : snap = [n |-> writes + 1, version |-> next.version, status |-> next.status,
                          content |-> next.content, by |-> by]
  OBVIOUS
<1>5. /\ snap \in Snapshot /\ snap.n = writes + 1 /\ snap.version = next.version
      /\ snap.status = next.status /\ snap.content = next.content /\ snap.by = by
  BY <1>3, <1>4 DEF Snapshot, Bys, StoreTyped, Row
<1>6. /\ head' = Merged(copy, next, by) /\ versions' = versions \cup {snap}
      /\ writes' = writes + 1 /\ raced' = (raced \/ head.version # copy.version)
  BY <1>1, <1>2, <1>4 DEF AppendVersion
<1>7. /\ head' \in Row /\ head'.version = next.version
      /\ head'.status = IF next.status = copy.status THEN head.status ELSE next.status
      /\ head'.content = IF next.content = copy.content THEN head.content ELSE next.content
  <2>1. next.version # copy.version
    BY <1>3
  <2> QED
    BY <1>3, <1>6, <2>1 DEF Merged, Row, StoreTyped
<1>8. Known(copy) /\ Known(head) /\ head.version \in Nat
  BY <1>1 DEF StoreOK, StoreTyped, Row
<1>9. ASSUME ~raced'
      PROVE  /\ ~raced /\ head.version = copy.version
             /\ head.status = copy.status /\ head.content = copy.content
  <2>1. ~raced /\ head.version = copy.version
    BY <1>6, <1>9 DEF StoreTyped
  <2> QED
    BY <1>8, <2>1 DEF Known, Snapped
<1>10. Born' /\ head'.version # 0
  BY <1>3, <1>7 DEF Born, NoHead
<1>11. StoreTyped'
  <2>1. versions' \subseteq Snapshot
    BY <1>5, <1>6 DEF StoreTyped
  <2>2. \A v \in versions' : v.n <= writes'
    BY <1>5, <1>6 DEF StoreTyped, Snapshot
  <2>3. raced' \in BOOLEAN /\ writes' \in Nat
    BY <1>6 DEF StoreTyped
  <2> QED
    BY <1>7, <2>1, <2>2, <2>3 DEF StoreTyped
<1>12. ASSUME NEW x \in Row, Known(x)
       PROVE  Known(x)'
  <2>1. Recorded(x)'
    BY <1>6, <1>12 DEF Known, Recorded
  <2>2. ASSUME ~raced'
        PROVE  Snapped(x)'
    <3>1. /\ \E v \in versions : v.version = x.version /\ v.status = x.status /\ v.content = x.content
          /\ x.version <= head.version /\ head'.version = head.version + 1
      BY <1>3, <1>7, <1>9, <1>12, <2>2 DEF Known, Snapped
    <3>2. x.version <= head'.version /\ x.version # head'.version
      BY <1>8, <3>1 DEF Row
    <3> QED
      BY <1>6, <3>1, <3>2 DEF Snapped
  <2> QED
    BY <2>1, <2>2 DEF Known
<1>13. ASSUME NEW x \in Row, x = head'
       PROVE  Known(x)'
  <2>1. Recorded(x)'
    BY <1>5, <1>6, <1>7, <1>8, <1>13 DEF Known, Recorded
  <2>2. ASSUME ~raced'
        PROVE  Snapped(x)'
    <3>1. x.version = snap.version /\ x.status = snap.status /\ x.content = snap.content
      BY <1>5, <1>7, <1>9, <1>13, <2>2
    <3>2. snap \in versions' /\ x.version <= head'.version
      BY <1>6, <1>7, <1>13, <1>3
    <3> QED
      BY <1>13, <3>1, <3>2 DEF Snapped
  <2> QED
    BY <2>1, <2>2 DEF Known
<1>14. StoreOK'
  <2>1. PICK x \in Row : x = head'
    BY <1>7
  <2> QED
    BY <1>10, <1>13, <2>1 DEF StoreOK, Known, Recorded, Snapped
<1>15. ASSUME PeopleFinalize, by # "chain" \/ new.status \notin Decided
       PROVE  PeopleFinalize'
  <2>1. ASSUME head'.status \in Decided
        PROVE  \E v \in versions' : v.by # "chain" /\ v.status = head'.status
    <3>1. CASE head'.status = head.status
      BY <1>6, <1>15, <2>1, <3>1 DEF PeopleFinalize, Decided
    <3>2. CASE head'.status # head.status
      <4>1. head'.status = snap.status /\ snap.status = new.status
        BY <1>3, <1>5, <1>7, <3>2
      <4> QED
        BY <1>5, <1>6, <1>15, <2>1, <4>1
    <3> QED
      BY <3>1, <3>2
  <2> QED
    BY <2>1 DEF PeopleFinalize, Decided
<1>16. ASSUME GateClosesWhatWaits,
              by = "gate" => copy.status = "awaiting_human" /\ new.content = copy.content
       PROVE  GateClosesWhatWaits'
  <2> SUFFICES ASSUME ~raced', NEW v \in versions', v.by = "gate"
               PROVE  \E u \in versions' : /\ u.version + 1 = v.version
                                           /\ u.status = "awaiting_human" /\ u.content = v.content
    BY DEF GateClosesWhatWaits
  <2>1. ~raced
    BY <1>9
  <2>2. CASE v \in versions
    BY <1>6, <1>16, <2>1, <2>2 DEF GateClosesWhatWaits
  <2>3. CASE v = snap
    <3>1. PICK u \in versions : u.version = copy.version /\ u.status = copy.status
                                /\ u.content = copy.content
      BY <1>8, <2>1 DEF Known, Snapped
    <3>2. u.version + 1 = v.version /\ u.status = "awaiting_human" /\ u.content = v.content
      BY <1>3, <1>5, <1>16, <2>3, <3>1
    <3> QED
      BY <1>6, <3>2
  <2> QED
    BY <1>6, <2>2, <2>3
<1> QED
  BY <1>1, <1>10, <1>11, <1>12, <1>13, <1>14, <1>15, <1>16

\* A head that changes only in its meta is as known as before.
LEMMA MetaKeeps ==
    ASSUME StoreTyped, StoreOK, Born, NEW new \in Row, head' = new,
           new.status = head.status, new.version = head.version, new.content = head.content,
           UNCHANGED <<versions, writes, raced>>
    PROVE  /\ StoreTyped' /\ StoreOK' /\ Born'
           /\ \A x \in Row : Known(x) => Known(x)'
           /\ \A x \in Row : x = head' => Known(x)'
           /\ PeopleFinalize => PeopleFinalize'
           /\ GateClosesWhatWaits => GateClosesWhatWaits'
<1>1. StoreTyped' /\ Born' /\ head'.version # 0
  BY DEF StoreTyped, StoreOK, Born, NoHead
<1>2. \A x \in Row : Known(x) => Known(x)'
  BY DEF Known, Recorded, Snapped
<1>3. Known(head)
  BY DEF StoreOK
<1>4. \A x \in Row : x = head' => Known(x)'
  BY <1>3 DEF Known, Recorded, Snapped
<1>5. StoreOK'
  <2>1. Known(new)'
    BY <1>4
  <2> QED
    BY <1>1, <2>1 DEF StoreOK, Known, Recorded, Snapped
<1> QED
  BY <1>1, <1>2, <1>4, <1>5 DEF PeopleFinalize, GateClosesWhatWaits

\* A link to Drive written back with the content of a copy that is known.
LEMMA LinkKeeps ==
    ASSUME StoreTyped, StoreOK, Born, NEW s \in Actors, session[s].copy \in Row,
           Known(session[s].copy), WriteLink(s)
    PROVE  /\ StoreTyped' /\ StoreOK' /\ Born'
           /\ \A x \in Row : Known(x) => Known(x)'
           /\ \A x \in Row : x = head' => Known(x)'
           /\ PeopleFinalize => PeopleFinalize'
           /\ GateClosesWhatWaits => GateClosesWhatWaits'
<1>1. PICK copy \in Row : copy = session[s].copy
  OBVIOUS
<1>2. /\ head' \in Row /\ head'.version = head.version /\ head'.status = head.status
      /\ head'.content = copy.content
      /\ versions' = versions /\ writes' = writes
      /\ raced' = (raced \/ head.version # copy.version)
  BY <1>1 DEF WriteLink, StoreTyped, Row
<1>3. Known(copy) /\ Known(head) /\ head.version # 0
  BY <1>1 DEF StoreOK
<1>4. StoreTyped'
  BY <1>2 DEF StoreTyped
<1>5. Born'
  BY <1>2, <1>3 DEF Born, NoHead
<1>6. ASSUME ~raced'
      PROVE  ~raced /\ head'.content = head.content
  <2>1. ~raced /\ head.version = copy.version
    BY <1>2, <1>6 DEF StoreTyped
  <2> QED
    BY <1>2, <1>3, <2>1 DEF Known, Snapped
<1>7. \A x \in Row : Known(x) => Known(x)'
  BY <1>2, <1>6 DEF Known, Recorded, Snapped
<1>8. ASSUME NEW x \in Row, x = head'
      PROVE  Known(x)'
  <2>1. Recorded(x)'
    BY <1>2, <1>3, <1>8 DEF Known, Recorded
  <2>2. ASSUME ~raced'
        PROVE  Snapped(x)'
    BY <1>2, <1>3, <1>6, <1>8, <2>2 DEF Known, Snapped
  <2> QED
    BY <2>1, <2>2 DEF Known
<1>9. StoreOK'
  <2>1. PICK x \in Row : x = head'
    BY <1>2
  <2> QED
    BY <1>2, <1>3, <1>5, <1>8, <2>1 DEF StoreOK, Known, Recorded, Snapped
<1>10. PeopleFinalize => PeopleFinalize'
  BY <1>2 DEF PeopleFinalize
<1>11. GateClosesWhatWaits => GateClosesWhatWaits'
  BY <1>2, <1>6 DEF GateClosesWhatWaits
<1> QED
  BY <1>4, <1>5, <1>7, <1>8, <1>9, <1>10, <1>11

\* The first version of a deliverable.
LEMMA CreateKeeps ==
    ASSUME StoreTyped, NEW by \in {"chain", "person"}, Create(by)
    PROVE  /\ StoreTyped' /\ StoreOK' /\ Born'
           /\ \A x \in Row : x = head' => Known(x)'
           /\ PeopleFinalize' /\ GateClosesWhatWaits'
<1>1. PICK first : first = [status |-> "draft", version |-> 1, content |-> Fresh,
                            meta |-> NoHead.meta]
  OBVIOUS
<1>2. first \in Row /\ first.version = 1 /\ first.status = "draft" /\ first.content = Fresh
  BY <1>1 DEF Row, Statuses, NoHead, Fresh, StoreTyped
<1>3. PICK snap : snap = [n |-> 1, version |-> 1, status |-> "draft", content |-> Fresh, by |-> by]
  OBVIOUS
<1>4. /\ snap \in Snapshot /\ snap.n = 1 /\ snap.version = 1 /\ snap.status = "draft"
      /\ snap.content = Fresh /\ snap.by # "gate"
  BY <1>3 DEF Snapshot, Statuses, Fresh, StoreTyped
<1>5. head' = first /\ versions' = {snap} /\ writes' = 1 /\ raced' = raced
  BY <1>1, <1>3 DEF Create
<1>6. StoreTyped'
  BY <1>2, <1>4, <1>5 DEF StoreTyped
<1>7. Born' /\ head'.version # 0
  BY <1>2, <1>5 DEF Born, NoHead
<1>8. Known(first)'
  BY <1>2, <1>4, <1>5 DEF Known, Recorded, Snapped
<1>9. StoreOK'
  BY <1>5, <1>7, <1>8 DEF StoreOK, Known, Recorded, Snapped
<1>10. PeopleFinalize' /\ GateClosesWhatWaits'
  BY <1>2, <1>4, <1>5 DEF PeopleFinalize, GateClosesWhatWaits
<1> QED
  BY <1>5, <1>6, <1>7, <1>8, <1>9, <1>10

-----------------------------------------------------------------------------
(* What a session does next. *)

Pcs == {"idle", "dispatched", "calling", "created", "finished", "linked", "authored", "loaded",
        "resumed", "answering", "linking", "deciding", "over"}
Ops == {"none", "accept", "approved", "rejected"}

Became(s, pc, op, copy, step) ==
    /\ session' \in [Actors -> Session]
    /\ session'[s].pc = pc /\ session'[s].op = op
    /\ session'[s].copy = copy /\ session'[s].step = step
    /\ \A t \in Actors \ {s} : session'[t] = session[t]

\* Go overwrites the fields it names and keeps the others.
LEMMA Goes ==
    ASSUME session \in [Actors -> Session], NEW s \in Actors, NEW pc \in Pcs, NEW op \in Ops,
           NEW copy \in Row, NEW step \in 0 .. ChainLength
    PROVE  LET old == session[s]
           IN  /\ Go(s, [pc |-> pc]) => Became(s, pc, old.op, old.copy, old.step)
               /\ Go(s, [pc |-> pc, step |-> step]) => Became(s, pc, old.op, old.copy, step)
               /\ Go(s, [pc |-> pc, copy |-> copy]) => Became(s, pc, old.op, copy, old.step)
               /\ Go(s, [pc |-> pc, op |-> op]) => Became(s, pc, op, old.copy, old.step)
               /\ Go(s, [pc |-> pc, op |-> op, copy |-> copy]) => Became(s, pc, op, copy, old.step)
               /\ Go(s, [pc |-> pc, step |-> step, copy |-> copy]) =>
                     Became(s, pc, old.op, copy, step)
               /\ Go(s, [pc |-> pc, copy |-> copy, step |-> step]) =>
                     Became(s, pc, old.op, copy, step)
<1> USE DEF Session, Pcs, Ops, Became, Go
<1>1. /\ Go(s, [pc |-> pc]) =>
            Became(s, pc, session[s].op, session[s].copy, session[s].step)
      /\ Go(s, [pc |-> pc, step |-> step]) =>
            Became(s, pc, session[s].op, session[s].copy, step)
  OBVIOUS
<1>2. /\ Go(s, [pc |-> pc, copy |-> copy]) =>
            Became(s, pc, session[s].op, copy, session[s].step)
      /\ Go(s, [pc |-> pc, op |-> op]) =>
            Became(s, pc, op, session[s].copy, session[s].step)
  OBVIOUS
<1>3. Go(s, [pc |-> pc, op |-> op, copy |-> copy]) => Became(s, pc, op, copy, session[s].step)
  OBVIOUS
<1>4. Go(s, [pc |-> pc, step |-> step, copy |-> copy]) => Became(s, pc, session[s].op, copy, step)
  OBVIOUS
<1>5. Go(s, [pc |-> pc, copy |-> copy, step |-> step]) => Became(s, pc, session[s].op, copy, step)
  OBVIOUS
<1> HIDE DEF Became, Go
<1> QED
  BY <1>1, <1>2, <1>3, <1>4, <1>5

\* A session that ends forgets its copy.
LEMMA EndsGo ==
    ASSUME session \in [Actors -> Session], NEW s \in Actors, End(s)
    PROVE  /\ NoHead \in Row
           /\ Became(s, IF s = Producer THEN "over" ELSE "idle", "none", NoHead, 0)
<1>1. NoHead \in Row
  BY DEF NoHead, Row
<1>2. PICK new : new = [Idle EXCEPT !.pc = IF s = Producer THEN "over" ELSE "idle"]
  OBVIOUS
<1>3. /\ new \in Session /\ new.pc = IF s = Producer THEN "over" ELSE "idle"
      /\ new.op = "none" /\ new.copy = NoHead /\ new.step = 0
  BY <1>1, <1>2 DEF Idle, Session
<1>4. session' = [session EXCEPT ![s] = new]
  BY <1>2 DEF End
<1> QED
  BY <1>1, <1>3, <1>4 DEF Became

\* What a step leaves of the store.
Kept ==
    /\ StoreTyped' /\ StoreOK' /\ Born' = Born
    /\ \A x \in Row : Known(x) => Known(x)'
    /\ PeopleFinalize' /\ GateClosesWhatWaits'

\* What the invariant asks of the state a session comes to.
CopyGoes(pc, op, copy, step) ==
    /\ pc = "calling" => step < ChainLength
    /\ pc \in {"finished", "authored", "linked", "loaded", "resumed", "linking"}
          \/ (pc = "calling" /\ step > 0) => Known(copy)'
    /\ pc = "loaded" /\ op \in {"approved", "rejected"} => copy.status = "awaiting_human"

PersonGoes(pc, op, step) ==
    /\ pc \in {"idle", "calling", "finished", "loaded", "resumed", "answering",
               "linking", "deciding"}
    /\ pc = "idle" => op = "none"
    /\ pc = "calling" => step > 0
    /\ pc # "idle" => Born

ProducerGoes(pc, step) ==
    /\ pc \in {"dispatched", "calling", "created", "finished", "authored", "linked", "over"}
    /\ request'.status # "none"
    /\ pc = "dispatched" \/ (pc = "calling" /\ step = 0) => ~Born
    /\ pc \in {"created", "finished", "authored", "linked"} \/ (pc = "calling" /\ step > 0) => Born
    /\ pc = "linked" => request'.output \/ faults' > 0
    /\ pc = "over" /\ request'.status = "complete" => request'.output \/ faults' > 0

RestTyped ==
    /\ item \in {"none", "pending", "approved", "executed", "rejected"}
    /\ request \in [status : {"none", "processing", "complete", "failed"}, output : BOOLEAN]
    /\ faults \in 0 .. MaxFaults

\* A step of one session keeps the invariant, if it keeps the store and comes to a state
\* in order; what it leaves of the request and the faults disturbs no other session.
LEMMA StepKeeps ==
    ASSUME DeliverablesInv, Kept, RestTyped', faults' >= faults,
           NEW s \in Actors, NEW pc \in Pcs, NEW op \in Ops, NEW copy \in Row,
           NEW step \in 0 .. ChainLength, Became(s, pc, op, copy, step),
           CopyGoes(pc, op, copy, step),
           s # Producer => PersonGoes(pc, op, step) /\ request' = request,
           s = Producer => ProducerGoes(pc, step)
    PROVE  DeliverablesInv'
<1>1. /\ session \in [Actors -> Session] /\ session' \in [Actors -> Session]
      /\ session'[s].pc = pc /\ session'[s].op = op
      /\ session'[s].copy = copy /\ session'[s].step = step
      /\ \A t \in Actors \ {s} : session'[t] = session[t]
  BY DEF DeliverablesInv, TypeOK, Became
<1>2. TypeOK' /\ StoreOK' /\ PeopleFinalize' /\ GateClosesWhatWaits'
  BY <1>1 DEF Kept, StoreTyped, RestTyped, TypeOK
<1>3. ASSUME NEW t \in Actors
      PROVE  CopyOK(t)'
  <2>1. CASE t = s
    BY <1>1, <2>1 DEF CopyOK, CopyGoes, Live, Known, Recorded, Snapped
  <2>2. CASE t # s
    <3>1. session'[t] = session[t] /\ session[t].copy \in Row
      BY <1>1, <2>2 DEF Session
    <3>2. CopyOK(t)
      BY DEF DeliverablesInv
    <3>3. PICK x \in Row : x = session[t].copy
      BY <3>1
    <3>4. Known(x) => Known(x)'
      BY DEF Kept
    <3>5. Known(session[t].copy) => Known(session[t].copy)'
      BY <3>1, <3>3, <3>4 DEF Known, Recorded, Snapped
    <3> QED
      BY <3>1, <3>2, <3>5 DEF CopyOK, Live
  <2> QED
    BY <2>1, <2>2
<1>4. ASSUME NEW p \in People
      PROVE  PersonOK(p)'
  <2>1. p # Producer /\ p \in Actors
    BY DEF Actors
  <2>2. Born' = Born
    BY DEF Kept
  <2>3. CASE p = s
    BY <1>1, <2>1, <2>2, <2>3 DEF PersonOK, PersonGoes
  <2>4. CASE p # s
    <3>1. session'[p] = session[p] /\ PersonOK(p)
      BY <1>1, <2>1, <2>4 DEF DeliverablesInv
    <3> QED
      BY <2>2, <3>1 DEF PersonOK
  <2> QED
    BY <2>3, <2>4
<1>5. ProducerOK' /\ CompleteMeansOutput'
  <2>1. Born' = Born /\ Producer \in Actors
    BY DEF Kept, Actors
  <2>2. faults \in Nat /\ faults' \in Nat
    BY DEF DeliverablesInv, TypeOK, RestTyped
  <2>3. CASE s = Producer
    BY <1>1, <2>1, <2>3 DEF ProducerOK, ProducerGoes, CompleteMeansOutput, At, Live
  <2>4. CASE s # Producer
    <3>1. session'[Producer] = session[Producer] /\ request' = request
      BY <1>1, <2>1, <2>4
    <3>2. ProducerOK /\ CompleteMeansOutput
      BY DEF DeliverablesInv
    <3>3. faults > 0 => faults' > 0
      BY <2>2
    <3> QED
      BY <2>1, <3>1, <3>2, <3>3 DEF ProducerOK, CompleteMeansOutput, At, Live
  <2> QED
    BY <2>3, <2>4
<1> QED
  BY <1>2, <1>3, <1>4, <1>5 DEF DeliverablesInv

\* The store as it was is kept, if no item appears before there is a deliverable.
LEMMA SameKeeps ==
    ASSUME DeliverablesInv, UNCHANGED store, Born \/ item' = item
    PROVE  Kept
<1>1. UNCHANGED <<head, versions, writes, raced>>
  BY DEF store
<1>2. /\ StoreOK /\ PeopleFinalize /\ GateClosesWhatWaits /\ StoreTyped
  BY DEF DeliverablesInv, TypeOK, StoreTyped
<1>3. StoreTyped' /\ Born' = Born /\ PeopleFinalize' /\ GateClosesWhatWaits'
  BY <1>1, <1>2 DEF StoreTyped, Born, PeopleFinalize, GateClosesWhatWaits
<1>4. \A x \in Row : Known(x) => Known(x)'
  BY <1>1 DEF Known, Recorded, Snapped
<1>5. StoreOK'
  BY <1>1, <1>2 DEF StoreOK, Born, Known, Recorded, Snapped
<1> QED
  BY <1>3, <1>4, <1>5 DEF Kept

\* What a step starts from.
LEMMA Facts ==
    ASSUME DeliverablesInv
    PROVE  /\ StoreTyped /\ StoreOK /\ RestTyped /\ PeopleFinalize /\ GateClosesWhatWaits
           /\ session \in [Actors -> Session]
           /\ \A s \in Actors : session[s].op \in Ops /\ session[s].copy \in Row
                                /\ session[s].step \in 0 .. ChainLength /\ CopyOK(s)
           /\ \A p \in People : p \in Actors /\ p # Producer /\ PersonOK(p)
           /\ Producer \in Actors /\ ProducerOK
           /\ NoHead \in Row /\ faults >= faults
<1>1. NoHead \in Row
  BY DEF NoHead, Row
<1>2. faults \in Nat
  BY DEF DeliverablesInv, TypeOK
<1> QED
  BY <1>1, <1>2 DEF DeliverablesInv, TypeOK, StoreTyped, RestTyped, Session, Ops, Actors

\* A copy that is known has a status of a snapshot.
LEMMA KnownStatus ==
    ASSUME StoreTyped, NEW x, Known(x)
    PROVE  x.status \in Statuses
BY DEF StoreTyped, Known, Recorded, Snapshot

-----------------------------------------------------------------------------
(* The invariant is inductive. *)

\* There is no deliverable at the start.
LEMMA DeliverablesStart == Init => DeliverablesInv
<1> SUFFICES ASSUME Init
             PROVE  DeliverablesInv
  OBVIOUS
<1>1. /\ head = NoHead /\ versions = {} /\ writes = 0 /\ raced = FALSE /\ item = "none"
      /\ request = [status |-> "none", output |-> FALSE] /\ faults = 0
      /\ session = [s \in Actors |-> Idle]
  BY DEF Init
<1>2. Idle \in Session /\ Idle.pc = "idle" /\ Idle.op = "none" /\ NoHead \in Row
  BY DEF Idle, Session, NoHead, Row
<1>3. TypeOK
  <2>1. session \in [Actors -> Session]
    BY <1>1, <1>2
  <2>2. request \in [status : {"none", "processing", "complete", "failed"}, output : BOOLEAN]
    BY <1>1
  <2>3. faults \in 0 .. MaxFaults
    BY <1>1
  <2> QED
    BY <1>1, <1>2, <2>1, <2>2, <2>3 DEF TypeOK
<1>4. \A s \in Actors : session[s].pc = "idle" /\ session[s].op = "none"
  BY <1>1, <1>2
<1>5. ~Born /\ StoreOK /\ PeopleFinalize /\ GateClosesWhatWaits
  BY <1>1 DEF Born, StoreOK, PeopleFinalize, GateClosesWhatWaits, NoHead
<1>6. Producer \in Actors /\ \A p \in People : p \in Actors
  BY DEF Actors
<1> QED
  BY <1>1, <1>3, <1>4, <1>5, <1>6 DEF DeliverablesInv, CopyOK, Live, PersonOK, ProducerOK,
                                      CompleteMeansOutput, At

\* The first version, by hand: no session has a copy yet.
LEMMA CreateByHandStep ==
    ASSUME DeliverablesInv, NEW p \in People, CreateByHand(p)
    PROVE  DeliverablesInv'
<1>1. /\ ~Born /\ request.status = "none" /\ Create("person")
      /\ UNCHANGED <<item, request, session, faults>>
  BY DEF CreateByHand, Born
<1>2. StoreTyped' /\ StoreOK' /\ Born' /\ PeopleFinalize' /\ GateClosesWhatWaits'
  BY <1>1, Facts, CreateKeeps
<1>3. \A s \in Actors : session'[s].pc = "idle"
  BY <1>1, Facts DEF PersonOK, ProducerOK, Actors
<1>4. TypeOK'
  BY <1>1, <1>2, Facts DEF StoreTyped, RestTyped, TypeOK
<1>5. \A s \in Actors : CopyOK(s)'
  BY <1>3 DEF CopyOK, Live
<1>6. \A q \in People : PersonOK(q)'
  BY <1>1, <1>2, Facts DEF PersonOK
<1>7. ProducerOK' /\ CompleteMeansOutput'
  BY <1>1, <1>3, Facts DEF ProducerOK, CompleteMeansOutput, At, Live
<1> QED
  BY <1>2, <1>4, <1>5, <1>6, <1>7 DEF DeliverablesInv

\* The first version, by the chain: no person has loaded anything yet.
LEMMA FirstStepStep ==
    ASSUME DeliverablesInv, FirstStep(Producer)
    PROVE  DeliverablesInv'
<1>1. /\ session[Producer].pc = "calling" /\ session[Producer].step = 0 /\ Create("chain")
      /\ Go(Producer, [pc |-> "created"]) /\ UNCHANGED <<item, request, faults>>
  BY DEF FirstStep, At
<1>2. StoreTyped' /\ StoreOK' /\ Born' /\ PeopleFinalize' /\ GateClosesWhatWaits'
  BY <1>1, Facts, CreateKeeps
<1>3. /\ session' \in [Actors -> Session] /\ session'[Producer].pc = "created"
      /\ \A t \in Actors \ {Producer} : session'[t] = session[t]
  <2>1. PICK op \in Ops, copy \in Row, step \in 0 .. ChainLength :
          op = session[Producer].op /\ copy = session[Producer].copy /\ step = session[Producer].step
    BY Facts
  <2>2. "created" \in Pcs /\ session \in [Actors -> Session] /\ Producer \in Actors
    BY Facts DEF Pcs
  <2>3. Became(Producer, "created", session[Producer].op, session[Producer].copy,
               session[Producer].step)
    BY <1>1, <2>1, <2>2, Goes
  <2> QED
    BY <2>3 DEF Became
<1>4. ~Born /\ request.status # "none"
  BY <1>1, Facts DEF ProducerOK
<1>5. \A p \in People : session'[p].pc = "idle" /\ session'[p].op = "none"
  BY <1>3, <1>4, Facts DEF PersonOK
<1>6. TypeOK'
  BY <1>1, <1>2, <1>3, Facts DEF StoreTyped, RestTyped, TypeOK
<1>7. \A s \in Actors : CopyOK(s)'
  BY <1>3, <1>5 DEF CopyOK, Live, Actors
<1>8. \A p \in People : PersonOK(p)'
  BY <1>5 DEF PersonOK
<1>9. ProducerOK' /\ CompleteMeansOutput'
  BY <1>1, <1>2, <1>3, <1>4 DEF ProducerOK, CompleteMeansOutput, At, Live
<1> QED
  BY <1>2, <1>6, <1>7, <1>8, <1>9 DEF DeliverablesInv

\* A later step of a chain, the producer's or one that a person resumed.
LEMMA NextStepStep ==
    ASSUME DeliverablesInv, NEW s \in Actors, NextStep(s)
    PROVE  DeliverablesInv'
<1>1. PICK n \in Nat : n = session[s].step
  BY Facts
<1>2. PICK copy \in Row : copy = session[s].copy
  BY Facts
<1>3. session[s].pc = "calling" /\ n > 0 /\ n + 1 \in 0 .. ChainLength
  <2>1. session[s].pc = "calling" /\ n > 0
    BY <1>1 DEF NextStep, At
  <2>2. n < ChainLength
    BY <1>1, <2>1, Facts DEF CopyOK
  <2> QED
    BY <1>1, <2>1, <2>2
<1>4. PICK status \in {"awaiting_human", "in_progress"} :
          status = IF n = ChainLength - 1 THEN "awaiting_human" ELSE "in_progress"
  OBVIOUS
<1>5. PICK new : new = [copy EXCEPT !.content = Fresh, !.status = status, !.meta.done = n + 1]
  OBVIOUS
<1>6. new \in Row /\ new.status = status
  <2>1. PICK meta : meta = [copy.meta EXCEPT !.done = n + 1]
    OBVIOUS
  <2>2. copy.meta \in [done : 0 .. ChainLength, codev : BOOLEAN]
    BY DEF Row
  <2>3. meta \in [done : 0 .. ChainLength, codev : BOOLEAN]
    BY <1>3, <2>1, <2>2
  <2>4. new = [copy EXCEPT !.content = Fresh, !.status = status, !.meta = meta]
    BY <1>5, <2>1
  <2>5. Fresh \in Nat
    BY Facts DEF Fresh, StoreTyped
  <2> QED
    BY <2>3, <2>4, <2>5 DEF Row, Statuses
<1>7. PICK pc \in {"finished", "calling"} :
          pc = IF n = ChainLength - 1 THEN "finished" ELSE "calling"
  OBVIOUS
<1>8. /\ AppendVersion(s, new, "chain") /\ Go(s, [pc |-> pc, step |-> n + 1, copy |-> head'])
      /\ UNCHANGED <<item, request, faults>>
  BY <1>1, <1>2, <1>4, <1>5, <1>7 DEF NextStep
<1>9. Born /\ Known(copy)
  <2>1. Live(s)
    BY <1>1, <1>3 DEF Live
  <2>2. Known(copy)
    BY <1>2, <2>1, Facts DEF CopyOK
  <2>3. Born
    BY <1>3, <2>1, Facts DEF PersonOK, ProducerOK, Actors
  <2> QED
    BY <2>2, <2>3
<1>10. /\ Kept
       /\ \A x \in Row : x = head' => Known(x)'
  <2>1. /\ StoreTyped /\ StoreOK /\ PeopleFinalize /\ GateClosesWhatWaits
        /\ session[s].copy \in Row /\ Known(session[s].copy)
    BY <1>2, <1>9, Facts DEF Known, Recorded, Snapped
  <2>2. new.status \in Statuses /\ "chain" \in Bys /\ new.status \notin Decided
    BY <1>6 DEF Statuses, Bys, Decided
  <2>3. /\ StoreTyped' /\ StoreOK' /\ Born'
        /\ \A x \in Row : Known(x) => Known(x)'
        /\ \A x \in Row : x = head' => Known(x)'
        /\ PeopleFinalize' /\ GateClosesWhatWaits'
    BY <1>6, <1>8, <1>9, <2>1, <2>2, AppendKeeps
  <2> QED
    BY <1>9, <2>3 DEF Kept, Born
<1>11. PICK x \in Row : x = head'
  BY <1>10 DEF Kept, StoreTyped
<1>12. Became(s, pc, session[s].op, x, n + 1)
  <2>1. Go(s, [pc |-> pc, step |-> n + 1, copy |-> x])
    BY <1>8, <1>11
  <2>2. PICK next \in 0 .. ChainLength : next = n + 1
    BY <1>3
  <2>3. pc \in Pcs /\ session[s].op \in Ops /\ session \in [Actors -> Session]
    BY Facts DEF Pcs
  <2>4. Became(s, pc, session[s].op, x, next)
    BY <2>1, <2>2, <2>3, Goes
  <2> QED
    BY <2>2, <2>4
<1>13. PICK op \in Ops : op = session[s].op
  BY Facts
<1>14. CopyGoes(pc, op, x, n + 1)
  <2>1. Known(x)'
    BY <1>10, <1>11
  <2>2. pc = "calling" => n + 1 < ChainLength
    BY <1>1, <1>3, <1>7
  <2> QED
    BY <2>1, <2>2 DEF CopyGoes
<1>15. s # Producer => PersonGoes(pc, op, n + 1) /\ request' = request
  BY <1>1, <1>3, <1>8, <1>9 DEF PersonGoes
<1>16. s = Producer => ProducerGoes(pc, n + 1)
  <2>1. ASSUME s = Producer
        PROVE  request'.status # "none"
    BY <1>3, <1>8, <2>1, Facts DEF ProducerOK
  <2> QED
    BY <1>1, <1>3, <1>9, <2>1 DEF ProducerGoes
<1>17. RestTyped' /\ faults' >= faults
  BY <1>8, Facts DEF RestTyped
<1> QED
  BY <1>3, <1>10, <1>12, <1>13, <1>14, <1>15, <1>16, <1>17, StepKeeps DEF Pcs

\* A person appends a version to the row that was loaded, which is known.
LEMMA PersonAppends ==
    ASSUME DeliverablesInv, NEW p \in People, session[p].pc = "loaded",
           NEW new \in Row, new.status \in Statuses, NEW by \in {"person", "resume", "gate"},
           by = "gate" => /\ session[p].copy.status = "awaiting_human"
                          /\ new.content = session[p].copy.content,
           AppendVersion(p, new, by)
    PROVE  Kept /\ Born /\ \A x \in Row : x = head' => Known(x)'
<1>1. p \in Actors /\ Born /\ Known(session[p].copy) /\ session[p].copy \in Row
  BY Facts DEF PersonOK, CopyOK, Live
<1>2. by \in Bys /\ by # "chain"
  BY DEF Bys
<1>3. /\ StoreTyped' /\ StoreOK' /\ Born'
      /\ \A x \in Row : Known(x) => Known(x)'
      /\ \A x \in Row : x = head' => Known(x)'
      /\ PeopleFinalize' /\ GateClosesWhatWaits'
  BY <1>1, <1>2, Facts, AppendKeeps
<1> QED
  BY <1>1, <1>3 DEF Kept, Born

\* A step of a person that leaves the request and the faults alone.
LEMMA PersonStep ==
    ASSUME DeliverablesInv, Kept, NEW p \in People, UNCHANGED <<request, faults>>,
           item' \in {"none", "pending", "approved", "executed", "rejected"},
           NEW pc \in Pcs, NEW op \in Ops, NEW copy \in Row, NEW step \in 0 .. ChainLength,
           Became(p, pc, op, copy, step), CopyGoes(pc, op, copy, step), PersonGoes(pc, op, step)
    PROVE  DeliverablesInv'
<1>1. p \in Actors /\ p # Producer /\ RestTyped' /\ faults' >= faults
  BY Facts DEF RestTyped
<1> QED
  BY <1>1, StepKeeps

\* A person's session ends.
LEMMA PersonEnds ==
    ASSUME DeliverablesInv, Kept, NEW p \in People, UNCHANGED <<request, faults>>,
           item' \in {"none", "pending", "approved", "executed", "rejected"}, End(p)
    PROVE  DeliverablesInv'
<1>1. NoHead \in Row /\ Became(p, "idle", "none", NoHead, 0)
  BY Facts, EndsGo
<1>2. /\ "idle" \in Pcs /\ "none" \in Ops /\ 0 \in 0 .. ChainLength
      /\ CopyGoes("idle", "none", NoHead, 0) /\ PersonGoes("idle", "none", 0)
  BY DEF Pcs, Ops, CopyGoes, PersonGoes
<1> QED
  BY <1>1, <1>2, PersonStep

\* Load, and the requests that append a version to what it loaded.
LEMMA LoadStep ==
    ASSUME DeliverablesInv, NEW p \in People, Load(p)
    PROVE  DeliverablesInv'
<1>1. /\ session[p].pc = "idle" /\ session[p].op = "none" /\ Born
      /\ Go(p, [pc |-> "loaded", copy |-> head]) /\ UNCHANGED <<store, item, request, faults>>
  BY Facts DEF Load, At, Born, PersonOK
<1>2. PICK x \in Row : x = head
  BY Facts DEF StoreTyped
<1>3. PICK step \in 0 .. ChainLength : step = session[p].step
  BY Facts
<1>4. Became(p, "loaded", "none", x, step)
  BY <1>1, <1>2, <1>3, Facts, Goes DEF Pcs
<1>5. Kept /\ item' = item
  BY <1>1, SameKeeps
<1>6. Known(x)'
  BY <1>1, <1>2, <1>5, Facts DEF Kept, StoreOK, Known, Recorded, Snapped
<1>7. CopyGoes("loaded", "none", x, step) /\ PersonGoes("loaded", "none", step)
  BY <1>1, <1>6 DEF CopyGoes, PersonGoes
<1>8. "loaded" \in Pcs /\ "none" \in Ops /\ item' \in {"none", "pending", "approved", "executed", "rejected"}
  BY <1>5, Facts DEF Pcs, Ops, RestTyped
<1> QED
  BY <1>1, <1>4, <1>5, <1>7, <1>8, PersonStep

\* A person's edit or rollback breaks nothing: what it writes to the head it snapshots.
LEMMA EditStep ==
    ASSUME DeliverablesInv, NEW p \in People, Edit(p) \/ Rollback(p)
    PROVE  DeliverablesInv'
<1>1. session[p].pc = "loaded" /\ End(p) /\ UNCHANGED <<item, request, faults>>
  BY DEF Edit, Rollback, At
<1>2. PICK copy \in Row : copy = session[p].copy
  BY Facts
<1>3. copy.status \in Statuses
  <2>1. Known(copy)
    BY <1>1, <1>2, Facts DEF CopyOK, Live
  <2> QED
    BY <2>1, Facts, KnownStatus
<1>4. \E status \in Statuses, content \in Nat :
          AppendVersion(p, [copy EXCEPT !.status = status, !.content = content], "person")
  <2>1. CASE Edit(p)
    <3>1. PICK status \in EditStatuses \cup {copy.status}, content \in {copy.content, Fresh} :
              AppendVersion(p, [copy EXCEPT !.status = status, !.content = content], "person")
      BY <1>2, <2>1 DEF Edit
    <3>2. status \in Statuses
      BY <1>3 DEF Statuses
    <3>3. content \in Nat
      BY Facts DEF Row, Fresh, StoreTyped
    <3> QED
      BY <3>1, <3>2, <3>3
  <2>2. CASE Rollback(p)
    <3>1. PICK v \in versions :
              AppendVersion(p, [copy EXCEPT !.status = v.status, !.content = v.content], "person")
      BY <1>2, <2>2 DEF Rollback
    <3>2. v.status \in Statuses /\ v.content \in Nat
      BY Facts DEF StoreTyped, Snapshot
    <3> QED
      BY <3>1, <3>2
  <2> QED
    BY <2>1, <2>2
<1>5. PICK status \in Statuses, content \in Nat :
          AppendVersion(p, [copy EXCEPT !.status = status, !.content = content], "person")
  BY <1>4
<1>6. PICK new : new = [copy EXCEPT !.status = status, !.content = content]
  OBVIOUS
<1>7. new \in Row /\ new.status \in Statuses
  BY <1>6 DEF Row
<1>8. AppendVersion(p, new, "person")
  BY <1>5, <1>6
<1>9. Kept
  BY <1>1, <1>7, <1>8, PersonAppends
<1>10. item' \in {"none", "pending", "approved", "executed", "rejected"}
  BY <1>1, Facts DEF RestTyped
<1> QED
  BY <1>1, <1>9, <1>10, PersonEnds

\* resume, with its chain or without.
LEMMA AcceptStep ==
    ASSUME DeliverablesInv, NEW p \in People, Accept(p) \/ Resume(p)
    PROVE  DeliverablesInv'
<1>1. /\ session[p].pc = "loaded" /\ session[p].op = "none"
      /\ UNCHANGED <<item, request, faults>>
  BY DEF Accept, Resume, At
<1>2. PICK copy \in Row : copy = session[p].copy
  BY Facts
<1>3. PICK step \in 0 .. ChainLength : step = session[p].step
  BY Facts
<1>4. Fresh \in Nat
  BY Facts DEF Fresh, StoreTyped
<1>5. item' \in {"none", "pending", "approved", "executed", "rejected"}
  BY <1>1, Facts DEF RestTyped
<1>6. ASSUME NEW status \in {"approved", "in_progress"},
             AppendVersion(p, [copy EXCEPT !.status = status, !.content = Fresh], "resume")
      PROVE  Kept /\ Born /\ \A x \in Row : x = head' => Known(x)'
  <2>1. PICK new : new = [copy EXCEPT !.status = status, !.content = Fresh]
    OBVIOUS
  <2>2. new \in Row /\ new.status \in Statuses
    BY <1>4, <2>1 DEF Row, Statuses
  <2>3. AppendVersion(p, new, "resume")
    BY <1>6, <2>1
  <2> QED
    BY <1>1, <2>2, <2>3, PersonAppends
<1>7. CASE Accept(p)
  <2>1. /\ AppendVersion(p, [copy EXCEPT !.status = "approved", !.content = Fresh], "resume")
        /\ Go(p, [pc |-> "answering", op |-> "accept", copy |-> NoHead])
    BY <1>2, <1>7 DEF Accept
  <2>2. Kept /\ Born
    BY <1>6, <2>1
  <2>3. Became(p, "answering", "accept", NoHead, step)
    BY <1>3, <2>1, Facts, Goes DEF Pcs, Ops
  <2>4. /\ CopyGoes("answering", "accept", NoHead, step)
        /\ PersonGoes("answering", "accept", step)
        /\ "answering" \in Pcs /\ "accept" \in Ops /\ NoHead \in Row
    BY <2>2, Facts DEF CopyGoes, PersonGoes, Pcs, Ops
  <2> QED
    BY <1>1, <1>5, <2>2, <2>3, <2>4, PersonStep
<1>8. CASE Resume(p)
  <2>1. /\ AppendVersion(p, [copy EXCEPT !.status = "in_progress", !.content = Fresh], "resume")
        /\ Go(p, [pc |-> "resumed", copy |-> head'])
    BY <1>2, <1>8 DEF Resume
  <2>2. Kept /\ Born /\ \A x \in Row : x = head' => Known(x)'
    BY <1>6, <2>1
  <2>3. PICK x \in Row : x = head'
    BY <2>2 DEF Kept, StoreTyped
  <2>4. Go(p, [pc |-> "resumed", copy |-> x])
    BY <2>1, <2>3
  <2>5. Became(p, "resumed", "none", x, step)
    BY <1>1, <1>3, <2>4, Facts, Goes DEF Pcs
  <2>6. Known(x)'
    BY <2>2, <2>3
  <2>7. /\ CopyGoes("resumed", "none", x, step) /\ PersonGoes("resumed", "none", step)
        /\ "resumed" \in Pcs /\ "none" \in Ops
    BY <2>2, <2>6 DEF CopyGoes, PersonGoes, Pcs, Ops
  <2> QED
    BY <1>1, <1>5, <2>2, <2>5, <2>7, PersonStep
<1> QED
  BY <1>7, <1>8

\* The rest of a resumed chain, up to the answer.
LEMMA ResumedStep ==
    ASSUME DeliverablesInv, NEW p \in People, RunRest(p) \/ Resumed(p)
    PROVE  DeliverablesInv'
<1>1. /\ session[p].pc \in {"resumed", "finished"}
      /\ UNCHANGED <<store, item, request, faults>>
  BY DEF RunRest, Resumed, At
<1>2. PICK op \in Ops : op = session[p].op
  BY Facts
<1>3. PICK step \in 0 .. ChainLength : step = session[p].step
  BY Facts
<1>4. Born /\ Kept
  BY <1>1, Facts, SameKeeps DEF PersonOK
<1>5. item' \in {"none", "pending", "approved", "executed", "rejected"}
  BY <1>1, Facts DEF RestTyped
<1>6. ASSUME NEW n \in 0 .. ChainLength, Became(p, "answering", op, NoHead, n)
      PROVE  DeliverablesInv'
  <2>1. /\ CopyGoes("answering", op, NoHead, n) /\ PersonGoes("answering", op, n)
        /\ "answering" \in Pcs /\ NoHead \in Row
    BY <1>4, Facts DEF CopyGoes, PersonGoes, Pcs
  <2> QED
    BY <1>1, <1>4, <1>5, <1>6, <2>1, PersonStep
<1>7. CASE Resumed(p)
  <2>1. Go(p, [pc |-> "answering", copy |-> NoHead, step |-> 0])
    BY <1>7 DEF Resumed
  <2>2. 0 \in 0 .. ChainLength
    OBVIOUS
  <2>3. Became(p, "answering", op, NoHead, 0)
    BY <1>2, <2>1, <2>2, Facts, Goes DEF Pcs
  <2> QED
    BY <1>6, <2>2, <2>3
<1>8. CASE RunRest(p)
  <2> DEFINE done == session[p].copy.meta.done
  <2>1. CASE done \in 1 .. ChainLength - 1
    <3>1. PICK x \in Row : x = head
      BY Facts DEF StoreTyped
    <3>2. PICK n \in 1 .. ChainLength - 1 : n = done
      BY <2>1
    <3>3. n \in 0 .. ChainLength /\ n > 0 /\ n < ChainLength
      OBVIOUS
    <3>4. Go(p, [pc |-> "calling", copy |-> x, step |-> n])
      BY <1>8, <2>1, <3>1, <3>2 DEF RunRest
    <3>5. Became(p, "calling", op, x, n)
      BY <1>2, <3>3, <3>4, Facts, Goes DEF Pcs
    <3>6. Known(x)'
      BY <1>1, <1>4, <3>1, Facts DEF store, StoreOK, Known, Recorded, Snapped
    <3>7. CopyGoes("calling", op, x, n) /\ PersonGoes("calling", op, n) /\ "calling" \in Pcs
      BY <1>4, <3>3, <3>6 DEF CopyGoes, PersonGoes, Pcs
    <3> QED
      BY <1>1, <1>4, <1>5, <3>3, <3>5, <3>7, PersonStep
  <2>2. CASE done \notin 1 .. ChainLength - 1
    <3>1. Go(p, [pc |-> "answering", copy |-> NoHead])
      BY <1>8, <2>2 DEF RunRest
    <3>2. Became(p, "answering", op, NoHead, step)
      BY <1>2, <1>3, <3>1, Facts, Goes DEF Pcs
    <3> QED
      BY <1>6, <3>2
  <2> QED
    BY <2>1, <2>2
<1> QED
  BY <1>7, <1>8

\* The answer of a resume, and the link it may store before.
LEMMA AnswerStep ==
    ASSUME DeliverablesInv, NEW p \in People, Answer(p) \/ LoadForLink(p) \/ LinkAnswer(p)
    PROVE  DeliverablesInv'
<1>1. /\ session[p].pc \in {"answering", "linking"} /\ Born
      /\ UNCHANGED <<item, request, faults>>
  BY Facts DEF Answer, LoadForLink, LinkAnswer, At, PersonOK
<1>2. item' \in {"none", "pending", "approved", "executed", "rejected"}
  BY <1>1, Facts DEF RestTyped
<1>3. CASE Answer(p)
  <2>1. End(p) /\ Kept
    BY <1>1, <1>3, SameKeeps DEF Answer
  <2> QED
    BY <1>1, <1>2, <2>1, PersonEnds
<1>4. CASE LoadForLink(p)
  <2>1. PICK x \in Row : x = head
    BY Facts DEF StoreTyped
  <2>2. PICK op \in Ops : op = session[p].op
    BY Facts
  <2>3. PICK step \in 0 .. ChainLength : step = session[p].step
    BY Facts
  <2>4. Go(p, [pc |-> "linking", copy |-> x]) /\ UNCHANGED store
    BY <1>4, <2>1 DEF LoadForLink
  <2>5. Became(p, "linking", op, x, step)
    BY <2>2, <2>3, <2>4, Facts, Goes DEF Pcs
  <2>6. Kept
    BY <1>1, <2>4, SameKeeps
  <2>7. Known(x)'
    BY <1>1, <2>1, <2>4, Facts DEF store, StoreOK, Known, Recorded, Snapped
  <2>8. CopyGoes("linking", op, x, step) /\ PersonGoes("linking", op, step) /\ "linking" \in Pcs
    BY <1>1, <2>7 DEF CopyGoes, PersonGoes, Pcs
  <2> QED
    BY <1>1, <1>2, <2>5, <2>6, <2>8, PersonStep
<1>5. CASE LinkAnswer(p)
  <2>1. session[p].pc = "linking" /\ WriteLink(p) /\ End(p)
    BY <1>5 DEF LinkAnswer, At
  <2>2. p \in Actors /\ session[p].copy \in Row /\ Known(session[p].copy)
    BY <2>1, Facts DEF CopyOK, Live
  <2>3. /\ StoreTyped' /\ StoreOK' /\ Born'
        /\ \A x \in Row : Known(x) => Known(x)'
        /\ PeopleFinalize' /\ GateClosesWhatWaits'
    BY <1>1, <2>1, <2>2, Facts, LinkKeeps
  <2>4. Kept
    BY <1>1, <2>3 DEF Kept, Born
  <2> QED
    BY <1>1, <1>2, <2>1, <2>4, PersonEnds
<1> QED
  BY <1>3, <1>4, <1>5

\* The decision of the gate's item, and what it does to the deliverable.
LEMMA DecideStep ==
    ASSUME DeliverablesInv, NEW p \in People,
           \/ \E verdict \in {"approved", "rejected"} : Decide(p, verdict)
           \/ FinalizeLoad(p) \/ Finalize(p)
    PROVE  DeliverablesInv'
<1>1. UNCHANGED <<request, faults>>
  BY DEF Decide, FinalizeLoad, Finalize
<1>2. PICK copy \in Row : copy = session[p].copy
  BY Facts
<1>3. PICK op \in Ops : op = session[p].op
  BY Facts
<1>4. PICK step \in 0 .. ChainLength : step = session[p].step
  BY Facts
<1>5. item \in {"none", "pending", "approved", "executed", "rejected"}
  BY Facts DEF RestTyped
<1>6. ASSUME NEW verdict \in {"approved", "rejected"}, Decide(p, verdict)
      PROVE  DeliverablesInv'
  <2>1. /\ item = "pending" /\ item' = verdict
        /\ Go(p, [pc |-> "deciding", op |-> verdict]) /\ UNCHANGED store
    BY <1>6 DEF Decide
  <2>2. Born
    BY <2>1, Facts DEF StoreOK
  <2>3. Kept
    BY <2>1, <2>2, SameKeeps
  <2>4. Became(p, "deciding", verdict, copy, step)
    BY ZenonT(40), <1>2, <1>4, <2>1, Facts, Goes DEF Pcs, Ops
  <2>5. /\ CopyGoes("deciding", verdict, copy, step) /\ PersonGoes("deciding", verdict, step)
        /\ "deciding" \in Pcs /\ verdict \in Ops
        /\ item' \in {"none", "pending", "approved", "executed", "rejected"}
    BY <2>1, <2>2 DEF CopyGoes, PersonGoes, Pcs, Ops
  <2> QED
    BY <1>1, <2>3, <2>4, <2>5, PersonStep
<1>7. CASE FinalizeLoad(p)
  <2>1. Born /\ UNCHANGED store
    BY <1>7, Facts DEF FinalizeLoad, At, PersonOK
  <2>2. Kept
    BY <2>1, SameKeeps
  <2>3. CASE head.status = "awaiting_human"
    <3>1. PICK x \in Row : x = head
      BY Facts DEF StoreTyped
    <3>2. Go(p, [pc |-> "loaded", copy |-> x]) /\ item' = item
      BY <1>7, <2>3, <3>1 DEF FinalizeLoad
    <3>3. Became(p, "loaded", op, x, step)
      BY <1>3, <1>4, <3>2, Facts, Goes DEF Pcs
    <3>4. Known(x)'
      BY <2>1, <3>1, Facts DEF store, StoreOK, Known, Recorded, Snapped
    <3>5. CopyGoes("loaded", op, x, step) /\ PersonGoes("loaded", op, step) /\ "loaded" \in Pcs
      BY <2>1, <2>3, <3>1, <3>4 DEF CopyGoes, PersonGoes, Pcs
    <3> QED
      BY <1>1, <1>5, <2>2, <3>2, <3>3, <3>5, PersonStep
  <2>4. CASE head.status # "awaiting_human"
    <3>1. End(p) /\ item' \in {"executed", item}
      BY <1>7, <2>4 DEF FinalizeLoad
    <3> QED
      BY <1>1, <1>5, <2>2, <3>1, PersonEnds
  <2> QED
    BY <2>3, <2>4
<1>8. CASE Finalize(p)
  <2>1. /\ session[p].pc = "loaded" /\ op \in {"approved", "rejected"}
        /\ AppendVersion(p, [copy EXCEPT !.status = op], "gate")
        /\ item' \in {"executed", item} /\ End(p)
    BY <1>2, <1>3, <1>8 DEF Finalize, At
  <2>2. copy.status = "awaiting_human"
    BY <1>2, <1>3, <2>1, Facts DEF CopyOK
  <2>3. PICK new : new = [copy EXCEPT !.status = op]
    OBVIOUS
  <2>4. new \in Row /\ new.status \in Statuses /\ new.content = copy.content
    BY <2>1, <2>3 DEF Row, Statuses
  <2>5. AppendVersion(p, new, "gate")
    BY <2>1, <2>3
  <2>6. Kept
    BY <1>2, <2>1, <2>2, <2>4, <2>5, PersonAppends
  <2> QED
    BY <1>1, <1>5, <2>1, <2>6, PersonEnds
<1> QED
  BY <1>6, <1>7, <1>8

\* A step of the producer that comes to a state in order.
LEMMA ProducerStep ==
    ASSUME DeliverablesInv, Kept, RestTyped', faults' >= faults,
           NEW pc \in Pcs, NEW op \in Ops, NEW copy \in Row, NEW step \in 0 .. ChainLength,
           Became(Producer, pc, op, copy, step), CopyGoes(pc, op, copy, step),
           ProducerGoes(pc, step)
    PROVE  DeliverablesInv'
<1>1. Producer \in Actors
  BY Facts
<1> QED
  BY <1>1, StepKeeps

\* The producer's session ends.
LEMMA ProducerEnds ==
    ASSUME DeliverablesInv, Kept, RestTyped', faults' >= faults, End(Producer),
           request'.status # "none",
           request'.status = "complete" => request'.output \/ faults' > 0
    PROVE  DeliverablesInv'
<1>1. NoHead \in Row /\ Became(Producer, "over", "none", NoHead, 0)
  BY Facts, EndsGo
<1>2. /\ "over" \in Pcs /\ "none" \in Ops /\ 0 \in 0 .. ChainLength
      /\ CopyGoes("over", "none", NoHead, 0) /\ ProducerGoes("over", 0)
  BY DEF Pcs, Ops, CopyGoes, ProducerGoes
<1> QED
  BY <1>1, <1>2, ProducerStep

\* A fault is counted.
LEMMA FaultCounts ==
    ASSUME DeliverablesInv, Fault
    PROVE  faults' \in 0 .. MaxFaults /\ faults' > 0 /\ faults' >= faults
BY DEF DeliverablesInv, TypeOK, Fault

\* An update of the request gets through, or is lost and counted.
LEMMA UpdateIs ==
    ASSUME DeliverablesInv, NEW new, Update(new)
    PROVE  /\ request' = new \/ request' = request
           /\ request' # new => faults' > 0
           /\ faults' \in 0 .. MaxFaults /\ faults' >= faults
<1>1. faults \in 0 .. MaxFaults
  BY DEF DeliverablesInv, TypeOK
<1> QED
  BY <1>1, FaultCounts DEF Update

\* An agent that fails ends the chain where it is.
LEMMA AgentFailsStep ==
    ASSUME DeliverablesInv, NEW s \in Actors, AgentFails(s)
    PROVE  DeliverablesInv'
<1>1. session[s].pc = "calling" /\ UNCHANGED <<store, item>>
  BY DEF AgentFails, At
<1>2. Kept
  BY <1>1, SameKeeps
<1>3. PICK op \in Ops : op = session[s].op
  BY Facts
<1>4. PICK copy \in Row : copy = session[s].copy
  BY Facts
<1>5. PICK step \in 0 .. ChainLength : step = session[s].step
  BY Facts
<1>6. CASE step = 0
  <2>1. s = Producer
    <3>1. ASSUME s \in People
          PROVE  FALSE
      <4>1. session[s].step > 0
        BY <1>1, <3>1, Facts DEF PersonOK
      <4> QED
        BY <1>5, <1>6, <4>1
    <3> QED
      BY <3>1 DEF Actors
  <2>2. End(Producer) /\ Update([request EXCEPT !.status = "failed"])
    BY <1>5, <1>6, <2>1 DEF AgentFails
  <2>3. PICK failed : failed = [request EXCEPT !.status = "failed"]
    OBVIOUS
  <2>4. /\ request' = failed \/ (request' = request /\ faults' > 0)
        /\ faults' \in 0 .. MaxFaults /\ faults' >= faults
    BY <2>2, <2>3, UpdateIs
  <2>5. RestTyped'
    <3>1. failed \in [status : {"none", "processing", "complete", "failed"}, output : BOOLEAN]
      BY <2>3, Facts DEF RestTyped
    <3>2. item' = item
      BY <1>1 DEF AgentFails
    <3> QED
      BY <2>4, <3>1, <3>2, Facts DEF RestTyped
  <2>6. request'.status = "complete" => faults' > 0 \/ request'.output
    BY <2>3, <2>4, Facts DEF RestTyped
  <2>7. request'.status # "none"
    BY <1>1, <2>1, <2>3, <2>4, Facts DEF RestTyped, ProducerOK
  <2> QED
    BY <1>2, <2>2, <2>4, <2>5, <2>6, <2>7, ProducerEnds
<1>7. CASE step # 0
  <2>1. Go(s, [pc |-> "finished"]) /\ UNCHANGED <<request, faults>>
    BY <1>5, <1>7 DEF AgentFails
  <2>2. Became(s, "finished", op, copy, step)
    BY <1>3, <1>4, <1>5, <2>1, Facts, Goes DEF Pcs
  <2>3. Live(s)
    BY <1>1, <1>5, <1>7 DEF Live
  <2>4. Known(copy) /\ Born
    BY <1>1, <1>4, <2>3, Facts DEF CopyOK, PersonOK, ProducerOK, Actors, Known, Recorded, Snapped
  <2>5. Known(copy)'
    BY <1>2, <2>4 DEF Kept
  <2>6. CopyGoes("finished", op, copy, step) /\ "finished" \in Pcs
    BY <2>5 DEF CopyGoes, Pcs
  <2>7. s # Producer => PersonGoes("finished", op, step) /\ request' = request
    BY <2>1, <2>4 DEF PersonGoes
  <2>8. s = Producer => ProducerGoes("finished", step)
    BY <1>1, <2>1, <2>4, Facts DEF ProducerGoes, ProducerOK
  <2>9. RestTyped' /\ faults' >= faults
    BY <1>1, <2>1, Facts DEF RestTyped
  <2> QED
    BY <1>2, <2>2, <2>6, <2>7, <2>8, <2>9, StepKeeps
<1> QED
  BY <1>6, <1>7

\* A request is submitted and dispatched before there is a deliverable.
LEMMA DispatchStep ==
    ASSUME DeliverablesInv, Submit \/ Dispatch
    PROVE  DeliverablesInv'
<1>1. ~Born /\ UNCHANGED <<store, item>>
  BY Facts DEF Submit, Dispatch, At, Born, ProducerOK
<1>2. Kept
  BY <1>1, SameKeeps
<1>3. PICK op \in Ops : op = session[Producer].op
  BY Facts
<1>4. PICK copy \in Row : copy = session[Producer].copy
  BY Facts
<1>5. PICK step \in 0 .. ChainLength : step = session[Producer].step
  BY Facts
<1>6. \/ request' = [request EXCEPT !.status = "processing"] /\ faults' = faults
      \/ Dispatch /\ Update([request EXCEPT !.status = "complete"])
  BY DEF Submit, Dispatch
<1>7. RestTyped' /\ request'.status # "none" /\ faults' >= faults
  <2>1. CASE request' = [request EXCEPT !.status = "processing"] /\ faults' = faults
    BY <1>1, <2>1, Facts DEF RestTyped
  <2>2. CASE Dispatch /\ Update([request EXCEPT !.status = "complete"])
    <3>1. PICK done : done = [request EXCEPT !.status = "complete"]
      OBVIOUS
    <3>2. /\ request' = done \/ request' = request
          /\ faults' \in 0 .. MaxFaults /\ faults' >= faults
      BY <2>2, <3>1, UpdateIs
    <3>3. request.status # "none"
      BY <2>2, Facts DEF Dispatch, At, ProducerOK
    <3> QED
      BY <1>1, <3>1, <3>2, <3>3, Facts DEF RestTyped
  <2> QED
    BY <1>6, <2>1, <2>2
<1>8. CASE Submit
  <2>1. Became(Producer, "dispatched", op, copy, step)
    BY <1>3, <1>4, <1>5, <1>8, Facts, Goes DEF Submit, Pcs
  <2>2. /\ CopyGoes("dispatched", op, copy, step) /\ ProducerGoes("dispatched", step)
        /\ "dispatched" \in Pcs
    BY <1>1, <1>7 DEF CopyGoes, ProducerGoes, Pcs
  <2> QED
    BY <1>2, <1>7, <2>1, <2>2, ProducerStep
<1>9. CASE Dispatch
  <2>1. 0 \in 0 .. ChainLength /\ 0 < ChainLength
    OBVIOUS
  <2>2. Became(Producer, "calling", op, copy, 0)
    BY <1>3, <1>4, <1>9, <2>1, Facts, Goes DEF Dispatch, Pcs
  <2>3. /\ CopyGoes("calling", op, copy, 0) /\ ProducerGoes("calling", 0) /\ "calling" \in Pcs
    BY <1>1, <1>7, <2>1 DEF CopyGoes, ProducerGoes, Pcs
  <2> QED
    BY <1>2, <1>7, <2>1, <2>2, <2>3, ProducerStep
<1> QED
  BY <1>8, <1>9

\* The lineage is written and, after a chain that ran to its end, the link.
LEMMA LabelStep ==
    ASSUME DeliverablesInv, Label(Producer) \/ StoreLink
    PROVE  DeliverablesInv'
<1>1. /\ session[Producer].pc \in {"created", "finished"}
      /\ UNCHANGED <<item, request, faults>>
  BY DEF Label, StoreLink, At
<1>2. PICK op \in Ops : op = session[Producer].op
  BY Facts
<1>3. PICK step \in 0 .. ChainLength : step = session[Producer].step
  BY Facts
<1>4. Born /\ request.status # "none" /\ Producer \in Actors
  BY <1>1, Facts DEF ProducerOK, Live
<1>5. RestTyped' /\ request'.status # "none" /\ faults' >= faults
  BY <1>1, <1>4, Facts DEF RestTyped
<1>6. CASE Label(Producer)
  <2>1. /\ head' = [head EXCEPT !.meta = [NoHead.meta EXCEPT !.done = 1]]
        /\ Go(Producer, [pc |-> "calling", step |-> 1, copy |-> head'])
        /\ UNCHANGED <<versions, writes, raced>>
    BY <1>6 DEF Label
  <2>2. PICK meta : meta = [NoHead.meta EXCEPT !.done = 1]
    OBVIOUS
  <2>3. 1 \in 0 .. ChainLength /\ 1 < ChainLength /\ 1 > 0
    OBVIOUS
  <2>4. meta \in [done : 0 .. ChainLength, codev : BOOLEAN]
    BY <2>2, <2>3 DEF NoHead
  <2>5. PICK new : new = [head EXCEPT !.meta = meta]
    OBVIOUS
  <2>6. /\ new \in Row /\ new.status = head.status /\ new.version = head.version
        /\ new.content = head.content
    BY <2>4, <2>5, Facts DEF StoreTyped, Row
  <2>7. head' = new
    BY <2>1, <2>2, <2>5
  <2>8. /\ StoreTyped' /\ StoreOK' /\ Born'
        /\ \A x \in Row : Known(x) => Known(x)'
        /\ \A x \in Row : x = head' => Known(x)'
        /\ PeopleFinalize' /\ GateClosesWhatWaits'
    BY <1>4, <2>1, <2>6, <2>7, Facts, MetaKeeps
  <2>9. Kept
    BY <1>4, <2>8 DEF Kept, Born
  <2>10. Go(Producer, [pc |-> "calling", step |-> 1, copy |-> new])
    BY <2>1, <2>7
  <2>11. Became(Producer, "calling", op, new, 1)
    BY <1>2, <2>3, <2>6, <2>10, Facts, Goes DEF Pcs
  <2>12. /\ CopyGoes("calling", op, new, 1) /\ ProducerGoes("calling", 1) /\ "calling" \in Pcs
    BY <1>4, <1>5, <2>3, <2>6, <2>7, <2>8 DEF CopyGoes, ProducerGoes, Pcs
  <2> QED
    BY <1>5, <2>3, <2>6, <2>9, <2>11, <2>12, ProducerStep
<1>7. CASE StoreLink
  <2>1. /\ session[Producer].pc = "finished" /\ WriteLink(Producer)
        /\ Go(Producer, [pc |-> "authored", copy |-> head'])
    BY <1>7 DEF StoreLink, At
  <2>2. session[Producer].copy \in Row /\ Known(session[Producer].copy)
    BY <1>4, <2>1, Facts DEF CopyOK, Live
  <2>3. /\ StoreTyped' /\ StoreOK' /\ Born'
        /\ \A x \in Row : Known(x) => Known(x)'
        /\ \A x \in Row : x = head' => Known(x)'
        /\ PeopleFinalize' /\ GateClosesWhatWaits'
    BY <1>4, <2>1, <2>2, Facts, LinkKeeps
  <2>4. Kept
    BY <1>4, <2>3 DEF Kept, Born
  <2>5. PICK x \in Row : x = head'
    BY <2>3 DEF StoreTyped
  <2>6. Go(Producer, [pc |-> "authored", copy |-> x]) /\ Known(x)'
    BY <2>1, <2>3, <2>5
  <2>7. Became(Producer, "authored", op, x, step)
    BY <1>2, <1>3, <2>6, Facts, Goes DEF Pcs
  <2>8. /\ CopyGoes("authored", op, x, step) /\ ProducerGoes("authored", step)
        /\ "authored" \in Pcs
    BY <1>4, <1>5, <2>6 DEF CopyGoes, ProducerGoes, Pcs
  <2> QED
    BY <1>5, <2>4, <2>7, <2>8, ProducerStep
<1> QED
  BY <1>6, <1>7

\* The request is linked to its deliverable, or the update that does it is lost.
LEMMA LinkStep ==
    ASSUME DeliverablesInv, Link
    PROVE  DeliverablesInv'
<1>1. /\ session[Producer].pc \in {"finished", "authored"} /\ UNCHANGED <<store, item>>
      /\ Go(Producer, [pc |-> "linked"])
  BY DEF Link, At
<1>2. PICK op \in Ops : op = session[Producer].op
  BY Facts
<1>3. PICK copy \in Row : copy = session[Producer].copy
  BY Facts
<1>4. PICK step \in 0 .. ChainLength : step = session[Producer].step
  BY Facts
<1>5. Kept /\ Producer \in Actors /\ Live(Producer)
  BY <1>1, Facts, SameKeeps DEF Live
<1>6. Born /\ request.status # "none" /\ Known(copy)
  BY <1>1, <1>3, <1>5, Facts DEF ProducerOK, CopyOK, Known, Recorded, Snapped
<1>7. /\ RestTyped' /\ request'.status # "none" /\ faults' >= faults
      /\ request'.output \/ faults' > 0
  <2>1. CASE request' = [status |-> "complete", output |-> TRUE] /\ faults' = faults
    BY <1>1, <2>1, Facts DEF RestTyped
  <2>2. CASE Fault /\ request' = request
    <3>1. faults' \in 0 .. MaxFaults /\ faults' > 0 /\ faults' >= faults
      BY <2>2, FaultCounts
    <3> QED
      BY <1>1, <1>6, <2>2, <3>1, Facts DEF RestTyped
  <2> QED
    BY <2>1, <2>2 DEF Link, Update
<1>8. Became(Producer, "linked", op, copy, step)
  BY <1>1, <1>2, <1>3, <1>4, Facts, Goes DEF Pcs
<1>9. Known(copy)'
  BY <1>5, <1>6 DEF Kept
<1>10. /\ CopyGoes("linked", op, copy, step) /\ ProducerGoes("linked", step) /\ "linked" \in Pcs
  BY <1>6, <1>7, <1>9 DEF CopyGoes, ProducerGoes, Pcs
<1> QED
  BY <1>5, <1>7, <1>8, <1>10, ProducerStep

\* The gate opens, in one of its forms, or there is none to open.
LEMMA GateStep ==
    ASSUME DeliverablesInv, OpenGate \/ NoGate
    PROVE  DeliverablesInv'
<1>1. session[Producer].pc = "linked" /\ End(Producer) /\ request' = request
  BY DEF OpenGate, NoGate, At
<1>2. /\ Born /\ request'.status # "none" /\ faults \in Nat
      /\ request'.output \/ faults > 0
  BY <1>1, Facts DEF ProducerOK, Live, DeliverablesInv, TypeOK
<1>3. ASSUME Kept, item' \in {item, "pending"}, faults' = faults \/ Fault
      PROVE  DeliverablesInv'
  <2>1. faults' \in 0 .. MaxFaults /\ faults' >= faults
    BY <1>3, FaultCounts, Facts DEF RestTyped
  <2>2. RestTyped'
    BY <1>1, <1>3, <2>1, Facts DEF RestTyped
  <2>3. request'.output \/ faults' > 0
    BY <1>2, <2>1
  <2> QED
    BY <1>1, <1>2, <1>3, <2>1, <2>2, <2>3, ProducerEnds
<1>4. CASE UNCHANGED store /\ item' \in {item, "pending"} /\ (faults' = faults \/ Fault)
  BY <1>2, <1>3, <1>4, SameKeeps
<1>5. CASE /\ head' = [head EXCEPT !.meta.codev = TRUE]
           /\ UNCHANGED <<versions, writes, raced, item, faults>>
  <2>1. PICK meta : meta = [head.meta EXCEPT !.codev = TRUE]
    OBVIOUS
  <2>2. head \in Row /\ head.meta \in [done : 0 .. ChainLength, codev : BOOLEAN]
    BY Facts DEF StoreTyped, Row
  <2>3. meta \in [done : 0 .. ChainLength, codev : BOOLEAN]
    BY <2>1, <2>2
  <2>4. PICK new : new = [head EXCEPT !.meta = meta]
    OBVIOUS
  <2>5. /\ new \in Row /\ new.status = head.status /\ new.version = head.version
        /\ new.content = head.content
    BY <2>2, <2>3, <2>4 DEF Row
  <2>6. head' = new
    BY <1>5, <2>1, <2>4
  <2>7. /\ StoreTyped' /\ StoreOK' /\ Born'
        /\ \A x \in Row : Known(x) => Known(x)'
        /\ PeopleFinalize' /\ GateClosesWhatWaits'
    BY <1>2, <1>5, <2>5, <2>6, Facts, MetaKeeps
  <2>8. Kept
    BY <1>2, <2>7 DEF Kept, Born
  <2> QED
    BY <1>3, <1>5, <2>8
<1> QED
  BY <1>4, <1>5 DEF OpenGate, NoGate

\* A process dies with its session.
LEMMA CrashStep ==
    ASSUME DeliverablesInv, NEW s \in Actors, Crash(s)
    PROVE  DeliverablesInv'
<1>1. session[s].pc \notin {"idle", "over"} /\ End(s) /\ UNCHANGED <<store, item, request>>
  BY DEF Crash
<1>2. Kept
  BY <1>1, SameKeeps
<1>3. CASE s = Producer
  <2>1. faults' \in 0 .. MaxFaults /\ faults' > 0 /\ faults' >= faults
    BY <1>3, FaultCounts DEF Crash
  <2>2. RestTyped' /\ request'.status # "none"
    BY <1>1, <1>3, <2>1, Facts DEF RestTyped, ProducerOK
  <2> QED
    BY <1>1, <1>2, <1>3, <2>1, <2>2, ProducerEnds
<1>4. CASE s # Producer
  <2>1. s \in People /\ UNCHANGED <<request, faults>>
    BY <1>1, <1>4 DEF Crash, Actors
  <2>2. item' \in {"none", "pending", "approved", "executed", "rejected"}
    BY <1>1, Facts DEF RestTyped
  <2> QED
    BY <1>1, <1>2, <2>1, <2>2, PersonEnds
<1> QED
  BY <1>3, <1>4

\* No step breaks the invariant: those of people, then those of the producer.
LEMMA DeliverablesStep ==
    ASSUME DeliverablesInv, [Next]_vars
    PROVE  DeliverablesInv'
<1>1. \A p \in People : p \in Actors
  BY Facts
<1>2. Producer \in Actors
  BY Facts
<1>3. CASE Produce
  BY <1>2, <1>3, DispatchStep, FirstStepStep, LabelStep, NextStepStep, AgentFailsStep, LinkStep, GateStep
  DEF Produce
<1>4. CASE UNCHANGED vars
  BY <1>4 DEF vars, DeliverablesInv, TypeOK, StoreOK, Born, Known, Recorded, Snapped, CopyOK, Live,
              PersonOK, ProducerOK, PeopleFinalize, GateClosesWhatWaits, CompleteMeansOutput, At
<1> QED
  BY <1>1, <1>3, <1>4, DispatchStep, CreateByHandStep, LoadStep, EditStep, AcceptStep, ResumedStep,
     NextStepStep, AgentFailsStep, AnswerStep, DecideStep, CrashStep DEF Next

\* In every state what the head shows is known, and each session's copy with it.
LEMMA DeliverablesInvariant == Spec => []DeliverablesInv
BY DeliverablesStart, DeliverablesStep, PTL DEF Spec

-----------------------------------------------------------------------------

\* The deliverable, its snapshots, the gate's item, the request and every session are of
\* their types, whoever writes over whom.
THEOREM TypeCorrect == Spec => []TypeOK
<1>1. DeliverablesInv => TypeOK
  BY DEF DeliverablesInv
<1> QED
  BY <1>1, DeliverablesInvariant, PTL

\* A chain of agents finalizes nothing: a decided status was set by a person or the gate.
THEOREM PeopleFinalizeProved == Spec => []PeopleFinalize
<1>1. DeliverablesInv => PeopleFinalize
  BY DEF DeliverablesInv
<1> QED
  BY <1>1, DeliverablesInvariant, PTL

\* Unless a session wrote over another, what the queue approves or rejects is a version
\* that waited for it, unchanged.
THEOREM GateClosesWhatWaitsProved == Spec => []GateClosesWhatWaits
<1>1. DeliverablesInv => GateClosesWhatWaits
  BY DEF DeliverablesInv
<1> QED
  BY <1>1, DeliverablesInvariant, PTL

\* A request that stays complete has its output, or a fault explains that it has none.
THEOREM CompleteMeansOutputProved == Spec => []CompleteMeansOutput
<1>1. DeliverablesInv => CompleteMeansOutput
  BY DEF DeliverablesInv
<1> QED
  BY <1>1, DeliverablesInvariant, PTL
-----------------------------------------------------------------------------
(* The history.  Every write of the store is one of four; which one it is decides what
   becomes of the numbers of the snapshots. *)

\* A session that appends a version has a copy that is known.
Appends(s) ==
    /\ Born /\ session[s].copy \in Row /\ Known(session[s].copy)
    /\ \E new \in Row, by \in Bys : AppendVersion(s, new, by)

\* One that stores a link changes the content at most, and that of the version it has.
Relinks(s) ==
    /\ Born /\ session[s].copy \in Row /\ Known(session[s].copy)
    /\ WriteLink(s)

Notes == Shown(head') = Shown(head) /\ UNCHANGED <<versions, writes, raced>>

Writes ==
    \/ ~Born /\ \E by \in {"chain", "person"} : Create(by)
    \/ \E s \in Actors : Appends(s) \/ Relinks(s)
    \/ Notes

\* The chain appends to the copy it loaded before it called its agent.
LEMMA ChainAppends ==
    ASSUME DeliverablesInv, NEW s \in Actors, NextStep(s)
    PROVE  Appends(s)
<1>1. PICK n \in Nat : n = session[s].step
  BY Facts
<1>2. PICK copy \in Row : copy = session[s].copy
  BY Facts
<1>3. session[s].pc = "calling" /\ n > 0 /\ n + 1 \in 0 .. ChainLength
  <2>1. session[s].pc = "calling" /\ n > 0
    BY <1>1 DEF NextStep, At
  <2>2. n < ChainLength
    BY <1>1, <2>1, Facts DEF CopyOK
  <2> QED
    BY <1>1, <2>1, <2>2
<1>4. PICK status \in Statuses :
          status = IF n = ChainLength - 1 THEN "awaiting_human" ELSE "in_progress"
  BY DEF Statuses
<1>5. PICK meta : meta = [copy.meta EXCEPT !.done = n + 1]
  OBVIOUS
<1>6. meta \in [done : 0 .. ChainLength, codev : BOOLEAN]
  <2>1. copy.meta \in [done : 0 .. ChainLength, codev : BOOLEAN]
    BY DEF Row
  <2> QED
    BY <1>3, <1>5, <2>1
<1>7. PICK new : new = [copy EXCEPT !.content = Fresh, !.status = status, !.meta = meta]
  OBVIOUS
<1>8. new \in Row
  <2>1. Fresh \in Nat
    BY Facts DEF Fresh, StoreTyped
  <2> QED
    BY <1>6, <1>7, <2>1 DEF Row
<1>9. AppendVersion(s, new, "chain")
  BY <1>1, <1>2, <1>4, <1>5, <1>7 DEF NextStep
<1>10. Live(s)
  BY <1>1, <1>3 DEF Live
<1>11. Known(session[s].copy) /\ Born
  BY <1>3, <1>10, Facts DEF CopyOK, PersonOK, ProducerOK, Actors
<1> QED
  BY <1>2, <1>8, <1>9, <1>11 DEF Appends, Bys

\* So do the routes of a person and the gate, to the row they loaded.
LEMMA RoutesAppend ==
    ASSUME DeliverablesInv, NEW p \in People,
           Edit(p) \/ Rollback(p) \/ Accept(p) \/ Resume(p) \/ Finalize(p)
    PROVE  Appends(p)
<1>1. PICK copy \in Row : copy = session[p].copy
  BY Facts
<1>2. session[p].pc = "loaded" /\ p \in Actors
  BY Facts DEF Edit, Rollback, Accept, Resume, Finalize, At
<1>3. Known(copy) /\ Born
  <2>1. Known(session[p].copy)
    BY <1>2, Facts DEF CopyOK, Live
  <2>2. Born
    BY <1>2, Facts DEF PersonOK
  <2> QED
    BY <1>1, <2>1, <2>2
<1>4. copy.status \in Statuses /\ copy.content \in Nat /\ Fresh \in Nat
  BY <1>3, Facts, KnownStatus DEF Row, Fresh, StoreTyped
<1>5. \E status \in Statuses, content \in Nat, by \in Bys :
          AppendVersion(p, [copy EXCEPT !.status = status, !.content = content], by)
  <2>1. CASE Edit(p)
    <3>1. PICK status \in EditStatuses \cup {copy.status}, content \in {copy.content, Fresh} :
              AppendVersion(p, [copy EXCEPT !.status = status, !.content = content], "person")
      BY <1>1, <2>1 DEF Edit
    <3>2. status \in Statuses /\ content \in Nat
      BY <1>4 DEF Statuses
    <3> QED
      BY <3>1, <3>2 DEF Bys
  <2>2. CASE Rollback(p)
    <3>1. PICK v \in versions :
              AppendVersion(p, [copy EXCEPT !.status = v.status, !.content = v.content], "person")
      BY <1>1, <2>2 DEF Rollback
    <3>2. v.status \in Statuses /\ v.content \in Nat
      BY Facts DEF StoreTyped, Snapshot
    <3> QED
      BY <3>1, <3>2 DEF Bys
  <2>3. CASE Accept(p) \/ Resume(p)
    <3>1. \E status \in {"approved", "in_progress"} :
              AppendVersion(p, [copy EXCEPT !.status = status, !.content = Fresh], "resume")
      BY <1>1, <2>3 DEF Accept, Resume
    <3> QED
      BY <1>4, <3>1 DEF Bys, Statuses
  <2>4. CASE Finalize(p)
    <3>1. PICK status \in Statuses : AppendVersion(p, [copy EXCEPT !.status = status], "gate")
      BY <1>1, <2>4 DEF Finalize, Statuses
    <3>2. [copy EXCEPT !.status = status] = [copy EXCEPT !.status = status, !.content = copy.content]
      BY DEF Row
    <3> QED
      BY <1>4, <3>1, <3>2 DEF Bys
  <2> QED
    BY <2>1, <2>2, <2>3, <2>4
<1>6. PICK status \in Statuses, content \in Nat, by \in Bys :
          AppendVersion(p, [copy EXCEPT !.status = status, !.content = content], by)
  BY <1>5
<1>7. PICK new : new = [copy EXCEPT !.status = status, !.content = content]
  OBVIOUS
<1>8. new \in Row /\ AppendVersion(p, new, by)
  BY <1>6, <1>7 DEF Row
<1> QED
  BY <1>1, <1>3, <1>8 DEF Appends, Known, Recorded, Snapped

\* No step writes the store in another way.
LEMMA StepWrites ==
    ASSUME DeliverablesInv, [Next]_vars
    PROVE  Writes
<1>1. ASSUME UNCHANGED store
      PROVE  Writes
  BY <1>1 DEF store, Writes, Notes, Shown
<1>2. ASSUME NEW s \in Actors, NextStep(s)
      PROVE  Writes
  BY <1>2, ChainAppends DEF Writes
<1>3. ASSUME NEW p \in People, Edit(p) \/ Rollback(p) \/ Accept(p) \/ Resume(p) \/ Finalize(p)
      PROVE  Writes
  BY <1>3, RoutesAppend, Facts DEF Writes
<1>4. CASE \/ \E p \in People : CreateByHand(p)
           \/ FirstStep(Producer)
  <2>1. ~Born
    BY <1>4, Facts DEF CreateByHand, FirstStep, At, ProducerOK, Born
  <2> QED
    BY <1>4, <2>1 DEF CreateByHand, FirstStep, Writes
<1>5. ASSUME NEW s \in Actors, WriteLink(s), session[s].pc \in {"finished", "linking"}
      PROVE  Writes
  <2>1. Live(s)
    BY <1>5 DEF Live
  <2>2. session[s].copy \in Row /\ Known(session[s].copy)
    BY <2>1, Facts DEF CopyOK
  <2>3. Born
    BY <1>5, <2>1, Facts DEF PersonOK, ProducerOK, Actors
  <2> QED
    BY <1>5, <2>2, <2>3 DEF Writes, Relinks
<1>6. CASE StoreLink
  BY <1>5, <1>6, Facts DEF StoreLink, At
<1>7. ASSUME NEW p \in People, LinkAnswer(p)
      PROVE  Writes
  BY <1>5, <1>7, Facts DEF LinkAnswer, At
<1>8. ASSUME NEW meta, head' = [head EXCEPT !.meta = meta], UNCHANGED <<versions, writes, raced>>
      PROVE  Writes
  <2>1. head \in Row
    BY Facts DEF StoreTyped
  <2>2. /\ head'.version = head.version /\ head'.status = head.status
        /\ head'.content = head.content
    BY <1>8, <2>1 DEF Row
  <2> QED
    BY <1>8, <2>2 DEF Writes, Notes, Shown
<1>9. CASE Label(Producer)
  BY <1>8, <1>9 DEF Label
<1>10. CASE OpenGate
  <2>1. CASE UNCHANGED store
    BY <1>1, <2>1
  <2>2. CASE head' = [head EXCEPT !.meta.codev = TRUE] /\ UNCHANGED <<versions, writes, raced>>
    <3>1. PICK meta : meta = [head.meta EXCEPT !.codev = TRUE]
      OBVIOUS
    <3> QED
      BY <1>8, <2>2, <3>1
  <2> QED
    BY <1>10, <2>1, <2>2 DEF OpenGate
<1>11. CASE Submit \/ Dispatch \/ AgentFails(Producer) \/ Link \/ NoGate
  BY <1>1, <1>11 DEF Submit, Dispatch, AgentFails, Link, NoGate
<1>12. ASSUME NEW p \in People,
              \/ Load(p) \/ RunRest(p) \/ AgentFails(p) \/ Resumed(p) \/ Answer(p)
              \/ LoadForLink(p) \/ FinalizeLoad(p)
              \/ \E verdict \in {"approved", "rejected"} : Decide(p, verdict)
       PROVE  Writes
  BY <1>1, <1>12 DEF Load, RunRest, AgentFails, Resumed, Answer, LoadForLink, FinalizeLoad, Decide
<1>13. ASSUME NEW s \in Actors, Crash(s)
       PROVE  Writes
  BY <1>1, <1>13 DEF Crash
<1>14. CASE UNCHANGED vars
  BY <1>1, <1>14 DEF vars, store
<1>15. Producer \in Actors /\ \A p \in People : p \in Actors
  BY Facts
<1> QED
  BY <1>2, <1>3, <1>4, <1>6, <1>7, <1>9, <1>10, <1>11, <1>12, <1>13, <1>14, <1>15
     DEF Next, Produce

\* What a version appended to a known copy is.
LEMMA AppendIs ==
    ASSUME StoreTyped, StoreOK, NEW s \in Actors, Appends(s)
    PROVE  \E v :
              /\ versions' = versions \cup {v} /\ v.n = writes + 1
              /\ writes' = writes + 1
              /\ v \notin versions
              /\ ~raced' => /\ ~raced /\ v.version = head.version + 1
                            /\ Shown(head') = Shown(v)
<1>1. PICK new \in Row, by \in Bys : AppendVersion(s, new, by)
  BY DEF Appends
<1>2. PICK copy \in Row : copy = session[s].copy
  BY DEF Appends
<1>3. PICK next : next = [new EXCEPT !.version = copy.version + 1]
  OBVIOUS
<1>4. /\ next \in Row /\ next.version = copy.version + 1 /\ next.version \in Nat \ {0}
      /\ copy.version \in Nat
  BY <1>3 DEF Row
<1>5. PICK v : v = [n |-> writes + 1, version |-> next.version, status |-> next.status,
                    content |-> next.content, by |-> by]
  OBVIOUS
<1>6. /\ head' = Merged(copy, next, by) /\ versions' = versions \cup {v}
      /\ writes' = writes + 1 /\ raced' = (raced \/ head.version # copy.version)
  BY <1>1, <1>2, <1>3, <1>5 DEF AppendVersion
<1>7. /\ v.n = writes + 1 /\ v.version = next.version
      /\ v.status = next.status /\ v.content = next.content
  BY <1>5
<1>8. v \notin versions
  BY <1>7 DEF StoreTyped, Snapshot
<1>9. ASSUME ~raced'
      PROVE  /\ ~raced /\ head.version = copy.version
             /\ head.status = copy.status /\ head.content = copy.content
  <2>1. ~raced /\ head.version = copy.version
    BY <1>6, <1>9 DEF StoreTyped
  <2> QED
    BY <1>2, <2>1 DEF Appends, Known, Snapped
<1>10. /\ head'.version = next.version
       /\ head'.status = IF next.status = copy.status THEN head.status ELSE next.status
       /\ head'.content = IF next.content = copy.content THEN head.content ELSE next.content
  <2>1. next.version # copy.version
    BY <1>4
  <2> QED
    BY <1>4, <1>6, <2>1 DEF Merged, Row, StoreTyped
<1>11. ASSUME ~raced'
       PROVE  v.version = head.version + 1 /\ Shown(head') = Shown(v)
  BY <1>4, <1>7, <1>9, <1>10, <1>11 DEF Shown
<1> QED
  BY <1>6, <1>7, <1>8, <1>9, <1>11

\* A link is stored in the version the head has, unless it writes over another.
LEMMA RelinkIs ==
    ASSUME StoreTyped, StoreOK, NEW s \in Actors, Relinks(s)
    PROVE  /\ versions' = versions /\ writes' = writes /\ head'.version = head.version
           /\ ~raced' => ~raced /\ Shown(head') = Shown(head)
<1>1. PICK copy \in Row : copy = session[s].copy
  BY DEF Relinks
<1>2. /\ head'.version = head.version /\ head'.status = head.status
      /\ head'.content = copy.content
      /\ versions' = versions /\ writes' = writes
      /\ raced' = (raced \/ head.version # copy.version)
  BY <1>1 DEF Relinks, WriteLink, StoreTyped, Row
<1>3. ASSUME ~raced'
      PROVE  ~raced /\ head'.content = head.content
  <2>1. ~raced /\ head.version = copy.version
    BY <1>2, <1>3 DEF StoreTyped
  <2> QED
    BY <1>1, <1>2, <2>1 DEF Relinks, Known, Snapped
<1> QED
  BY <1>2, <1>3 DEF Shown

\* The first version, of a deliverable of which there was none.
LEMMA CreateIs ==
    ASSUME StoreTyped, StoreOK, ~Born, NEW by \in Bys, Create(by)
    PROVE  \E v : /\ versions = {} /\ versions' = {v} /\ v.n = 1 /\ writes' = 1
                  /\ raced' = raced
                  /\ v.version = 1 /\ head.version = 0 /\ Shown(head') = Shown(v)
<1>1. PICK v : v = [n |-> 1, version |-> 1, status |-> "draft", content |-> Fresh, by |-> by]
  OBVIOUS
<1>2. /\ versions' = {v} /\ writes' = 1 /\ raced' = raced
      /\ head'.version = 1 /\ head'.status = "draft" /\ head'.content = Fresh
  BY <1>1 DEF Create
<1>3. versions = {} /\ head.version = 0
  BY DEF StoreOK, Born, NoHead
<1>4. v.n = 1 /\ v.version = 1 /\ v.status = "draft" /\ v.content = Fresh
  BY <1>1
<1> QED
  BY <1>2, <1>3, <1>4 DEF Shown

\* Each write takes the next number, or none.
LEMMA NumberedStep ==
    ASSUME DeliverablesInv, NumberedInOrder, [Next]_vars
    PROVE  NumberedInOrder'
<1>1. StoreTyped /\ StoreOK /\ Writes
  BY Facts, StepWrites
<1>2. /\ {v.n : v \in versions} = 1 .. writes /\ writes \in Nat
      /\ \A u, v \in versions : u.n = v.n => u = v
      /\ ~raced => head.version = writes /\ \A v \in versions : v.version = v.n
  BY <1>1 DEF NumberedInOrder, StoreTyped
<1>3. ASSUME NEW by \in Bys, ~Born, Create(by)
      PROVE  NumberedInOrder'
  <2>1. PICK v : /\ versions = {} /\ versions' = {v} /\ v.n = 1 /\ writes' = 1
                 /\ v.version = 1 /\ Shown(head') = Shown(v)
    BY <1>1, <1>3, CreateIs
  <2>2. head'.version = 1
    BY <2>1 DEF Shown
  <2>3. {u.n : u \in versions'} = 1 .. writes'
    BY <2>1
  <2> QED
    BY <2>1, <2>2, <2>3 DEF NumberedInOrder
<1>4. ASSUME NEW s \in Actors, Appends(s)
      PROVE  NumberedInOrder'
  <2>1. PICK v : /\ versions' = versions \cup {v} /\ v.n = writes + 1 /\ writes' = writes + 1
                 /\ v \notin versions
                 /\ ~raced' => /\ ~raced /\ v.version = head.version + 1
                               /\ Shown(head') = Shown(v)
    BY <1>1, <1>4, AppendIs
  <2>2. {u.n : u \in versions'} = {u.n : u \in versions} \cup {writes + 1}
    BY <2>1
  <2>3. 1 .. writes' = (1 .. writes) \cup {writes + 1}
    BY <1>2, <2>1
  <2>4. \A u \in versions : u.n # v.n
    <3>1. ASSUME NEW u \in versions
          PROVE  u.n \in 1 .. writes
      BY <1>2
    <3> QED
      BY <1>2, <2>1, <3>1
  <2>5. \A t, u \in versions' : t.n = u.n => t = u
    BY <1>2, <2>1, <2>4
  <2>6. ASSUME ~raced'
        PROVE  head'.version = writes' /\ \A u \in versions' : u.version = u.n
    <3>1. ~raced /\ v.version = writes + 1
      BY <1>2, <2>1, <2>6
    <3>2. head'.version = v.version
      BY <2>1, <2>6 DEF Shown
    <3> QED
      BY <1>2, <2>1, <3>1, <3>2
  <2>7. {u.n : u \in versions'} = 1 .. writes'
    BY <1>2, <2>2, <2>3
  <2> QED
    BY <2>5, <2>6, <2>7 DEF NumberedInOrder
<1>5. ASSUME NEW s \in Actors, Relinks(s)
      PROVE  NumberedInOrder'
  <2>1. /\ versions' = versions /\ writes' = writes /\ head'.version = head.version
        /\ ~raced' => ~raced
    BY <1>1, <1>5, RelinkIs
  <2> QED
    BY <1>2, <2>1 DEF NumberedInOrder
<1>6. CASE Notes
  <2>1. /\ versions' = versions /\ writes' = writes /\ raced' = raced
        /\ head'.version = head.version
    BY <1>6 DEF Notes, Shown
  <2> QED
    BY <1>2, <2>1 DEF NumberedInOrder
<1> QED
  BY <1>1, <1>3, <1>4, <1>5, <1>6 DEF Writes, Bys

\* Whatever overlaps, snapshots have the numbers from 1 on, each once; and as long as no
\* session wrote over another these are their versions, and the head has the last one.
THEOREM NumberedInOrderProved == Spec => []NumberedInOrder
<1>1. Init => NumberedInOrder
  BY DEF Init, NumberedInOrder, NoHead
<1> QED
  BY <1>1, NumberedStep, DeliverablesInvariant, PTL DEF Spec

\* As long as no session wrote over another, a rollback reaches every snapshot by its number
\* and the head shows one of them; whatever overlaps, the content and the status of the
\* head are each in a snapshot that append_deliverable_version_service has written.
THEOREM NothingIsLostProved == Spec => []NothingIsLost
<1>1. ASSUME DeliverablesInv, NumberedInOrder, head # NoHead
      PROVE  /\ ~raced => /\ \A v \in versions : Reached(v)
                          /\ \E v \in versions : Shown(v) = Shown(head)
             /\ \E v \in versions : v.content = head.content
             /\ \E v \in versions : v.status = head.status
  <2>1. Recorded(head) /\ (~raced => Snapped(head))
    BY <1>1 DEF DeliverablesInv, StoreOK, Born, Known
  <2>2. ASSUME ~raced
        PROVE  \A v \in versions : Reached(v)
    <3>1. ASSUME NEW v \in versions, NEW u \in versions, u.version = v.version
          PROVE  v.n <= u.n
      BY <1>1, <2>2, <3>1, Facts DEF NumberedInOrder, StoreTyped, Snapshot
    <3> QED
      BY <3>1 DEF Reached
  <2> QED
    BY <2>1, <2>2 DEF Recorded, Snapped, Shown
<1>2. DeliverablesInv /\ NumberedInOrder => NothingIsLost
  BY <1>1 DEF NothingIsLost
<1> QED
  BY <1>2, NumberedInOrderProved, DeliverablesInvariant, PTL

\* No snapshot is ever changed or removed, whoever writes over whom.  What the head shows
\* changes only to the next version and its snapshot, unless a session writes over another:
\* "versioned monotonically" is true of sessions that do not overlap, and of these alone.
THEOREM HistoryOnlyGrowsProved == Spec => HistoryOnlyGrows
<1> DEFINE Grows ==
      /\ versions \subseteq versions'
      /\ \/ raced'
         \/ versions' = versions /\ Shown(head') = Shown(head)
         \/ \E v \in versions' \ versions :
               /\ versions' = versions \cup {v}
               /\ v.version = head.version + 1 /\ Shown(head') = Shown(v)
<1>1. ASSUME DeliverablesInv, [Next]_vars
      PROVE  Grows
  <2>1. StoreTyped /\ StoreOK /\ Writes
    BY <1>1, Facts, StepWrites
  <2>2. ASSUME NEW by \in Bys, ~Born, Create(by)
        PROVE  Grows
    <3>1. PICK v : /\ versions = {} /\ versions' = {v}
                   /\ v.version = 1 /\ head.version = 0 /\ Shown(head') = Shown(v)
      BY <2>1, <2>2, CreateIs
    <3> QED
      BY <3>1
  <2>3. ASSUME NEW s \in Actors, Appends(s)
        PROVE  Grows
    <3>1. PICK v : /\ versions' = versions \cup {v} /\ v \notin versions
                   /\ ~raced' => v.version = head.version + 1 /\ Shown(head') = Shown(v)
      BY <2>1, <2>3, AppendIs
    <3> QED
      BY <3>1
  <2>4. ASSUME NEW s \in Actors, Relinks(s)
        PROVE  Grows
    BY <2>1, <2>4, RelinkIs
  <2>5. CASE Notes
    BY <2>5 DEF Notes
  <2> QED
    BY <2>1, <2>2, <2>3, <2>4, <2>5 DEF Writes, Bys
<1>2. DeliverablesInv /\ [Next]_vars => [Grows]_vars
  BY <1>1
<1> QED
  BY <1>2, DeliverablesInvariant, PTL DEF Spec, HistoryOnlyGrows
=============================================================================
