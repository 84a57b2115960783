---------------------- MODULE TenantPackRegistryProofs ----------------------
(***************************************************************************)
(* Proofs about TenantPackRegistry, for any versions, actors, requests,    *)
(* calls in flight and faults: its types, that the releases a reader finds *)
(* have at most one active version, that each passed its gates, and, for   *)
(* calls one at a time, that the files agree.                              *)
(***************************************************************************)
EXTENDS TenantPackRegistry, FiniteSetTheorems, TLAPS

USE RegistryAssumption

(* What a call knows of itself when it works out its releases. *)
Caller(c) ==
    /\ c.request \in Requests
    /\ c.call \in Stamp
    /\ c.request.kind = "rollback" => c.compiled \in Stamp

(* A gate is left behind once: until then the canary has no result. *)
Gated(r) ==
    /\ PassedItsGates(r)
    /\ r.status = "PENDING_APPROVAL" /\ "ROLLED_BACK" \notin Kinds(r) => r.result = "NONE"

GatedList(list) == \A v \in Versions : list[v] # Nothing => Gated(list[v])
GoodList(list) == OneActive(list) /\ GatedList(list)
-----------------------------------------------------------------------------
(* Record adds one entry to the history and changes nothing else. *)
LEMMA RecordType ==
  ASSUME NEW r \in Release, NEW kind \in EntryKind, NEW c, Caller(c)
  PROVE  /\ Record(r, kind, c) \in Release
         /\ \E e \in Entry : /\ e.kind = kind
                             /\ e.by = c.request.by
                             /\ Record(r, kind, c) = [r EXCEPT !.history = Append(@, e)]
  <1> DEFINE e == [kind |-> kind, status |-> r.status, by |-> c.request.by, call |-> c.call]
  <1>1. c.request.by \in Actors
    BY DEF Caller, Request
  <1>2. e \in Entry
    BY <1>1 DEF Entry, Release, Caller
  <1>3. Append(r.history, e) \in Seq(Entry)
    BY <1>2 DEF Release
  <1>4. [r EXCEPT !.history = Append(@, e)] \in Release
    BY <1>3 DEF Release
  <1>5. Record(r, kind, c) = [r EXCEPT !.history = Append(@, e)]
    BY DEF Record
  <1>6. QED
    BY <1>2, <1>4, <1>5

LEMMA RecordHistory ==
  ASSUME NEW r \in Release, NEW kind \in EntryKind, NEW c, Caller(c)
  PROVE  LET recorded == Record(r, kind, c)
         IN  /\ Kinds(recorded) = Kinds(r) \cup {kind}
             /\ Approvers(recorded) = IF kind = "APPROVED"
                                      THEN Approvers(r) \cup {c.request.by}
                                      ELSE Approvers(r)
             /\ recorded.mode = r.mode /\ recorded.status = r.status
             /\ recorded.required = r.required /\ recorded.approvals = r.approvals
             /\ recorded.canary = r.canary /\ recorded.result = r.result
  <1>1. PICK e \in Entry : /\ e.kind = kind
                           /\ e.by = c.request.by
                           /\ Record(r, kind, c) = [r EXCEPT !.history = Append(@, e)]
    BY RecordType
  <1> DEFINE recorded == [r EXCEPT !.history = Append(@, e)]
             n == Len(r.history)
  <1>2. r.history \in Seq(Entry) /\ n \in Nat /\ DOMAIN r.history = 1..n
    BY DEF Release
  <1>3. recorded.history = Append(r.history, e)
    BY DEF Release
  <1>4. /\ DOMAIN recorded.history = 1..(n + 1)
        /\ \A i \in 1..n : recorded.history[i] = r.history[i]
        /\ recorded.history[n + 1] = e
    BY <1>2, <1>3
  <1>5. Kinds(recorded) = Kinds(r) \cup {kind}
    BY <1>1, <1>2, <1>4 DEF Kinds
  <1>6. Approvers(recorded) = IF kind = "APPROVED" THEN Approvers(r) \cup {c.request.by}
                              ELSE Approvers(r)
    <2>1. \A i \in 1..(n + 1) : i \in 1..n \/ i = n + 1
      BY <1>2
    <2>2. 1..n \subseteq 1..(n + 1) /\ n + 1 \in 1..(n + 1)
      BY <1>2
    <2>3. Approvers(recorded) \subseteq
              IF kind = "APPROVED" THEN Approvers(r) \cup {c.request.by} ELSE Approvers(r)
      BY <1>1, <1>2, <1>4, <2>1 DEF Approvers
    <2>4. Approvers(r) \subseteq Approvers(recorded)
      BY <1>2, <1>4, <2>2 DEF Approvers
    <2>5. kind = "APPROVED" => c.request.by \in Approvers(recorded)
      BY <1>1, <1>4, <2>2 DEF Approvers
    <2>6. QED
      BY <2>3, <2>4, <2>5
  <1>7. QED
    BY <1>1, <1>5, <1>6 DEF Release

LEMMA StatusChange ==
  ASSUME NEW r \in Release, NEW status \in Status
  PROVE  LET changed == [r EXCEPT !.status = status]
         IN  /\ changed \in Release
             /\ Kinds(changed) = Kinds(r) /\ Approvers(changed) = Approvers(r)
             /\ changed.status = status
             /\ changed.mode = r.mode /\ changed.required = r.required
             /\ changed.approvals = r.approvals /\ changed.canary = r.canary
             /\ changed.result = r.result /\ changed.history = r.history
  BY DEF Release, Kinds, Approvers

(* A change of status that is recorded, as every one is. *)
LEMMA MovedFields ==
  ASSUME NEW r \in Release, NEW status \in Status, NEW kind \in EntryKind,
         NEW c, Caller(c)
  PROVE  LET changed == Moved(r, status, kind, c)
         IN  /\ changed \in Release
             /\ Kinds(changed) = Kinds(r) \cup {kind}
             /\ Approvers(changed) = IF kind = "APPROVED"
                                     THEN Approvers(r) \cup {c.request.by}
                                     ELSE Approvers(r)
             /\ changed.status = status
             /\ changed.required = r.required /\ changed.approvals = r.approvals
             /\ changed.canary = r.canary /\ changed.result = r.result
  <1> DEFINE restated == [r EXCEPT !.status = status]
             changed == Record(restated, kind, c)
  <1>1. /\ restated \in Release
        /\ Kinds(restated) = Kinds(r) /\ Approvers(restated) = Approvers(r)
        /\ restated.status = status
        /\ restated.required = r.required /\ restated.approvals = r.approvals
        /\ restated.canary = r.canary /\ restated.result = r.result
    BY StatusChange
  <1>2. SUFFICES /\ changed \in Release
                 /\ Kinds(changed) = Kinds(r) \cup {kind}
                 /\ Approvers(changed) = IF kind = "APPROVED"
                                         THEN Approvers(r) \cup {c.request.by}
                                         ELSE Approvers(r)
                 /\ changed.status = status
                 /\ changed.required = r.required /\ changed.approvals = r.approvals
                 /\ changed.canary = r.canary /\ changed.result = r.result
    BY DEF Moved
  <1> HIDE DEF restated
  <1>3. QED
    BY <1>1, RecordType, RecordHistory

(* A release that has passed its gates, or is rolled back to, may become   *)
(* active.                                                                 *)
LEMMA ActivationSound ==
  ASSUME NEW u \in Release, NEW c, Caller(c), NEW kind \in {"ACTIVATED", "ROLLED_BACK"},
         u.approvals = Approvers(u),
         \/ kind = "ROLLED_BACK"
         \/ "ROLLED_BACK" \in Kinds(u)
         \/ Cardinality(u.approvals) >= u.required /\ (u.canary => u.result = "PASS")
  PROVE  LET activated == Moved(u, "ACTIVE", kind, c)
         IN  activated \in Release /\ activated.status = "ACTIVE" /\ Gated(activated)
  <1> DEFINE activated == Moved(u, "ACTIVE", kind, c)
  <1>1. "ACTIVE" \in Status /\ kind \in EntryKind /\ kind # "APPROVED"
    BY DEF Status, EntryKind
  <1>2. /\ activated \in Release /\ activated.status = "ACTIVE"
        /\ Kinds(activated) = Kinds(u) \cup {kind} /\ Approvers(activated) = Approvers(u)
        /\ activated.required = u.required /\ activated.approvals = u.approvals
        /\ activated.canary = u.canary /\ activated.result = u.result
    BY <1>1, MovedFields
  <1>3. Gated(activated)
    BY <1>2 DEF Gated, PassedItsGates
  <1>4. QED
    BY <1>2, <1>3

(* What a call makes of the release it found is a release that passed its  *)
(* gates, unless it is about to be activated, and then it will have.       *)
UpdateIsSound(target, c) ==
    LET updated == Updated(target, c)
    IN  /\ updated \in Release
        /\ Activates(updated, c) =>
              \A kind \in {"ACTIVATED", "ROLLED_BACK"} :
                 (kind = "ROLLED_BACK") = (c.request.kind = "rollback") =>
                    Gated(Moved(updated, "ACTIVE", kind, c))
        /\ ~Activates(updated, c) =>
              /\ Gated(updated)
              /\ updated.status = "ACTIVE" => target # Nothing /\ target.status = "ACTIVE"

LEMMA PublishSound ==
  ASSUME NEW target, NEW c, Caller(c), c.request.kind = "publish"
  PROVE  UpdateIsSound(target, c)
  <1> DEFINE r == c.request
             blank == [mode |-> r.mode, status |-> PublishedStatus(r),
                       required |-> IF r.mode = "APPROVAL_REQUIRED" THEN r.required ELSE 0,
                       approvals |-> {}, canary |-> r.mode = "CANARY" \/ r.canary,
                       result |-> "NONE", createdAt |-> c.call, history |-> << >>]
             published == Record(blank, "PUBLISHED", c)
             canaried == Record(published, "CANARY_STARTED", c)
             updated == Updated(target, c)
  <1>1. /\ r.mode \in Mode /\ r.canary \in BOOLEAN /\ r.required \in 1..10
        /\ c.call \in Stamp
    BY DEF Caller, Request
  <1>2. PublishedStatus(r) \in Status
    BY DEF PublishedStatus, Status
  <1>3. blank.required \in 0..10 /\ blank.canary \in BOOLEAN
    BY <1>1
  <1>4. blank \in Release
    BY <1>1, <1>2, <1>3 DEF Release
  <1>5. /\ Kinds(blank) = {} /\ Approvers(blank) = {}
        /\ blank.status = PublishedStatus(r) /\ blank.canary = (r.mode = "CANARY" \/ r.canary)
        /\ blank.required = IF r.mode = "APPROVAL_REQUIRED" THEN r.required ELSE 0
        /\ blank.approvals = {} /\ blank.result = "NONE"
    BY DEF Kinds, Approvers
  <1>6a. updated = IF published.status = "CANARY" THEN canaried ELSE published
    BY DEF Updated, Published
  <1> HIDE DEF blank, updated
  <1>6. published \in Release /\ canaried \in Release
    BY <1>4, RecordType DEF EntryKind
  <1>7. /\ Kinds(published) = {"PUBLISHED"} /\ Approvers(published) = {}
        /\ published.status = blank.status /\ published.required = blank.required
        /\ published.approvals = {} /\ published.canary = blank.canary
        /\ published.result = "NONE"
    <2>1. "PUBLISHED" \in EntryKind /\ "PUBLISHED" # "APPROVED"
      BY DEF EntryKind
    <2>2. QED
      BY <1>4, <1>5, <2>1, RecordHistory
  <1> HIDE DEF published
  <1>8. /\ Kinds(canaried) = {"PUBLISHED", "CANARY_STARTED"} /\ Approvers(canaried) = {}
        /\ canaried.status = blank.status /\ canaried.required = blank.required
        /\ canaried.approvals = {} /\ canaried.canary = blank.canary
        /\ canaried.result = "NONE"
    BY <1>6, <1>7, RecordHistory DEF EntryKind
  <1>10. /\ updated \in Release
         /\ Kinds(updated) \subseteq {"PUBLISHED", "CANARY_STARTED"}
         /\ Approvers(updated) = {} /\ updated.approvals = {}
         /\ updated.status = PublishedStatus(r)
         /\ updated.required = blank.required /\ updated.canary = blank.canary
         /\ updated.result = "NONE"
    BY <1>5, <1>6, <1>7, <1>8, <1>6a
  <1>11. Cardinality({}) = 0
    BY FS_EmptySet
  <1>12. updated.status # "PENDING_APPROVAL" => updated.required = 0
    BY <1>1, <1>5, <1>10 DEF PublishedStatus
  <1>13. updated.status = "ACTIVE" => ~updated.canary
    BY <1>1, <1>5, <1>10 DEF PublishedStatus
  <1>14. updated.status \in {"ACTIVE", "CANARY", "PENDING_APPROVAL"}
    BY <1>10 DEF PublishedStatus
  <1>15. Activates(updated, c) <=> updated.status = "ACTIVE"
    BY DEF Activates, updated
  <1>16. Gated(updated)
    BY <1>10, <1>11, <1>12, <1>13, <1>14 DEF Gated, PassedItsGates
  <1>17. ASSUME Activates(updated, c)
         PROVE  Gated(Moved(updated, "ACTIVE", "ACTIVATED", c))
    <2>1. updated.status = "ACTIVE"
      BY <1>15, <1>17
    <2>2. /\ updated.approvals = Approvers(updated)
          /\ Cardinality(updated.approvals) >= updated.required /\ ~updated.canary
      BY <1>10, <1>11, <1>12, <1>13, <2>1
    <2>3. QED
      BY <1>10, <2>2, ActivationSound
  <1>18. QED
    BY <1>10, <1>15, <1>16, <1>17 DEF UpdateIsSound, updated

LEMMA ApproveSound ==
  ASSUME NEW target \in Release, NEW c, Caller(c), c.request.kind = "approve",
         ~Refused(target, c), Gated(target)
  PROVE  UpdateIsSound(target, c)
  <1> DEFINE granted == [target EXCEPT !.approvals = @ \cup {c.request.by}]
             approved == Record(granted, "APPROVED", c)
             canaried == Moved(approved, "CANARY", "CANARY_STARTED", c)
             updated == Updated(target, c)
  <1>1. c.request.by \in Actors
    BY DEF Caller, Request
  <1>2. /\ granted \in Release
        /\ granted.approvals = target.approvals \cup {c.request.by}
        /\ Kinds(granted) = Kinds(target) /\ Approvers(granted) = Approvers(target)
        /\ granted.status = target.status /\ granted.required = target.required
        /\ granted.canary = target.canary /\ granted.result = target.result
    BY <1>1 DEF Release, Kinds, Approvers
  <1>3. updated = IF Enough(approved) /\ approved.canary THEN canaried ELSE approved
    BY DEF Updated, Approved
  <1>4. target.status = "PENDING_APPROVAL"
    BY DEF Refused
  <1>5. Activates(updated, c) <=> Enough(updated) /\ ~updated.canary
    BY DEF Activates
  <1> HIDE DEF granted, updated
  <1>6. "APPROVED" \in EntryKind /\ "CANARY_STARTED" \in EntryKind /\ "CANARY" \in Status
    BY DEF EntryKind, Status
  <1>7. /\ approved \in Release
        /\ Kinds(approved) = Kinds(target) \cup {"APPROVED"}
        /\ Approvers(approved) = Approvers(target) \cup {c.request.by}
        /\ approved.status = target.status /\ approved.required = target.required
        /\ approved.approvals = target.approvals \cup {c.request.by}
        /\ approved.canary = target.canary /\ approved.result = target.result
    BY <1>2, <1>6, RecordType, RecordHistory
  <1>8. approved.approvals = Approvers(approved)
    BY <1>7 DEF Gated, PassedItsGates
  <1> HIDE DEF approved
  <1>9. CASE Enough(approved) /\ approved.canary
    <2> HIDE DEF canaried
    <2>a. updated = canaried
      BY <1>3, <1>9
    <2>b. canaried = Moved(approved, "CANARY", "CANARY_STARTED", c)
      BY DEF canaried
    <2>1. /\ updated \in Release /\ updated.status = "CANARY"
          /\ Kinds(updated) = Kinds(approved) \cup {"CANARY_STARTED"}
          /\ Approvers(updated) = Approvers(approved)
          /\ updated.required = approved.required /\ updated.approvals = approved.approvals
          /\ updated.canary = approved.canary /\ updated.result = approved.result
      BY <2>a, <2>b, <1>6, <1>7, MovedFields
    <2>2. Cardinality(updated.approvals) >= updated.required
      BY <2>1, <1>9 DEF Enough
    <2>3. "ROLLED_BACK" \notin Kinds(updated) => updated.result = "NONE"
      BY <2>1, <1>4, <1>7 DEF Gated
    <2>4. Gated(updated)
      BY <2>1, <2>2, <2>3, <1>8 DEF Gated, PassedItsGates
    <2>5. ~Activates(updated, c)
      BY <2>1, <1>5, <1>9
    <2>6. QED
      BY <2>1, <2>4, <2>5 DEF UpdateIsSound, updated
  <1>10. CASE ~(Enough(approved) /\ approved.canary)
    <2>1. updated = approved
      BY <1>3, <1>10
    <2>2. Gated(updated)
      BY <2>1, <1>4, <1>7, <1>8 DEF Gated, PassedItsGates
    <2>3. ASSUME Activates(updated, c)
          PROVE  Gated(Moved(updated, "ACTIVE", "ACTIVATED", c))
      <3>1. Cardinality(updated.approvals) >= updated.required /\ ~updated.canary
        BY <2>3, <1>5 DEF Enough
      <3>2. QED
        BY <3>1, <2>1, <1>7, <1>8, ActivationSound
    <2>4. updated \in Release /\ updated.status = "PENDING_APPROVAL"
      BY <2>1, <1>4, <1>7
    <2>5. QED
      BY <2>2, <2>3, <2>4 DEF UpdateIsSound, updated
  <1>11. QED
    BY <1>9, <1>10

LEMMA CommentSound ==
  ASSUME NEW target \in Release, NEW c, Caller(c), c.request.kind = "comment",
         ~Refused(target, c), Gated(target)
  PROVE  UpdateIsSound(target, c)
  <1> DEFINE updated == Updated(target, c)
  <1>1. updated = Record(target, "COMMENTED", c) /\ ~Activates(updated, c)
    BY DEF Updated, Activates
  <1>2. "COMMENTED" \in EntryKind
    BY DEF EntryKind
  <1> HIDE DEF updated
  <1>3. /\ updated \in Release
        /\ Kinds(updated) = Kinds(target) \cup {"COMMENTED"}
        /\ Approvers(updated) = Approvers(target)
        /\ updated.status = target.status /\ updated.required = target.required
        /\ updated.approvals = target.approvals
        /\ updated.canary = target.canary /\ updated.result = target.result
    BY <1>1, <1>2, RecordType, RecordHistory
  <1>4. Gated(updated)
    BY <1>3 DEF Gated, PassedItsGates
  <1>5. target # Nothing
    BY DEF Refused
  <1>6. QED
    BY <1>1, <1>3, <1>4, <1>5 DEF UpdateIsSound, updated

LEMMA EvaluateSound ==
  ASSUME NEW target \in Release, NEW c, Caller(c),
         c.request.kind \in {"promote", "evaluate"}, ~Refused(target, c), Gated(target)
  PROVE  UpdateIsSound(target, c)
  <1> DEFINE decision == IF c.request.pass THEN "PASS" ELSE "FAIL"
             decided == [target EXCEPT !.result = IF Applied(c) THEN decision ELSE @]
             evaluated == Record(decided, "CANARY_EVALUATED", c)
             rejected == Moved(evaluated, "REJECTED", "REJECTED", c)
             updated == Updated(target, c)
  <1>1. /\ decided \in Release
        /\ decided.result = IF Applied(c) THEN decision ELSE target.result
        /\ Kinds(decided) = Kinds(target) /\ Approvers(decided) = Approvers(target)
        /\ decided.status = target.status /\ decided.required = target.required
        /\ decided.approvals = target.approvals /\ decided.canary = target.canary
    BY DEF Release, Kinds, Approvers
  <1>2. updated = IF Applied(c) /\ ~c.request.pass THEN rejected ELSE evaluated
    BY DEF Updated, Evaluated
  <1>3. target.status = "CANARY"
    BY DEF Refused
  <1>4. Activates(updated, c) <=> Applied(c) /\ c.request.pass
    BY DEF Activates
  <1> HIDE DEF decided, updated
  <1>5. /\ "CANARY_EVALUATED" \in EntryKind /\ "REJECTED" \in EntryKind
        /\ "REJECTED" \in Status
    BY DEF EntryKind, Status
  <1>6. /\ evaluated \in Release
        /\ Kinds(evaluated) = Kinds(target) \cup {"CANARY_EVALUATED"}
        /\ Approvers(evaluated) = Approvers(target)
        /\ evaluated.status = "CANARY" /\ evaluated.required = target.required
        /\ evaluated.approvals = target.approvals /\ evaluated.canary = target.canary
        /\ evaluated.result = IF Applied(c) THEN decision ELSE target.result
    BY <1>1, <1>3, <1>5, RecordType, RecordHistory
  <1>7. /\ target.approvals = Approvers(target)
        /\ \/ "ROLLED_BACK" \in Kinds(target)
           \/ Cardinality(target.approvals) >= target.required /\ target.result = "NONE"
    BY <1>3 DEF Gated, PassedItsGates
  <1> HIDE DEF evaluated
  <1>8. CASE Applied(c) /\ ~c.request.pass
    <2> HIDE DEF rejected
    <2>1. updated = rejected
      BY <1>2, <1>8
    <2>2. rejected = Moved(evaluated, "REJECTED", "REJECTED", c)
      BY DEF rejected
    <2>3. /\ updated \in Release /\ updated.status = "REJECTED"
          /\ Kinds(updated) = Kinds(evaluated) \cup {"REJECTED"}
          /\ Approvers(updated) = Approvers(evaluated)
          /\ updated.required = evaluated.required
          /\ updated.approvals = evaluated.approvals
      BY <2>1, <2>2, <1>5, <1>6, MovedFields
    <2>4. Gated(updated)
      BY <2>3, <1>6, <1>7 DEF Gated, PassedItsGates
    <2>5. QED
      BY <2>3, <2>4, <1>4, <1>8 DEF UpdateIsSound, updated
  <1>9. CASE Applied(c) /\ c.request.pass
    <2>1. updated = evaluated /\ Activates(updated, c)
      BY <1>2, <1>4, <1>9
    <2>2. updated.result = "PASS"
      BY <2>1, <1>6, <1>9
    <2>3. Gated(Moved(updated, "ACTIVE", "ACTIVATED", c))
      BY <2>1, <2>2, <1>6, <1>7, ActivationSound
    <2>4. QED
      BY <2>1, <2>3, <1>6 DEF UpdateIsSound, updated
  <1>10. CASE ~Applied(c)
    <2>1. updated = evaluated /\ ~Activates(updated, c)
      BY <1>2, <1>4, <1>10
    <2>2. Gated(updated)
      BY <2>1, <1>6, <1>7, <1>10 DEF Gated, PassedItsGates
    <2>3. QED
      BY <2>1, <2>2, <1>6 DEF UpdateIsSound, updated
  <1>11. QED
    BY <1>8, <1>9, <1>10

LEMMA RollbackSound ==
  ASSUME NEW target \in Release \cup {Nothing}, NEW c, Caller(c),
         c.request.kind = "rollback", target # Nothing => Gated(target)
  PROVE  UpdateIsSound(target, c)
  <1> DEFINE updated == Updated(target, c)
  <1>1. updated = IF target = Nothing THEN Seed(c) ELSE target
    BY DEF Updated
  <1>2. Activates(updated, c)
    BY DEF Activates
  <1>3. Seed(c) \in Release /\ Seed(c).approvals = Approvers(Seed(c))
    BY DEF Seed, Release, Approvers, Caller, Mode, Status
  <1>4. updated \in Release /\ updated.approvals = Approvers(updated)
    BY <1>1, <1>3 DEF Gated, PassedItsGates
  <1>5. Gated(Moved(updated, "ACTIVE", "ROLLED_BACK", c))
    <2> HIDE DEF updated
    <2>1. QED
      BY <1>4, ActivationSound
  <1>6. QED
    BY <1>2, <1>4, <1>5 DEF UpdateIsSound

LEMMA EveryUpdateSound ==
  ASSUME NEW target \in Release \cup {Nothing}, NEW c, Caller(c),
         ~Refused(target, c), target # Nothing => Gated(target)
  PROVE  UpdateIsSound(target, c)
  <1>1. c.request.kind \in {"publish", "approve", "comment", "rollback", "promote", "evaluate"}
    BY DEF Caller, Request
  <1>2. c.request.kind \notin {"publish", "rollback"} => target \in Release /\ Gated(target)
    BY DEF Refused
  <1>3. QED
    BY <1>1, <1>2, PublishSound, ApproveSound, CommentSound, EvaluateSound, RollbackSound

LEMMA SupersedeSound ==
  ASSUME NEW r \in Release, NEW c, Caller(c), r.status = "ACTIVE", Gated(r)
  PROVE  LET superseded == Moved(r, "SUPERSEDED", "SUPERSEDED", c)
         IN  /\ superseded \in Release
             /\ superseded.status = "SUPERSEDED"
             /\ Gated(superseded)
  <1> DEFINE superseded == Moved(r, "SUPERSEDED", "SUPERSEDED", c)
  <1>1. "SUPERSEDED" \in EntryKind /\ "SUPERSEDED" \in Status
    BY DEF EntryKind, Status
  <1>2. /\ superseded \in Release /\ superseded.status = "SUPERSEDED"
        /\ Kinds(superseded) = Kinds(r) \cup {"SUPERSEDED"}
        /\ Approvers(superseded) = Approvers(r)
        /\ superseded.required = r.required /\ superseded.approvals = r.approvals
        /\ superseded.canary = r.canary /\ superseded.result = r.result
    BY <1>1, MovedFields
  <1>3. Gated(superseded)
    BY <1>2 DEF Gated, PassedItsGates
  <1>4. QED
    BY <1>2, <1>3

(* Whatever list of releases a call read, if it was good so is the list    *)
(* the call will write.                                                    *)
Planned(seen, c) ==
    LET updated == Updated(seen[c.request.version], c)
        list == [seen EXCEPT ![c.request.version] = updated]
    IN  IF Activates(updated, c) THEN Activated(list, c) ELSE list

LEMMA PlanSound ==
  ASSUME NEW seen \in ReleaseList, GoodList(seen), NEW c, Caller(c),
         ~Refused(seen[c.request.version], c)
  PROVE  Planned(seen, c) \in ReleaseList /\ GoodList(Planned(seen, c))
  <1> DEFINE v == c.request.version
             updated == Updated(seen[v], c)
             list == [seen EXCEPT ![v] = updated]
             kind == IF c.request.kind = "rollback" THEN "ROLLED_BACK" ELSE "ACTIVATED"
             plan == Planned(seen, c)
  <1>1. v \in Versions
    BY DEF Caller, Request
  <1>2. seen[v] \in Release \cup {Nothing} /\ (seen[v] # Nothing => Gated(seen[v]))
    BY <1>1 DEF ReleaseList, GoodList, GatedList
  <1>3. UpdateIsSound(seen[v], c)
    BY <1>2, EveryUpdateSound
  <1>4. updated \in Release
    BY <1>3 DEF UpdateIsSound
  <1>5. plan = IF Activates(updated, c) THEN Activated(list, c) ELSE list
    BY DEF Planned
  <1>6. /\ list \in ReleaseList /\ list[v] = updated
        /\ \A u \in Versions \ {v} : list[u] = seen[u]
    BY <1>1, <1>4 DEF ReleaseList
  <1>7. CASE ~Activates(updated, c)
    <2>1. plan = list
      BY <1>5, <1>7
    <2>2. Gated(updated)
      BY <1>3, <1>7 DEF UpdateIsSound
    <2>3. IsActive(list, v) => IsActive(seen, v)
      BY <1>3, <1>6, <1>7 DEF UpdateIsSound, IsActive
    <2>4. \A u \in Versions : IsActive(list, u) => IsActive(seen, u)
      BY <2>3, <1>6 DEF IsActive
    <2>5. OneActive(list)
      BY <2>4 DEF OneActive, GoodList
    <2>6. GatedList(list)
      BY <2>2, <1>6 DEF GatedList, GoodList
    <2>7. QED
      BY <2>1, <2>5, <2>6, <1>6 DEF GoodList
  <1>8. CASE Activates(updated, c)
    <2> HIDE DEF list, updated
    <2>1. plan = Activated(list, c)
      BY <1>5, <1>8
    <2>2. kind \in {"ACTIVATED", "ROLLED_BACK"} /\ kind \in EntryKind
      BY DEF EntryKind
    <2>3. plan = [u \in Versions |->
                    IF u = v THEN Moved(updated, "ACTIVE", kind, c)
                    ELSE IF list[u] # Nothing /\ list[u].status = "ACTIVE"
                    THEN Moved(list[u], "SUPERSEDED", "SUPERSEDED", c)
                    ELSE list[u]]
      BY <2>1, <1>6 DEF Activated
    <2>4. Moved(updated, "ACTIVE", kind, c) \in Release
      BY <2>2, <1>4, MovedFields DEF Status
    <2>5. Gated(Moved(updated, "ACTIVE", kind, c))
      <3>1. (kind = "ROLLED_BACK") = (c.request.kind = "rollback")
        OBVIOUS
      <3>2. QED
        BY <3>1, <2>2, <1>3, <1>8 DEF UpdateIsSound, updated
    <2>6. ASSUME NEW u \in Versions, u # v
          PROVE  /\ plan[u] \in Release \cup {Nothing}
                 /\ plan[u] # Nothing => Gated(plan[u]) /\ plan[u].status # "ACTIVE"
      <3>1. list[u] \in Release \cup {Nothing} /\ (list[u] # Nothing => Gated(list[u]))
        BY <2>6, <1>6 DEF ReleaseList, GoodList, GatedList
      <3>2. CASE list[u] # Nothing /\ list[u].status = "ACTIVE"
        <4>1. plan[u] = Moved(list[u], "SUPERSEDED", "SUPERSEDED", c)
          BY <2>3, <2>6, <3>2
        <4>2. QED
          BY <4>1, <3>1, <3>2, SupersedeSound
      <3>3. CASE ~(list[u] # Nothing /\ list[u].status = "ACTIVE")
        BY <2>3, <2>6, <3>1, <3>3
      <3>4. QED
        BY <3>2, <3>3
    <2>7. plan[v] = Moved(updated, "ACTIVE", kind, c)
      BY <2>3, <1>1
    <2>8. plan \in ReleaseList
      <3>1. \A u \in Versions : plan[u] \in Release \cup {Nothing}
        BY <2>4, <2>6, <2>7
      <3>2. plan = [u \in Versions |-> plan[u]]
        BY <2>3
      <3> HIDE DEF plan
      <3>3. QED
        BY <3>1, <3>2 DEF ReleaseList
    <2>9. OneActive(plan)
      BY <2>6 DEF OneActive, IsActive
    <2>10. GatedList(plan)
      BY <2>5, <2>6, <2>7 DEF GatedList
    <2>11. QED
      BY <2>8, <2>9, <2>10 DEF GoodList
  <1>9. QED
    BY <1>7, <1>8
-----------------------------------------------------------------------------
(* The inductive invariant: the types, what a call in flight knows, and    *)
(* that the list of releases in the file and every list some call is about *)
(* to write are good.  The second half is needed: two calls that read the  *)
(* same list both write theirs.                                            *)
CallOK(c) ==
    /\ c.pc # "idle" => c.request \in Requests /\ c.call \in Stamp
    /\ c.pc \notin {"idle", "readPack"} /\ c.request.kind = "rollback" =>
          c.compiled \in Stamp
    /\ c.plan # Nothing => GoodList(c.plan)

CallsOK == \A h \in Handlers : CallOK(handler[h])
ReleasesOK == Readable(releases) => GoodList(releases)
IInv == TypeOK /\ CallsOK /\ ReleasesOK

(* The state of a call, as TypeOK has it. *)
HandlerState ==
    [pc : InService \cup {"idle"}, request : Requests \cup {Nothing},
     call : 0..MaxCalls, compiled : Stamp \cup {Nothing},
     state : ActiveState \cup {Nothing}, plan : ReleaseList \cup {Nothing},
     activates : BOOLEAN]

LEMMA IdleOK == Idle \in HandlerState /\ CallOK(Idle)
  BY DEF Idle, HandlerState, CallOK, Stamp

(* A step of call h is one of that call alone. *)
LEMMA HandlerStep ==
  ASSUME IInv, NEW h \in Handlers, NEW c \in HandlerState, CallOK(c),
         handler' = [handler EXCEPT ![h] = c]
  PROVE  handler' \in [Handlers -> HandlerState] /\ CallsOK'
  <1>1. handler \in [Handlers -> HandlerState]
    BY DEF IInv, TypeOK, HandlerState
  <1>2. handler' \in [Handlers -> HandlerState]
    BY <1>1
  <1>3. \A k \in Handlers : handler'[k] = IF k = h THEN c ELSE handler[k]
    BY <1>1
  <1>4. \A k \in Handlers : CallOK(handler[k])
    BY DEF IInv, CallsOK
  <1>5. \A k \in Handlers : CallOK(handler'[k])
    BY <1>3, <1>4
  <1>6. CallsOK'
    BY <1>5 DEF CallsOK, CallOK, GoodList, OneActive, IsActive, GatedList, Gated,
                PassedItsGates, Kinds, Approvers, Stamp
  <1>7. QED
    BY <1>2, <1>6

LEMMA GotoStep ==
  ASSUME IInv, NEW h \in Handlers, NEW pc \in InService, Goto(h, pc),
         handler[h].pc \in InService \ {"readPack"}
  PROVE  handler' \in [Handlers -> HandlerState] /\ CallsOK'
  <1> DEFINE c == [handler[h] EXCEPT !.pc = pc]
  <1>1. handler[h] \in HandlerState /\ CallOK(handler[h])
    BY DEF IInv, TypeOK, CallsOK, HandlerState
  <1>2. c \in HandlerState
    BY <1>1 DEF HandlerState
  <1>3. /\ c.request = handler[h].request /\ c.call = handler[h].call
        /\ c.compiled = handler[h].compiled /\ c.plan = handler[h].plan
    BY <1>1 DEF HandlerState
  <1>4. handler[h].pc \notin {"idle", "readPack"}
    BY DEF InService
  <1>5. CallOK(c)
    BY <1>1, <1>3, <1>4 DEF CallOK
  <1>6. handler' = [handler EXCEPT ![h] = c]
    BY DEF Goto
  <1> HIDE DEF c
  <1>7. QED
    BY <1>2, <1>5, <1>6, HandlerStep

LEMMA OverwrittenIn ==
  ASSUME NEW file, NEW content, NEW next \in Overwritten(file, content)
  PROVE  next = content \/ next = Torn
  BY DEF Overwritten

LEMMA InitIInv == Init => IInv
  <1> SUFFICES ASSUME Init PROVE IInv
    OBVIOUS
  <1>1. TypeOK
    BY IdleOK DEF Init, TypeOK, HandlerState
  <1>2. CallsOK
    BY IdleOK DEF Init, CallsOK
  <1>3. ReleasesOK
    BY DEF Init, ReleasesOK, Readable
  <1>4. QED
    BY <1>1, <1>2, <1>3 DEF IInv

(* The files that a step leaves alone stay as they were. *)
LEMMA Kept ==
  ASSUME IInv, handler' \in [Handlers -> HandlerState], CallsOK',
         pack' \in [Versions -> Stamp \cup {Nothing, Torn}],
         active' \in ActiveState \cup {Nothing, Torn},
         UNCHANGED <<releases, answered>>,
         serial' \in BOOLEAN, calls' \in 0..MaxCalls, faults' \in 0..MaxFaults
  PROVE  IInv'
  <1>1. TypeOK'
    BY DEF IInv, TypeOK, HandlerState
  <1>2. ReleasesOK'
    BY DEF IInv, ReleasesOK, Readable
  <1>3. QED
    BY <1>1, <1>2 DEF IInv

LEMMA CallStep ==
  ASSUME IInv, NEW h \in Handlers, Call(h)
  PROVE  IInv'
  <1>1. PICK r \in Requests :
          handler' = [handler EXCEPT ![h] = [Idle EXCEPT
                         !.pc = IF r.kind = "rollback" THEN "readPack" ELSE "readActive",
                         !.request = r, !.call = calls + 1]]
    BY DEF Call
  <1> DEFINE c == [Idle EXCEPT !.pc = IF r.kind = "rollback" THEN "readPack" ELSE "readActive",
                               !.request = r, !.call = calls + 1]
  <1>2. calls \in 0..MaxCalls /\ calls' = calls + 1 /\ calls < MaxCalls
    BY DEF IInv, TypeOK, Call
  <1>3. calls + 1 \in Stamp /\ calls + 1 \in 0..MaxCalls
    BY <1>2 DEF Stamp
  <1>4. c \in HandlerState
    BY <1>3 DEF Idle, HandlerState, InService
  <1>5. CallOK(c)
    BY <1>3 DEF Idle, CallOK
  <1> HIDE DEF c
  <1>6. handler' = [handler EXCEPT ![h] = c]
    BY <1>1 DEF c
  <1>7. handler' \in [Handlers -> HandlerState] /\ CallsOK'
    BY <1>4, <1>5, <1>6, HandlerStep
  <1>8. serial' \in BOOLEAN
    BY DEF Call
  <1>9. QED
    BY <1>2, <1>3, <1>7, <1>8, Kept DEF Call, IInv, TypeOK

LEMMA ReadPackStep ==
  ASSUME IInv, NEW h \in Handlers, ReadPack(h)
  PROVE  IInv'
  <1> DEFINE file == pack[handler[h].request.version]
             read == [handler[h] EXCEPT !.pc = "readActive", !.compiled = file]
             c == IF Readable(file) THEN read ELSE Idle
  <1>1. handler[h] \in HandlerState /\ CallOK(handler[h]) /\ handler[h].pc = "readPack"
    BY DEF IInv, TypeOK, CallsOK, HandlerState, ReadPack
  <1>2. handler[h].request \in Requests /\ handler[h].request.version \in Versions
    BY <1>1 DEF CallOK, Request
  <1>3. Readable(file) => file \in Stamp
    BY <1>2 DEF IInv, TypeOK, Readable
  <1>4. Readable(file) => read \in HandlerState
    BY <1>1, <1>3 DEF HandlerState, InService
  <1>5. Readable(file) => CallOK(read)
    BY <1>1, <1>3 DEF CallOK, HandlerState
  <1>6. handler' = [handler EXCEPT ![h] = c]
    BY DEF ReadPack
  <1>7. c \in HandlerState /\ CallOK(c)
    BY <1>4, <1>5, IdleOK
  <1> HIDE DEF c
  <1>8. handler' \in [Handlers -> HandlerState] /\ CallsOK'
    BY <1>6, <1>7, HandlerStep
  <1>9. QED
    BY <1>8, Kept DEF ReadPack, IInv, TypeOK

LEMMA ReadActiveStep ==
  ASSUME IInv, NEW h \in Handlers, ReadActive(h)
  PROVE  IInv'
  <1> DEFINE c == [handler[h] EXCEPT !.pc = "readReleases", !.state = Read(active)]
  <1>1. handler[h] \in HandlerState /\ CallOK(handler[h]) /\ handler[h].pc = "readActive"
    BY DEF IInv, TypeOK, CallsOK, HandlerState, ReadActive
  <1>2. Read(active) \in ActiveState \cup {Nothing}
    BY DEF IInv, TypeOK, Read, Readable
  <1>3. c \in HandlerState
    BY <1>1, <1>2 DEF HandlerState, InService
  <1>4. CallOK(c)
    BY <1>1 DEF CallOK, HandlerState
  <1>5. handler' = [handler EXCEPT ![h] = c]
    <2>1. handler' = [handler EXCEPT ![h].pc = "readReleases", ![h].state = Read(active)]
      BY DEF ReadActive
    <2>2. QED
      BY <2>1, <1>1 DEF HandlerState, IInv, TypeOK
  <1> HIDE DEF c
  <1>6. handler' \in [Handlers -> HandlerState] /\ CallsOK'
    BY <1>3, <1>4, <1>5, HandlerStep
  <1>7. QED
    BY <1>6, Kept DEF ReadActive, IInv, TypeOK

LEMMA ReleasesReadOK ==
  ASSUME IInv PROVE ReleasesRead \in ReleaseList /\ GoodList(ReleasesRead)
  <1>1. NoReleases \in ReleaseList /\ GoodList(NoReleases)
    BY DEF NoReleases, ReleaseList, GoodList, OneActive, IsActive, GatedList
  <1>2. Readable(releases) => releases \in ReleaseList /\ GoodList(releases)
    BY DEF IInv, TypeOK, ReleasesOK, Readable
  <1>3. QED
    BY <1>1, <1>2 DEF ReleasesRead

LEMMA ReadReleasesStep ==
  ASSUME IInv, NEW h \in Handlers, ReadReleases(h)
  PROVE  IInv'
  <1> DEFINE was == handler[h]
             v == was.request.version
             seen == ReleasesRead
             updated == Updated(seen[v], was)
             activates == Activates(updated, was)
             plan == Planned(seen, was)
             planned == [was EXCEPT !.pc = FirstWrite(was, activates),
                                    !.activates = activates, !.plan = plan]
             c == IF Refused(seen[v], was) THEN Idle ELSE planned
  <1>1. was \in HandlerState /\ CallOK(was) /\ was.pc = "readReleases"
    BY DEF IInv, TypeOK, CallsOK, HandlerState, ReadReleases
  <1>2. Caller(was)
    BY <1>1 DEF CallOK, Caller
  <1>3. handler' = [handler EXCEPT ![h] = c]
    BY DEF ReadReleases, Planned
  <1>4. ~Refused(seen[v], was) => plan \in ReleaseList /\ GoodList(plan)
    BY <1>2, ReleasesReadOK, PlanSound
  <1>5. FirstWrite(was, activates) \in InService \ {"readPack"} /\ activates \in BOOLEAN
    <2>1. FirstWrite(was, activates) \in InService \ {"readPack"}
      BY DEF FirstWrite, InService
    <2>2. was.request.kind \in {"publish", "approve", "comment", "rollback",
                                "promote", "evaluate"}
      BY <1>2 DEF Caller, Request
    <2>3. was.request.kind = "publish" => activates \in BOOLEAN
      BY DEF Activates
    <2>4. was.request.kind = "approve" => activates \in BOOLEAN
      BY DEF Activates
    <2>5. was.request.kind \in {"comment", "rollback"} => activates \in BOOLEAN
      BY DEF Activates
    <2>6. was.request.kind \in {"promote", "evaluate"} => activates \in BOOLEAN
      BY DEF Activates
    <2>7. QED
      BY <2>1, <2>2, <2>3, <2>4, <2>5, <2>6
  <1> HIDE DEF was, activates, plan
  <1>6. ~Refused(seen[v], was) => planned \in HandlerState
    BY <1>1, <1>4, <1>5 DEF HandlerState
  <1>7. ~Refused(seen[v], was) => CallOK(planned)
    BY <1>1, <1>4, <1>5 DEF CallOK, HandlerState, InService
  <1>8. c \in HandlerState /\ CallOK(c)
    BY <1>6, <1>7, IdleOK
  <1> HIDE DEF c
  <1>9. handler' \in [Handlers -> HandlerState] /\ CallsOK'
    BY <1>3, <1>8, HandlerStep
  <1>10. QED
    BY <1>9, Kept DEF ReadReleases, IInv, TypeOK

LEMMA OpenPackStep ==
  ASSUME IInv, NEW h \in Handlers, OpenPack(h)
  PROVE  IInv'
  <1>1. handler[h].pc \in InService \ {"readPack"} /\ "writePack" \in InService
    BY DEF OpenPack, InService
  <1>2. handler' \in [Handlers -> HandlerState] /\ CallsOK'
    BY <1>1, GotoStep DEF OpenPack
  <1>3. pack' \in [Versions -> Stamp \cup {Nothing, Torn}]
    BY DEF OpenPack, IInv, TypeOK
  <1>4. QED
    BY <1>2, <1>3, Kept DEF OpenPack, IInv, TypeOK

LEMMA WritePackStep ==
  ASSUME IInv, NEW h \in Handlers, WritePack(h)
  PROVE  IInv'
  <1> DEFINE c == handler[h]
             next == IF c.activates THEN "openActive" ELSE "openReleases"
  <1>1. c.pc \in InService \ {"readPack"} /\ next \in InService
    BY DEF WritePack, InService
  <1>2. Goto(h, next)
    BY DEF WritePack
  <1>3. handler' \in [Handlers -> HandlerState] /\ CallsOK'
    BY <1>1, <1>2, GotoStep
  <1>4. c.call \in Stamp
    BY <1>1 DEF IInv, CallsOK, CallOK, InService
  <1>5. PICK file \in Overwritten(pack[c.request.version], c.call) :
          pack' = [pack EXCEPT ![c.request.version] = file]
    BY DEF WritePack
  <1>6. file \in Stamp \cup {Nothing, Torn}
    BY <1>4, <1>5, OverwrittenIn
  <1>7. pack' \in [Versions -> Stamp \cup {Nothing, Torn}]
    BY <1>5, <1>6 DEF IInv, TypeOK
  <1>8. QED
    BY <1>3, <1>7, Kept DEF WritePack, IInv, TypeOK

LEMMA OpenActiveStep ==
  ASSUME IInv, NEW h \in Handlers, OpenActive(h)
  PROVE  IInv'
  <1>1. handler[h].pc \in InService \ {"readPack"} /\ "writeActive" \in InService
    BY DEF OpenActive, InService
  <1>2. handler' \in [Handlers -> HandlerState] /\ CallsOK'
    BY <1>1, GotoStep DEF OpenActive
  <1>3. QED
    BY <1>2, Kept DEF OpenActive, IInv, TypeOK

LEMMA WriteActiveStep ==
  ASSUME IInv, NEW h \in Handlers, WriteActive(h)
  PROVE  IInv'
  <1> DEFINE c == handler[h]
             previous == IF c.state = Nothing THEN Nothing ELSE c.state.current
             content == [current |-> c.request.version, previous |-> previous]
  <1>1. c \in HandlerState /\ CallOK(c) /\ c.pc = "writeActive"
    BY DEF IInv, TypeOK, CallsOK, HandlerState, WriteActive
  <1>2. c.pc \in InService \ {"readPack"} /\ "openReleases" \in InService
    BY <1>1 DEF InService
  <1>3. handler' \in [Handlers -> HandlerState] /\ CallsOK'
    BY <1>2, GotoStep DEF WriteActive
  <1>4. c.request.version \in Versions
    BY <1>1 DEF CallOK, Request
  <1>5. content \in ActiveState
    BY <1>1, <1>4 DEF HandlerState, ActiveState
  <1>6. active' \in Overwritten(active, content)
    BY DEF WriteActive
  <1>7. active' \in ActiveState \cup {Nothing, Torn}
    BY <1>5, <1>6, OverwrittenIn
  <1>8. QED
    BY <1>3, <1>7, Kept DEF WriteActive, IInv, TypeOK

LEMMA OpenReleasesStep ==
  ASSUME IInv, NEW h \in Handlers, OpenReleases(h)
  PROVE  IInv'
  <1>1. handler[h].pc \in InService \ {"readPack"} /\ "writeReleases" \in InService
    BY DEF OpenReleases, InService
  <1>2. handler' \in [Handlers -> HandlerState] /\ CallsOK'
    BY <1>1, GotoStep DEF OpenReleases
  <1>3. TypeOK'
    BY <1>2 DEF OpenReleases, IInv, TypeOK, HandlerState
  <1>4. ReleasesOK'
    BY DEF OpenReleases, ReleasesOK, Readable
  <1>5. QED
    BY <1>2, <1>3, <1>4 DEF IInv

(* The one step after which a reader finds other releases: what it finds   *)
(* is the list the call worked out, which was good, or no JSON at all.     *)
LEMMA WriteReleasesStep ==
  ASSUME IInv, NEW h \in Handlers, WriteReleases(h)
  PROVE  IInv'
  <1> DEFINE c == handler[h]
  <1>1. c \in HandlerState /\ CallOK(c) /\ c.pc = "writeReleases"
    BY DEF IInv, TypeOK, CallsOK, HandlerState, WriteReleases
  <1>2. handler' = [handler EXCEPT ![h] = Idle]
    BY DEF WriteReleases
  <1>3. handler' \in [Handlers -> HandlerState] /\ CallsOK'
    BY <1>2, IdleOK, HandlerStep
  <1>4. c.call \in Stamp /\ c.request.version \in Versions
    BY <1>1 DEF CallOK, Request
  <1>5. answered' \subseteq [call : Stamp, version : Versions]
    BY <1>4 DEF WriteReleases, IInv, TypeOK
  <1>6. releases' = c.plan \/ releases' = Torn
    BY OverwrittenIn DEF WriteReleases
  <1>7. releases' \in ReleaseList \cup {Nothing, Torn}
    BY <1>1, <1>6 DEF HandlerState
  <1>8. TypeOK'
    BY <1>3, <1>5, <1>7 DEF WriteReleases, IInv, TypeOK, HandlerState
  <1>9. c.plan # Nothing => GoodList(c.plan)
    BY <1>1 DEF CallOK
  <1>10. releases' \notin {Nothing, Torn} => GoodList(releases')
    BY <1>6, <1>9
  <1>11. ReleasesOK'
    BY <1>10 DEF ReleasesOK, Readable, GoodList, OneActive, IsActive, GatedList, Gated,
                 PassedItsGates, Kinds, Approvers
  <1>12. QED
    BY <1>3, <1>8, <1>11 DEF IInv

LEMMA AbortStep ==
  ASSUME IInv, NEW h \in Handlers, Abort(h)
  PROVE  IInv'
  <1>1. handler' \in [Handlers -> HandlerState] /\ CallsOK'
    BY IdleOK, HandlerStep DEF Abort
  <1>2. faults' \in 0..MaxFaults
    BY DEF Abort, IInv, TypeOK
  <1>3. QED
    BY <1>1, <1>2, Kept DEF Abort, IInv, TypeOK

LEMMA StutterStep ==
  ASSUME IInv, UNCHANGED vars PROVE IInv'
  <1>1. TypeOK'
    BY DEF IInv, TypeOK, vars
  <1>2. CallsOK' /\ ReleasesOK'
    BY DEF IInv, CallsOK, ReleasesOK, Readable, vars
  <1>3. QED
    BY <1>1, <1>2 DEF IInv

LEMMA NextIInv == IInv /\ [Next]_vars => IInv'
  <1> SUFFICES ASSUME IInv, [Next]_vars PROVE IInv'
    OBVIOUS
  <1>1. CASE UNCHANGED vars
    BY <1>1, StutterStep
  <1>2. ASSUME NEW h \in Handlers, Call(h) PROVE IInv'
    BY <1>2, CallStep
  <1>3. ASSUME NEW h \in Handlers, Serve(h) PROVE IInv'
    BY <1>3, ReadPackStep, ReadActiveStep, ReadReleasesStep, OpenPackStep, WritePackStep,
       OpenActiveStep, WriteActiveStep, OpenReleasesStep, WriteReleasesStep DEF Serve
  <1>4. ASSUME NEW h \in Handlers, Abort(h) PROVE IInv'
    BY <1>4, AbortStep
  <1>5. QED
    BY <1>1, <1>2, <1>3, <1>4 DEF Next

LEMMA Inductive == Spec => []IInv
  BY InitIInv, NextIInv, PTL DEF Spec
-----------------------------------------------------------------------------
(* The files, the calls in flight and the history keep their types.        *)
THEOREM TypeCorrect == Spec => []TypeOK
  <1>1. IInv => TypeOK
    BY DEF IInv
  <1>2. QED
    BY <1>1, Inductive, PTL

(* However many calls of FileTenantPackRegistry race over releases.json    *)
(* and wherever one is cut short, the releases a reader finds have at most *)
(* one active version: activateRelease supersedes the others in the very   *)
(* list it writes.                                                         *)
THEOREM OneActiveAtMost == Spec => []AtMostOneActive
  <1>1. IInv => AtMostOneActive
    BY DEF IInv, ReleasesOK, GoodList, AtMostOneActive
  <1>2. QED
    BY <1>1, Inductive, PTL

(* No race and no crash takes a release past the gate it was published     *)
(* with: approvals of as many distinct actors as were asked for, and a     *)
(* canary that passed, unless a rollback went round them.                  *)
THEOREM GatesArePassed == Spec => []ReleasesPassedTheirGates
  <1>1. IInv => ReleasesPassedTheirGates
    BY DEF IInv, ReleasesOK, GoodList, GatedList, Gated, ReleasesPassedTheirGates, Released
  <1>2. QED
    BY <1>1, Inductive, PTL

-----------------------------------------------------------------------------
(* Calls that come one at a time.  What the files of one version tell, of  *)
(* the contents p of its pack, act of active.json and its release r; what  *)
(* the release tells of an answer; and both of all versions and answers.   *)
CallsOf(r) == {r.history[i].call : i \in DOMAIN r.history}
Activations == {"ACTIVATED", "ROLLED_BACK"}
TellsRelease(p, act, r, v) ==
    IF r = Nothing THEN p = Nothing
    ELSE /\ p = r.createdAt
         /\ r.status = "ACTIVE" => Readable(act) /\ act.current = v
         /\ Readable(act) /\ act.current = v /\ r.status # "ACTIVE" => Kinds(r) \cap Activations = {}
TellsAnswer(r, a) == r # Nothing /\ (a.call < r.createdAt \/ a.call \in CallsOf(r))
Tell(files, act, list, answers) ==
    /\ \A v \in Versions : TellsRelease(files[v], act, list[v], v)
    /\ \A a \in answers : TellsAnswer(list[a.version], a)

LEMMA RecordCalls ==
  ASSUME NEW r \in Release, NEW kind \in EntryKind, NEW c, Caller(c)
  PROVE  LET recorded == Record(r, kind, c)
         IN  /\ recorded \in Release
             /\ recorded.createdAt = r.createdAt /\ recorded.status = r.status
             /\ Kinds(recorded) = Kinds(r) \cup {kind}
             /\ CallsOf(recorded) = CallsOf(r) \cup {c.call}
  <1> DEFINE e == [kind |-> kind, status |-> r.status, by |-> c.request.by, call |-> c.call]
             recorded == Record(r, kind, c)
             n == Len(r.history)
  <1>1. recorded = [r EXCEPT !.history = Append(r.history, e)]
    BY DEF Record
  <1>2. r.history \in Seq(Entry) /\ n \in Nat /\ DOMAIN r.history = 1..n
    BY DEF Release
  <1>3. /\ DOMAIN Append(r.history, e) = 1..(n + 1)
        /\ \A i \in 1..n : Append(r.history, e)[i] = r.history[i]
        /\ Append(r.history, e)[n + 1] = e
    BY <1>2
  <1>4. recorded.history = Append(r.history, e) /\ recorded.createdAt = r.createdAt
    BY <1>1 DEF Release
  <1>5. e.call = c.call
    OBVIOUS
  <1> HIDE DEF e, recorded
  <1>6. \A i \in 1..(n + 1) : i \in 1..n \/ i = n + 1
    BY <1>2
  <1>7. 1..n \subseteq 1..(n + 1) /\ n + 1 \in 1..(n + 1)
    BY <1>2
  <1>8. CallsOf(recorded) = CallsOf(r) \cup {c.call}
    <2>1. CallsOf(recorded) \subseteq CallsOf(r) \cup {c.call}
      BY <1>2, <1>3, <1>4, <1>5, <1>6 DEF CallsOf
    <2>2. CallsOf(r) \subseteq CallsOf(recorded)
      BY <1>2, <1>3, <1>4, <1>7 DEF CallsOf
    <2>3. c.call \in CallsOf(recorded)
      BY <1>3, <1>4, <1>5, <1>7 DEF CallsOf
    <2>4. QED
      BY <2>1, <2>2, <2>3
  <1>9. recorded \in Release /\ Kinds(recorded) = Kinds(r) \cup {kind} /\ recorded.status = r.status
    BY RecordType, RecordHistory DEF recorded
  <1>10. QED
    BY <1>4, <1>8, <1>9 DEF recorded

LEMMA MovedCalls ==
  ASSUME NEW r \in Release, NEW status \in Status, NEW kind \in EntryKind, NEW c, Caller(c)
  PROVE  LET moved == Moved(r, status, kind, c)
         IN  /\ moved \in Release
             /\ moved.createdAt = r.createdAt /\ moved.status = status
             /\ Kinds(moved) = Kinds(r) \cup {kind}
             /\ CallsOf(moved) = CallsOf(r) \cup {c.call}
  <1> DEFINE restated == [r EXCEPT !.status = status]
             moved == Record(restated, kind, c)
  <1>1. /\ restated \in Release /\ restated.createdAt = r.createdAt /\ restated.status = status
        /\ Kinds(restated) = Kinds(r) /\ CallsOf(restated) = CallsOf(r)
    BY DEF Release, Kinds, CallsOf
  <1>2. SUFFICES /\ moved \in Release
                 /\ moved.createdAt = r.createdAt /\ moved.status = status
                 /\ Kinds(moved) = Kinds(r) \cup {kind}
                 /\ CallsOf(moved) = CallsOf(r) \cup {c.call}
    BY DEF Moved
  <1> HIDE DEF restated
  <1>3. QED
    BY <1>1, RecordCalls

(* What every call but a publication makes of the release it found: the    *)
(* same publication, with the call in its history, as active as before.    *)
Continues(u, r, c) ==
    /\ u \in Release
    /\ u.createdAt = r.createdAt
    /\ u.status = "ACTIVE" <=> r.status = "ACTIVE"
    /\ Kinds(u) \cap Activations = Kinds(r) \cap Activations
    /\ CallsOf(r) \subseteq CallsOf(u)
    /\ c.request.kind # "rollback" => c.call \in CallsOf(u)

LEMMA RecordContinues ==
  ASSUME NEW r \in Release, NEW s \in Release, NEW kind \in EntryKind \ Activations, NEW c, Caller(c),
         s.createdAt = r.createdAt, s.status = r.status, s.history = r.history
  PROVE  /\ Continues(Record(s, kind, c), r, c)
         /\ Record(s, kind, c) \in Release /\ Record(s, kind, c).status = r.status
  <1>1. Kinds(s) = Kinds(r) /\ CallsOf(s) = CallsOf(r)
    BY DEF Kinds, CallsOf
  <1>2. PICK u : u = Record(s, kind, c)
    OBVIOUS
  <1>3. /\ u \in Release /\ u.createdAt = s.createdAt /\ u.status = s.status
        /\ Kinds(u) = Kinds(s) \cup {kind} /\ CallsOf(u) = CallsOf(s) \cup {c.call}
    BY <1>2, RecordCalls
  <1>4. QED
    BY <1>1, <1>2, <1>3 DEF Continues

LEMMA MovedContinues ==
  ASSUME NEW r \in Release, NEW s, NEW status \in Status \ {"ACTIVE"},
         NEW kind \in EntryKind \ Activations, NEW c, Caller(c),
         Continues(s, r, c), s.status # "ACTIVE"
  PROVE  Continues(Moved(s, status, kind, c), r, c)
  <1>1. PICK u : u = Moved(s, status, kind, c)
    OBVIOUS
  <1>2. /\ u \in Release /\ u.createdAt = s.createdAt /\ u.status = status
        /\ Kinds(u) = Kinds(s) \cup {kind} /\ CallsOf(u) = CallsOf(s) \cup {c.call}
    BY <1>1, MovedCalls DEF Continues
  <1>3. QED
    BY <1>1, <1>2 DEF Continues

LEMMA UpdateContinues ==
  ASSUME NEW r \in Release, NEW c, Caller(c), ~Refused(r, c), c.request.kind # "publish"
  PROVE  Continues(Updated(r, c), r, c)
  <1> DEFINE kind == c.request.kind
  <1>1. kind \in {"approve", "comment", "rollback", "promote", "evaluate"}
    BY DEF Caller, Request
  <1>2. {"APPROVED", "COMMENTED", "CANARY_EVALUATED", "CANARY_STARTED", "REJECTED"}
          \subseteq EntryKind \ Activations
    BY DEF EntryKind, Activations
  <1>3. {"CANARY", "REJECTED"} \subseteq Status \ {"ACTIVE"}
    BY DEF Status
  <1>4. CASE kind = "rollback"
    BY <1>4, MarksAssumption DEF Updated, Continues
  <1>5. CASE kind = "comment"
    BY <1>2, <1>5, RecordContinues DEF Updated
  <1>6. CASE kind = "approve"
    <2> DEFINE s == [r EXCEPT !.approvals = @ \cup {c.request.by}]
               approved == Record(s, "APPROVED", c)
    <2>1. c.request.by \in Actors
      BY DEF Caller, Request
    <2>2. /\ s \in Release /\ s.createdAt = r.createdAt /\ s.status = r.status
          /\ s.history = r.history
      BY <2>1 DEF Release
    <2>3. r.status = "PENDING_APPROVAL"
      BY <1>6 DEF Refused
    <2>4. Updated(r, c) = IF Enough(approved) /\ approved.canary
                          THEN Moved(approved, "CANARY", "CANARY_STARTED", c) ELSE approved
      BY <1>6 DEF Updated, Approved
    <2> HIDE DEF s
    <2>5. Continues(approved, r, c) /\ approved.status # "ACTIVE"
      BY <1>2, <2>2, <2>3, RecordContinues
    <2> HIDE DEF approved
    <2>6. Continues(Moved(approved, "CANARY", "CANARY_STARTED", c), r, c)
      BY <1>2, <1>3, <2>5, MovedContinues
    <2>7. QED
      BY <2>4, <2>5, <2>6
  <1>7. CASE kind \in {"promote", "evaluate"}
    <2> DEFINE result == IF Applied(c) THEN (IF c.request.pass THEN "PASS" ELSE "FAIL") ELSE r.result
               s == [r EXCEPT !.result = result]
               evaluated == Record(s, "CANARY_EVALUATED", c)
    <2>1. result \in {"NONE", "PASS", "FAIL"}
      BY DEF Release
    <2> HIDE DEF result
    <2>2. /\ s \in Release /\ s.createdAt = r.createdAt /\ s.status = r.status
          /\ s.history = r.history
      BY <2>1 DEF Release
    <2>3. r.status = "CANARY"
      BY <1>7 DEF Refused
    <2>4. Updated(r, c) = IF Applied(c) /\ ~c.request.pass
                          THEN Moved(evaluated, "REJECTED", "REJECTED", c) ELSE evaluated
      <3>1. Updated(r, c) = Evaluated(r, c)
        <4>1. CASE kind = "promote"
          BY <4>1 DEF Updated
        <4>2. CASE kind = "evaluate"
          BY <4>2 DEF Updated
        <4>3. QED
          BY <1>7, <4>1, <4>2
      <3>2. QED
        BY <3>1 DEF Evaluated, result
    <2> HIDE DEF s
    <2>5. Continues(evaluated, r, c) /\ evaluated.status # "ACTIVE"
      BY <1>2, <2>2, <2>3, RecordContinues
    <2> HIDE DEF evaluated
    <2>6. Continues(Moved(evaluated, "REJECTED", "REJECTED", c), r, c)
      BY <1>2, <1>3, <2>5, MovedContinues
    <2>7. QED
      BY <2>4, <2>5, <2>6
  <1>8. QED
    BY <1>1, <1>4, <1>5, <1>6, <1>7

(* A publication starts a new history, which begins with this call.        *)
LEMMA PublishStarts ==
  ASSUME NEW target, NEW c, Caller(c), c.request.kind = "publish"
  PROVE  LET u == Updated(target, c)
         IN  /\ u \in Release /\ u.createdAt = c.call /\ c.call \in CallsOf(u)
             /\ Kinds(u) \cap Activations = {}
             /\ Activates(u, c) <=> u.status = "ACTIVE"
  <1> DEFINE r == c.request
             blank == [mode |-> r.mode, status |-> PublishedStatus(r),
                       required |-> IF r.mode = "APPROVAL_REQUIRED" THEN r.required ELSE 0,
                       approvals |-> {}, canary |-> r.mode = "CANARY" \/ r.canary,
                       result |-> "NONE", createdAt |-> c.call, history |-> << >>]
             published == Record(blank, "PUBLISHED", c)
             u == Updated(target, c)
  <1>1. r.mode \in Mode /\ r.canary \in BOOLEAN /\ r.required \in 1..10
    BY DEF Caller, Request
  <1>2. PublishedStatus(r) \in Status /\ (r.mode = "CANARY" \/ r.canary) \in BOOLEAN
    BY <1>1 DEF PublishedStatus, Status
  <1>3. blank \in Release /\ blank.createdAt = c.call
    BY <1>1, <1>2 DEF Release, Caller
  <1>4. Kinds(blank) = {} /\ CallsOf(blank) = {}
    BY DEF Kinds, CallsOf
  <1>5. u = IF published.status = "CANARY" THEN Record(published, "CANARY_STARTED", c) ELSE published
    BY DEF Updated, Published
  <1>6. Activates(u, c) <=> u.status = "ACTIVE"
    BY DEF Activates
  <1> HIDE DEF blank, u
  <1>7. "PUBLISHED" \in EntryKind /\ "CANARY_STARTED" \in EntryKind
    BY DEF EntryKind
  <1>8. /\ published \in Release /\ published.createdAt = c.call /\ c.call \in CallsOf(published)
        /\ Kinds(published) = {"PUBLISHED"}
    BY <1>3, <1>4, <1>7, RecordCalls
  <1> HIDE DEF published
  <1>9. PICK w : w = Record(published, "CANARY_STARTED", c)
    OBVIOUS
  <1>10. /\ w \in Release /\ w.createdAt = c.call /\ c.call \in CallsOf(w)
         /\ Kinds(w) = {"PUBLISHED", "CANARY_STARTED"}
    BY <1>7, <1>8, <1>9, RecordCalls
  <1>11. u \in Release /\ u.createdAt = c.call /\ c.call \in CallsOf(u) /\ Kinds(u) \cap Activations = {}
    BY <1>5, <1>8, <1>9, <1>10 DEF Activations
  <1>12. QED
    BY <1>6, <1>11 DEF u

(* The list a call will write, one version at a time. *)
LEMMA PlanIs ==
  ASSUME NEW seen \in ReleaseList, NEW c, Caller(c),
         Updated(seen[c.request.version], c) \in Release
  PROVE  LET v == c.request.version
             u == Updated(seen[v], c)
             plan == Planned(seen, c)
         IN  /\ ~Activates(u, c) => plan[v] = u /\ \A x \in Versions \ {v} : plan[x] = seen[x]
             /\ Activates(u, c) =>
                   /\ \E kind \in Activations : plan[v] = Moved(u, "ACTIVE", kind, c)
                   /\ \A x \in Versions \ {v} :
                         plan[x] = IF seen[x] # Nothing /\ seen[x].status = "ACTIVE"
                                   THEN Moved(seen[x], "SUPERSEDED", "SUPERSEDED", c) ELSE seen[x]
  <1> DEFINE v == c.request.version
             u == Updated(seen[v], c)
             list == [seen EXCEPT ![v] = u]
             plan == Planned(seen, c)
             kind == IF c.request.kind = "rollback" THEN "ROLLED_BACK" ELSE "ACTIVATED"
  <1>1. v \in Versions
    BY DEF Caller, Request
  <1>2. plan = IF Activates(u, c) THEN Activated(list, c) ELSE list
    BY DEF Planned
  <1>3. list[v] = u /\ \A x \in Versions \ {v} : list[x] = seen[x]
    BY <1>1 DEF ReleaseList
  <1>4. Activated(list, c) = [x \in Versions |->
           IF x = v THEN Moved(list[x], "ACTIVE", kind, c)
           ELSE IF list[x] # Nothing /\ list[x].status = "ACTIVE"
           THEN Moved(list[x], "SUPERSEDED", "SUPERSEDED", c)
           ELSE list[x]]
    BY DEF Activated
  <1>5. kind \in Activations
    BY DEF Activations
  <1> HIDE DEF list, kind, u, plan
  <1>6. CASE ~Activates(u, c)
    BY <1>2, <1>3, <1>6 DEF u, plan
  <1>7. CASE Activates(u, c)
    <2>1. plan[v] = Moved(u, "ACTIVE", kind, c)
      BY <1>1, <1>2, <1>3, <1>4, <1>7
    <2>2. ASSUME NEW x \in Versions \ {v}
          PROVE  plan[x] = IF seen[x] # Nothing /\ seen[x].status = "ACTIVE"
                           THEN Moved(seen[x], "SUPERSEDED", "SUPERSEDED", c) ELSE seen[x]
      BY <1>2, <1>3, <1>4, <1>7
    <2>3. QED
      BY <1>5, <1>7, <2>1, <2>2 DEF u, plan
  <1>8. QED
    BY <1>6, <1>7

AnswerOf(c) == [call |-> c.call, version |-> c.request.version]
NextActive(c) == [current |-> c.request.version,
                  previous |-> IF c.state = Nothing THEN Nothing ELSE c.state.current]

(* What a call will have written tells of the call and of all before it,   *)
(* as what it read did.                                                    *)
LEMMA PlanTells ==
  ASSUME NEW seen \in ReleaseList, NEW c, Caller(c), ~Refused(seen[c.request.version], c),
         NEW files \in [Versions -> Stamp \cup {Nothing, Torn}], NEW act,
         NEW answers \in SUBSET [call : Stamp, version : Versions],
         Tell(files, act, seen, answers), \A a \in answers : a.call < c.call,
         c.request.kind = "rollback" => files[c.request.version] = c.compiled,
         c.state \in ActiveState \cup {Nothing}
  PROVE  Tell(IF c.request.kind = "publish" THEN [files EXCEPT ![c.request.version] = c.call] ELSE files,
              IF Activates(Updated(seen[c.request.version], c), c) THEN NextActive(c) ELSE act,
              Planned(seen, c), answers \cup {AnswerOf(c)})
  <1> DEFINE v == c.request.version
             kind == c.request.kind
             r == seen[v]
             u == Updated(r, c)
             plan == Planned(seen, c)
             activates == Activates(u, c)
             newFiles == IF kind = "publish" THEN [files EXCEPT ![v] = c.call] ELSE files
             newAct == IF activates THEN NextActive(c) ELSE act
  <1>1. v \in Versions /\ c.call \in Stamp
    BY DEF Caller, Request
  <1>2. /\ newFiles[v] = IF kind = "publish" THEN c.call ELSE files[v]
        /\ \A x \in Versions \ {v} : newFiles[x] = files[x]
    BY <1>1
  <1>3. TellsRelease(files[v], act, r, v) /\ r \in Release \cup {Nothing}
    BY <1>1 DEF Tell, ReleaseList
  <1>4. kind # "publish" => r \in Release /\ r # Nothing /\ Continues(u, r, c)
    <2>1. ASSUME kind # "publish" PROVE r # Nothing
      <3>1. CASE kind = "rollback"
        <4>1. files[v] \in Stamp
          BY <3>1 DEF Caller
        <4>2. QED
          BY <1>3, <4>1, MarksAssumption DEF TellsRelease
      <3>2. CASE kind # "rollback"
        BY <2>1, <3>2 DEF Refused
      <3>3. QED
        BY <3>1, <3>2
    <2>2. QED
      BY <1>3, <2>1, UpdateContinues
  <1>5. kind = "publish" => /\ u \in Release /\ u.createdAt = c.call /\ c.call \in CallsOf(u)
                            /\ Kinds(u) \cap Activations = {}
                            /\ activates <=> u.status = "ACTIVE"
    BY PublishStarts
  <1>6. kind = "rollback" => activates
    BY DEF Activates
  <1>7. u \in Release
    BY <1>4, <1>5 DEF Continues
  <1>8. u.createdAt = newFiles[v]
    BY <1>2, <1>3, <1>4, <1>5 DEF Continues, TellsRelease
  <1>9. kind # "rollback" => c.call \in CallsOf(u)
    BY <1>4, <1>5 DEF Continues
  <1>10. /\ ~activates => plan[v] = u /\ \A x \in Versions \ {v} : plan[x] = seen[x]
         /\ activates => /\ \E k \in Activations : plan[v] = Moved(u, "ACTIVE", k, c)
                         /\ \A x \in Versions \ {v} :
                               plan[x] = IF seen[x] # Nothing /\ seen[x].status = "ACTIVE"
                                         THEN Moved(seen[x], "SUPERSEDED", "SUPERSEDED", c) ELSE seen[x]
    BY <1>7, PlanIs
  <1>11. activates => Readable(newAct) /\ newAct.current = v
    <2>1. ASSUME activates PROVE newAct = NextActive(c)
      BY <2>1
    <2>2. NextActive(c) \in ActiveState /\ NextActive(c).current = v
      BY <1>1 DEF NextActive, ActiveState
    <2> HIDE DEF newAct
    <2>3. QED
      BY <2>1, <2>2, MarksAssumption DEF Readable
  <1>12. ~activates => newAct = act
    OBVIOUS
  <1>13. Activations \subseteq EntryKind /\ "ACTIVE" \in Status /\ "SUPERSEDED" \in Status
         /\ "SUPERSEDED" \in EntryKind
    BY DEF Activations, EntryKind, Status
  <1> HIDE DEF u, plan, activates, newFiles, newAct
  <1>14. /\ plan[v] \in Release /\ plan[v].createdAt = newFiles[v] /\ c.call \in CallsOf(plan[v])
         /\ CallsOf(u) \subseteq CallsOf(plan[v]) /\ plan[v].createdAt = u.createdAt
         /\ activates => plan[v].status = "ACTIVE"
    <2>1. CASE ~activates
      BY <1>6, <1>7, <1>8, <1>9, <1>10, <2>1
    <2>2. CASE activates
      <3>1. PICK k \in Activations : plan[v] = Moved(u, "ACTIVE", k, c)
        BY <1>10, <2>2
      <3>2. QED
        BY <1>7, <1>8, <1>13, <3>1, MovedCalls
    <2>3. QED
      BY <2>1, <2>2
  <1>15. TellsRelease(newFiles[v], newAct, plan[v], v)
    <2>1. plan[v] # Nothing
      BY <1>14, MarksAssumption
    <2>2. CASE activates
      BY <1>11, <1>14, <2>1, <2>2 DEF TellsRelease
    <2>3. CASE ~activates /\ kind = "publish"
      BY <1>5, <1>10, <1>14, <2>1, <2>3 DEF TellsRelease
    <2>4. CASE ~activates /\ kind # "publish"
      <3>1. plan[v] = u /\ newAct = act
        BY <1>10, <1>12, <2>4
      <3>2. /\ r.status = "ACTIVE" => Readable(act) /\ act.current = v
            /\ Readable(act) /\ act.current = v /\ r.status # "ACTIVE" => Kinds(r) \cap Activations = {}
        BY <1>3, <1>4, <2>4 DEF TellsRelease
      <3>3. (u.status = "ACTIVE" <=> r.status = "ACTIVE") /\ Kinds(u) \cap Activations = Kinds(r) \cap Activations
        BY <1>4, <2>4 DEF Continues
      <3>4. QED
        BY <1>14, <2>1, <3>1, <3>2, <3>3 DEF TellsRelease
    <2>5. QED
      BY <2>2, <2>3, <2>4
  <1>16. ASSUME NEW x \in Versions, x # v
         PROVE  /\ TellsRelease(newFiles[x], newAct, plan[x], x)
                /\ \A a : TellsAnswer(seen[x], a) => TellsAnswer(plan[x], a)
    <2>1. TellsRelease(files[x], act, seen[x], x) /\ newFiles[x] = files[x]
          /\ seen[x] \in Release \cup {Nothing}
      BY <1>2, <1>16 DEF Tell, ReleaseList
    <2>2. CASE ~activates
      BY <1>10, <1>12, <1>16, <2>1, <2>2
    <2>3. CASE activates /\ seen[x] # Nothing /\ seen[x].status = "ACTIVE"
      <3>1. PICK w : w = Moved(seen[x], "SUPERSEDED", "SUPERSEDED", c)
        OBVIOUS
      <3>2. /\ w \in Release /\ w.createdAt = seen[x].createdAt /\ w.status = "SUPERSEDED"
            /\ CallsOf(w) = CallsOf(seen[x]) \cup {c.call}
        BY <1>13, <2>1, <2>3, <3>1, MovedCalls
      <3>3. plan[x] = w /\ w # Nothing
        BY <1>10, <1>16, <2>3, <3>1, <3>2, MarksAssumption
      <3>4. newAct.current # x
        BY <1>11, <1>16, <2>3
      <3>5. QED
        BY <2>1, <2>3, <3>2, <3>3, <3>4 DEF TellsRelease, TellsAnswer
    <2>4. CASE activates /\ ~(seen[x] # Nothing /\ seen[x].status = "ACTIVE")
      <3>1. plan[x] = seen[x] /\ newAct.current # x
        BY <1>10, <1>11, <1>16, <2>4
      <3>2. QED
        BY <2>1, <2>4, <3>1 DEF TellsRelease
    <2>5. QED
      BY <2>2, <2>3, <2>4
  <1>17. ASSUME NEW a \in answers PROVE TellsAnswer(plan[a.version], a)
    <2>1. TellsAnswer(seen[a.version], a) /\ a.version \in Versions /\ a.call < c.call
      BY <1>17 DEF Tell
    <2>2. CASE a.version # v
      BY <1>16, <2>1, <2>2
    <2>3. CASE a.version = v /\ kind = "publish"
      BY <1>5, <1>14, <2>1, <2>3, MarksAssumption DEF TellsAnswer
    <2>4. CASE a.version = v /\ kind # "publish"
      BY <1>4, <1>14, <2>1, <2>4, MarksAssumption DEF TellsAnswer, Continues
    <2>5. QED
      BY <2>2, <2>3, <2>4
  <1>18. TellsAnswer(plan[AnswerOf(c).version], AnswerOf(c))
    BY <1>14, MarksAssumption DEF AnswerOf, TellsAnswer
  <1>19. Tell(newFiles, newAct, plan, answers \cup {AnswerOf(c)})
    BY <1>15, <1>16, <1>17, <1>18 DEF Tell
  <1>20. QED
    BY <1>19 DEF newFiles, newAct, plan, activates, u

(* While calls come one at a time, the call in flight has found files that *)
(* tell of all that was answered, or it is writing, and the files will     *)
(* once it has written the rest: files and act and what it has planned.    *)
Reading == {"readPack", "readActive", "readReleases"}
ListOf(file) == IF Readable(file) THEN file ELSE NoReleases
PackAhead(c, files) == IF c.pc \in {"openPack", "writePack"}
                       THEN [files EXCEPT ![c.request.version] = c.call] ELSE files
ActiveAhead(c, act) == IF \/ c.pc \in {"openActive", "writeActive"}
                          \/ c.pc \in {"openPack", "writePack"} /\ c.activates
                       THEN NextActive(c) ELSE act
OnItsWay(c, files, act, file, answers) ==
    /\ c.pc \in Reading => Tell(files, act, ListOf(file), answers)
    /\ c.pc \in {"readActive", "readReleases"} /\ c.request.kind = "rollback" =>
          files[c.request.version] = c.compiled
    /\ c.pc \notin Reading =>
          /\ c.plan # Nothing
          /\ Tell(PackAhead(c, files), ActiveAhead(c, act), c.plan, answers \cup {AnswerOf(c)})
    /\ c.pc = "writePack" => files[c.request.version] = Nothing
    /\ c.pc = "writeActive" => act = Nothing
    /\ c.pc = "writeReleases" => file = Nothing
Busy(h) ==
    /\ \A k \in Handlers \ {h} : handler[k].pc = "idle"
    /\ handler[h].call <= calls /\ \A a \in answered : a.call < handler[h].call
    /\ OnItsWay(handler[h], pack, active, releases, answered)
SerialInv == serial /\ faults = 0 =>
    /\ \A a \in answered : a.call <= calls
    /\ Quiet => Tell(pack, active, ReleasesRead, answered)
    /\ \A h \in Handlers : handler[h].pc # "idle" => Busy(h)

LEMMA AloneStep ==
  ASSUME IInv, NEW h \in Handlers, NEW c \in HandlerState, handler' = [handler EXCEPT ![h] = c],
         \A k \in Handlers \ {h} : handler[k].pc = "idle",
         \A a \in answered' : a.call <= calls',
         c.pc = "idle" => Tell(pack', active', ListOf(releases'), answered'),
         c.pc # "idle" => /\ c.call <= calls' /\ \A a \in answered' : a.call < c.call
                          /\ OnItsWay(c, pack', active', releases', answered')
  PROVE  SerialInv'
  <1>1. handler \in [Handlers -> HandlerState]
    BY DEF IInv, TypeOK, HandlerState
  <1>2. \A k \in Handlers : handler'[k] = IF k = h THEN c ELSE handler[k]
    BY <1>1
  <1>3. ASSUME Quiet' PROVE Tell(pack', active', ReleasesRead', answered')
    <2>1. c.pc = "idle"
      BY <1>2, <1>3 DEF Quiet
    <2>2. ReleasesRead' = ListOf(releases')
      BY DEF ReleasesRead, ListOf, Readable, NoReleases
    <2>3. QED
      BY <2>1, <2>2
  <1>4. ASSUME NEW q \in Handlers, handler'[q].pc # "idle" PROVE Busy(q)'
    <2>1. q = h /\ handler'[q] = c
      BY <1>2, <1>4
    <2>2. \A k \in Handlers \ {q} : handler'[k].pc = "idle"
      BY <1>2, <2>1
    <2>3. /\ handler'[q].call <= calls' /\ \A a \in answered' : a.call < handler'[q].call
          /\ OnItsWay(handler'[q], pack', active', releases', answered')
      BY <1>4, <2>1
    <2>4. QED
      BY <2>2, <2>3 DEF Busy, OnItsWay, PackAhead, ActiveAhead, NextActive, AnswerOf, ListOf, Tell,
         TellsRelease, TellsAnswer, Readable, Kinds, CallsOf, NoReleases
  <1>5. Tell(pack', active', ReleasesRead', answered') => Tell(pack, active, ReleasesRead, answered)'
    BY DEF Tell, TellsRelease, TellsAnswer, Readable, Kinds, CallsOf
  <1>6. QED
    BY <1>3, <1>4, <1>5 DEF SerialInv

LEMMA BusyIs ==
  ASSUME IInv, SerialInv, serial, faults = 0, NEW h \in Handlers, handler[h].pc # "idle"
  PROVE  /\ handler \in [Handlers -> HandlerState] /\ handler[h] \in HandlerState
         /\ CallOK(handler[h]) /\ Busy(h)
         /\ handler[h].request \in Requests /\ handler[h].request.version \in Versions
         /\ \A a \in answered : a.call <= calls
  <1>1. handler \in [Handlers -> HandlerState] /\ CallOK(handler[h])
    BY DEF IInv, TypeOK, CallsOK, HandlerState
  <1>2. handler[h].request \in Requests /\ handler[h].request.version \in Versions
    BY <1>1 DEF CallOK, Request
  <1>3. QED
    BY <1>1, <1>2 DEF SerialInv

(* A step of the call in flight that answers nothing yet. *)
LEMMA BusyStep ==
  ASSUME IInv, SerialInv, serial, faults = 0, NEW h \in Handlers, handler[h].pc # "idle",
         NEW c \in HandlerState, handler' = [handler EXCEPT ![h] = c],
         UNCHANGED <<answered, calls>>,
         c.pc = "idle" => Tell(pack', active', ListOf(releases'), answered),
         c.pc # "idle" => /\ c.call = handler[h].call
                          /\ OnItsWay(c, pack', active', releases', answered)
  PROVE  SerialInv'
  <1>1. Busy(h) /\ \A a \in answered : a.call <= calls
    BY BusyIs
  <1>2. QED
    BY <1>1, AloneStep DEF Busy

LEMMA ReadingAlone ==
  ASSUME IInv, SerialInv, serial, faults = 0, NEW h \in Handlers,
         ReadPack(h) \/ ReadActive(h) \/ ReadReleases(h)
  PROVE  SerialInv'
  <1> DEFINE was == handler[h]
             v == was.request.version
  <1>1. was.pc \in Reading /\ was.pc # "idle"
    BY DEF ReadPack, ReadActive, ReadReleases, Reading
  <1>2. /\ was \in HandlerState /\ CallOK(was) /\ Busy(h) /\ v \in Versions
        /\ handler \in [Handlers -> HandlerState]
    BY <1>1, BusyIs
  <1>3. Tell(pack, active, ListOf(releases), answered)
    BY <1>1, <1>2 DEF Busy, OnItsWay
  <1>4. Idle \in HandlerState /\ Idle.pc = "idle"
    BY IdleOK DEF Idle
  <1>5. UNCHANGED <<pack, active, releases, answered, serial, calls, faults>>
    BY DEF ReadPack, ReadActive, ReadReleases
  <1>6. CASE handler' = [handler EXCEPT ![h] = Idle]
    BY <1>1, <1>3, <1>4, <1>5, <1>6, BusyStep
  <1>7. CASE ReadPack(h) /\ handler' # [handler EXCEPT ![h] = Idle]
    <2> DEFINE c == [was EXCEPT !.pc = "readActive", !.compiled = pack[v]]
    <2>1. handler' = [handler EXCEPT ![h] = c] /\ Readable(pack[v])
      BY <1>7 DEF ReadPack
    <2>2. pack[v] \in Stamp
      BY <1>2, <2>1 DEF IInv, TypeOK, Readable
    <2>3. /\ c \in HandlerState /\ c.pc = "readActive" /\ c.call = was.call
          /\ c.request = was.request /\ c.compiled = pack[v]
      BY <1>2, <2>2 DEF HandlerState, InService
    <2> HIDE DEF c
    <2>4. OnItsWay(c, pack, active, releases, answered)
      BY <1>3, <2>3 DEF OnItsWay, Reading
    <2>5. QED
      BY <1>1, <1>5, <2>1, <2>3, <2>4, BusyStep
  <1>8. CASE ReadActive(h)
    <2> DEFINE c == [was EXCEPT !.pc = "readReleases", !.state = Read(active)]
    <2>1. handler' = [handler EXCEPT ![h] = c]
      <3>1. handler' = [handler EXCEPT ![h].pc = "readReleases", ![h].state = Read(active)]
        BY <1>8 DEF ReadActive
      <3>2. QED
        BY <1>2, <3>1 DEF HandlerState
    <2>2. Read(active) \in ActiveState \cup {Nothing}
      BY DEF IInv, TypeOK, Read, Readable
    <2>3. /\ c \in HandlerState /\ c.pc = "readReleases" /\ c.call = was.call
          /\ c.request = was.request /\ c.compiled = was.compiled
      BY <1>2, <2>2 DEF HandlerState, InService
    <2> HIDE DEF c
    <2>4. was.request.kind = "rollback" => pack[v] = was.compiled
      BY <1>2, <1>8 DEF Busy, OnItsWay, ReadActive
    <2>5. OnItsWay(c, pack, active, releases, answered)
      BY <1>3, <2>3, <2>4 DEF OnItsWay, Reading
    <2>6. QED
      BY <1>1, <1>5, <2>1, <2>3, <2>5, BusyStep
  <1>9. CASE ReadReleases(h) /\ handler' # [handler EXCEPT ![h] = Idle]
    <2> DEFINE seen == ReleasesRead
               updated == Updated(seen[v], was)
               activates == Activates(updated, was)
               plan == Planned(seen, was)
               c == [was EXCEPT !.pc = FirstWrite(was, activates),
                                !.activates = activates, !.plan = plan]
    <2>1. handler' = [handler EXCEPT ![h] = c] /\ ~Refused(seen[v], was) /\ was.pc = "readReleases"
      BY <1>9 DEF ReadReleases, Planned
    <2>2. Caller(was)
      BY <1>2, <2>1 DEF CallOK, Caller
    <2>3. seen \in ReleaseList /\ GoodList(seen) /\ seen = ListOf(releases)
      BY ReleasesReadOK DEF ReleasesRead, ListOf
    <2>4. plan \in ReleaseList
      BY <2>1, <2>2, <2>3, PlanSound
    <2>5. plan # Nothing
      BY <2>4, MarksAssumption
    <2>6. was.state \in ActiveState \cup {Nothing}
      BY <1>2 DEF HandlerState
    <2>7. pack \in [Versions -> Stamp \cup {Nothing, Torn}] /\ answered \in SUBSET [call : Stamp, version : Versions]
      BY DEF IInv, TypeOK
    <2>8. was.request.kind = "rollback" => pack[v] = was.compiled
      BY <1>2, <2>1 DEF Busy, OnItsWay
    <2>9. \A a \in answered : a.call < was.call
      BY <1>2 DEF Busy
    <2>10. Tell(IF was.request.kind = "publish" THEN [pack EXCEPT ![v] = was.call] ELSE pack,
                IF activates THEN NextActive(was) ELSE active,
                plan, answered \cup {AnswerOf(was)})
      BY <1>3, <2>1, <2>2, <2>3, <2>6, <2>7, <2>8, <2>9, PlanTells
    <2>11. FirstWrite(was, activates) \in InService \ Reading
      BY DEF FirstWrite, InService, Reading
    <2>12. activates \in BOOLEAN
      <3>1. was.request.kind \in {"publish", "approve", "comment", "rollback", "promote", "evaluate"}
        BY <2>2 DEF Caller, Request
      <3>2. was.request.kind = "publish" => activates \in BOOLEAN
        BY DEF Activates
      <3>3. was.request.kind = "approve" => activates \in BOOLEAN
        BY DEF Activates
      <3>4. was.request.kind \in {"comment", "rollback"} => activates \in BOOLEAN
        BY DEF Activates
      <3>5. was.request.kind \in {"promote", "evaluate"} => activates \in BOOLEAN
        BY DEF Activates
      <3>6. QED
        BY <3>1, <3>2, <3>3, <3>4, <3>5
    <2> HIDE DEF plan, activates
    <2>13. /\ c \in HandlerState /\ c.pc = FirstWrite(was, activates) /\ c.call = was.call
           /\ c.request = was.request /\ c.state = was.state /\ c.plan = plan /\ c.activates = activates
      BY <1>2, <2>4, <2>11, <2>12 DEF HandlerState
    <2> HIDE DEF c
    <2>14. /\ PackAhead(c, pack) = IF was.request.kind = "publish" THEN [pack EXCEPT ![v] = was.call] ELSE pack
           /\ ActiveAhead(c, active) = IF activates THEN NextActive(was) ELSE active
           /\ AnswerOf(c) = AnswerOf(was)
      BY <2>13 DEF PackAhead, ActiveAhead, NextActive, AnswerOf, FirstWrite
    <2>15. c.pc \in {"openPack", "openActive", "openReleases"}
      BY <2>13 DEF FirstWrite
    <2>16. OnItsWay(c, pack, active, releases, answered)
      BY <2>5, <2>10, <2>13, <2>14, <2>15 DEF OnItsWay, Reading
    <2>17. QED
      BY <1>1, <1>5, <2>1, <2>13, <2>15, <2>16, BusyStep
  <1>10. QED
    BY <1>6, <1>7, <1>8, <1>9

LEMMA WritingAlone ==
  ASSUME IInv, SerialInv, serial, faults = 0, NEW h \in Handlers,
         \/ OpenPack(h) \/ WritePack(h) \/ OpenActive(h) \/ WriteActive(h) \/ OpenReleases(h)
  PROVE  SerialInv'
  <1> DEFINE was == handler[h]
             v == was.request.version
             next == CASE was.pc = "openPack" -> "writePack"
                       [] was.pc = "writePack" -> (IF was.activates THEN "openActive" ELSE "openReleases")
                       [] was.pc = "openActive" -> "writeActive"
                       [] was.pc = "writeActive" -> "openReleases"
                       [] was.pc = "openReleases" -> "writeReleases"
             c == [was EXCEPT !.pc = next]
  <1>1. was.pc \in {"openPack", "writePack", "openActive", "writeActive", "openReleases"}
    BY DEF OpenPack, WritePack, OpenActive, WriteActive, OpenReleases
  <1>2. /\ was \in HandlerState /\ CallOK(was) /\ Busy(h) /\ v \in Versions
        /\ handler \in [Handlers -> HandlerState]
    BY <1>1, BusyIs
  <1>3. Goto(h, next) /\ UNCHANGED <<answered, calls>>
    BY DEF OpenPack, WritePack, OpenActive, WriteActive, OpenReleases
  <1>4. next \in InService \ Reading /\ next # "openPack"
    BY <1>1 DEF InService, Reading
  <1>5. /\ was.plan # Nothing
        /\ Tell(PackAhead(was, pack), ActiveAhead(was, active), was.plan, answered \cup {AnswerOf(was)})
        /\ was.pc = "writePack" => pack[v] = Nothing
        /\ was.pc = "writeActive" => active = Nothing
    BY <1>1, <1>2 DEF Busy, OnItsWay, Reading
  <1>6. was.pc = "writePack" => pack' = [pack EXCEPT ![v] = was.call]
    BY <1>5 DEF OpenPack, WritePack, OpenActive, WriteActive, OpenReleases, Overwritten
  <1>7. was.pc = "openPack" => pack' = [pack EXCEPT ![v] = Nothing]
    BY DEF OpenPack, WritePack, OpenActive, WriteActive, OpenReleases
  <1>8. was.pc \notin {"openPack", "writePack"} => pack' = pack
    BY DEF OpenPack, WritePack, OpenActive, WriteActive, OpenReleases
  <1>9. was.pc = "openActive" => active' = Nothing
    BY DEF OpenPack, WritePack, OpenActive, WriteActive, OpenReleases
  <1>10. was.pc = "writeActive" => active' = NextActive(was)
    BY <1>5 DEF OpenPack, WritePack, OpenActive, WriteActive, OpenReleases, Overwritten, NextActive
  <1>11. was.pc \notin {"openActive", "writeActive"} => active' = active
    BY DEF OpenPack, WritePack, OpenActive, WriteActive, OpenReleases
  <1>12. was.pc = "openReleases" => releases' = Nothing
    BY DEF OpenPack, WritePack, OpenActive, WriteActive, OpenReleases
  <1>13. pack \in [Versions -> Stamp \cup {Nothing, Torn}]
    BY DEF IInv, TypeOK
  <1>14. /\ was.pc = "openPack" => next = "writePack"
         /\ was.pc = "writePack" => next = IF was.activates THEN "openActive" ELSE "openReleases"
         /\ was.pc = "openActive" => next = "writeActive"
         /\ was.pc = "writeActive" => next = "openReleases"
         /\ was.pc = "openReleases" => next = "writeReleases"
    OBVIOUS
  <1> HIDE DEF next
  <1>15. /\ c \in HandlerState /\ c.pc = next /\ c.call = was.call /\ c.request = was.request
         /\ c.state = was.state /\ c.plan = was.plan /\ c.activates = was.activates
    BY <1>2, <1>4 DEF HandlerState
  <1>16. handler' = [handler EXCEPT ![h] = c]
    BY <1>2, <1>3 DEF Goto
  <1> HIDE DEF c
  <1>17. PackAhead(c, pack') = PackAhead(was, pack)
    BY <1>1, <1>2, <1>6, <1>7, <1>8, <1>13, <1>14, <1>15 DEF PackAhead
  <1>18. ActiveAhead(c, active') = ActiveAhead(was, active)
    BY <1>1, <1>9, <1>10, <1>11, <1>14, <1>15 DEF ActiveAhead, NextActive
  <1>19. AnswerOf(c) = AnswerOf(was)
    BY <1>15 DEF AnswerOf
  <1>20. /\ c.pc = "writePack" => pack'[v] = Nothing
         /\ c.pc = "writeActive" => active' = Nothing
         /\ c.pc = "writeReleases" => releases' = Nothing
    BY <1>1, <1>2, <1>7, <1>9, <1>12, <1>13, <1>14, <1>15
  <1>21. OnItsWay(c, pack', active', releases', answered)
    BY <1>4, <1>5, <1>15, <1>17, <1>18, <1>19, <1>20 DEF OnItsWay, Reading
  <1>22. c.pc # "idle" /\ was.pc # "idle"
    BY <1>1, <1>4, <1>15 DEF InService
  <1>23. QED
    BY <1>3, <1>15, <1>16, <1>21, <1>22, BusyStep

LEMMA AnsweringAlone ==
  ASSUME IInv, SerialInv, serial, faults = 0, NEW h \in Handlers, WriteReleases(h)
  PROVE  SerialInv'
  <1> DEFINE was == handler[h]
  <1>1. was.pc = "writeReleases" /\ was.pc # "idle"
    BY DEF WriteReleases
  <1>2. was \in HandlerState /\ Busy(h) /\ \A a \in answered : a.call <= calls
    BY <1>1, BusyIs
  <1>3. /\ releases = Nothing /\ was.plan # Nothing
        /\ Tell(pack, active, was.plan, answered \cup {AnswerOf(was)})
    <2>1. PackAhead(was, pack) = pack /\ ActiveAhead(was, active) = active
      BY <1>1 DEF PackAhead, ActiveAhead
    <2>2. QED
      BY <1>1, <1>2, <2>1 DEF Busy, OnItsWay, Reading
  <1>4. releases' = was.plan
    BY <1>3 DEF WriteReleases, Overwritten
  <1>5. ListOf(releases') = was.plan
    <2>1. was.plan \in ReleaseList
      BY <1>2, <1>3 DEF HandlerState
    <2>2. QED
      BY <1>4, <2>1, MarksAssumption DEF ListOf, Readable
  <1>6. /\ handler' = [handler EXCEPT ![h] = Idle] /\ answered' = answered \cup {AnswerOf(was)}
        /\ UNCHANGED <<pack, active, calls>>
    BY DEF WriteReleases, AnswerOf
  <1>7. \A a \in answered' : a.call <= calls'
    BY <1>2, <1>6 DEF Busy, AnswerOf
  <1>8. Idle \in HandlerState /\ Idle.pc = "idle"
    BY IdleOK DEF Idle
  <1>9. \A k \in Handlers \ {h} : handler[k].pc = "idle"
    BY <1>2 DEF Busy
  <1>10. Tell(pack', active', ListOf(releases'), answered')
    BY <1>3, <1>5, <1>6
  <1>11. QED
    BY <1>6, <1>7, <1>8, <1>9, <1>10, AloneStep

LEMMA CallingAlone ==
  ASSUME IInv, SerialInv, NEW h \in Handlers, Call(h), serial', faults' = 0
  PROVE  SerialInv'
  <1>1. serial /\ Quiet /\ faults = 0
    BY DEF Call
  <1>2. PICK r \in Requests :
          handler' = [handler EXCEPT ![h] = [Idle EXCEPT
                         !.pc = IF r.kind = "rollback" THEN "readPack" ELSE "readActive",
                         !.request = r, !.call = calls + 1]]
    BY DEF Call
  <1> DEFINE c == [Idle EXCEPT !.pc = IF r.kind = "rollback" THEN "readPack" ELSE "readActive",
                               !.request = r, !.call = calls + 1]
  <1>3. calls \in Nat /\ calls' = calls + 1 /\ calls + 1 \in 0..MaxCalls
    BY DEF IInv, TypeOK, Call
  <1>4. /\ c \in HandlerState /\ c.pc \in {"readPack", "readActive"} /\ c.request = r
        /\ c.call = calls + 1 /\ (c.pc = "readActive" => r.kind # "rollback")
    BY <1>3 DEF Idle, HandlerState, InService
  <1> HIDE DEF c
  <1>5. handler' = [handler EXCEPT ![h] = c]
    BY <1>2 DEF c
  <1>6. /\ \A a \in answered : a.call <= calls
        /\ Tell(pack, active, ListOf(releases), answered)
    BY <1>1 DEF SerialInv, ReleasesRead, ListOf
  <1>7. UNCHANGED <<pack, active, releases, answered>>
    BY DEF Call
  <1>8. \A a \in answered : a.call <= calls' /\ a.call < calls + 1
    <2>1. \A a \in answered : a.call \in Nat
      BY DEF IInv, TypeOK, Stamp
    <2>2. QED
      BY <1>3, <1>6, <2>1
  <1>9. OnItsWay(c, pack, active, releases, answered)
    BY <1>4, <1>6 DEF OnItsWay, Reading
  <1>10. \A k \in Handlers \ {h} : handler[k].pc = "idle"
    BY <1>1 DEF Quiet
  <1>11. c.call <= calls' /\ (\A a \in answered' : a.call <= calls' /\ a.call < c.call)
    BY <1>3, <1>4, <1>7, <1>8
  <1>12. c.pc # "idle" /\ OnItsWay(c, pack', active', releases', answered')
    BY <1>4, <1>7, <1>9
  <1>13. QED
    BY <1>4, <1>5, <1>10, <1>11, <1>12, AloneStep

LEMMA SerialStep == IInv /\ SerialInv /\ [Next]_vars => SerialInv'
  <1> SUFFICES ASSUME IInv, SerialInv, [Next]_vars, serial', faults' = 0 PROVE SerialInv'
    BY DEF SerialInv
  <1>1. ASSUME NEW h \in Handlers, Call(h) PROVE SerialInv'
    BY <1>1, CallingAlone
  <1>2. ASSUME NEW h \in Handlers, Serve(h) PROVE SerialInv'
    <2>1. serial /\ faults = 0
      BY <1>2 DEF Serve, ReadPack, ReadActive, ReadReleases, OpenPack, WritePack, OpenActive,
         WriteActive, OpenReleases, WriteReleases
    <2>2. QED
      BY <1>2, <2>1, ReadingAlone, WritingAlone, AnsweringAlone DEF Serve
  <1>3. ASSUME NEW h \in Handlers, Abort(h) PROVE FALSE
    <2>1. faults \in Nat
      BY DEF IInv, TypeOK
    <2>2. faults' = faults + 1
      BY <1>3 DEF Abort
    <2>3. QED
      BY <2>1, <2>2
  <1>4. CASE UNCHANGED vars
    BY <1>4, SMTT(60) DEF vars, SerialInv, Quiet, Busy, OnItsWay, PackAhead, ActiveAhead, NextActive,
       AnswerOf, ListOf, ReleasesRead, Tell, TellsRelease, TellsAnswer, Readable
  <1>5. QED
    BY <1>1, <1>2, <1>3, <1>4 DEF Next

LEMMA SerialInit == Init => SerialInv
  <1> SUFFICES ASSUME Init PROVE SerialInv
    OBVIOUS
  <1>1. \A v \in Versions : ReleasesRead[v] = Nothing /\ pack[v] = Nothing
    BY DEF Init, ReleasesRead, Readable, NoReleases
  <1>2. Tell(pack, active, ReleasesRead, answered)
    BY <1>1 DEF Init, Tell, TellsRelease
  <1>3. QED
    BY <1>2 DEF Init, SerialInv, Idle

(* As long as calls come one at a time and none is cut short, the three    *)
(* kinds of file agree whenever none is in flight: the active release is   *)
(* the active version, every pack is the publication its release is about, *)
(* and every call that was answered is in the history, for any versions    *)
(* and any number of calls of any kind.                                    *)
THEOREM FilesTellTheSame == Spec => []FilesAgree
  <1>1. IInv /\ SerialInv => FilesAgree
    <2> SUFFICES ASSUME IInv, SerialInv, Undisturbed
                 PROVE  ActiveMatchesReleases /\ PackMatchesRelease /\ AnsweredAreRecorded
      BY DEF FilesAgree
    <2>1. Tell(pack, active, ReleasesRead, answered)
      BY DEF SerialInv, Undisturbed
    <2>2. \A v \in Versions : IF Released(v) THEN ReleasesRead[v] = releases[v] /\ releases[v] # Nothing
                              ELSE ReleasesRead[v] = Nothing
      BY DEF Released, ReleasesRead, NoReleases
    <2>3. ASSUME NEW v \in Versions, Released(v)
          PROVE  TellsRelease(pack[v], active, releases[v], v) /\ releases[v] # Nothing
      BY <2>1, <2>2, <2>3 DEF Tell
    <2>4. ActiveMatchesReleases
      BY <2>3 DEF ActiveMatchesReleases, TellsRelease, Activations
    <2>5. PackMatchesRelease
      BY <2>1, <2>2, <2>3 DEF PackMatchesRelease, TellsRelease, Tell
    <2>6. AnsweredAreRecorded
      <3>1. \A a \in answered : a.version \in Versions
        BY DEF IInv, TypeOK
      <3>2. ASSUME NEW a \in answered
            PROVE  Released(a.version) /\ TellsAnswer(releases[a.version], a)
        BY <2>1, <2>2, <3>1 DEF Tell, TellsAnswer
      <3>3. QED
        BY <3>2 DEF AnsweredAreRecorded, TellsAnswer, CallsOf
    <2>7. QED
      BY <2>4, <2>5, <2>6
  <1>2. QED
    BY <1>1, SerialInit, SerialStep, Inductive, InitIInv, PTL DEF Spec
=============================================================================
