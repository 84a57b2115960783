------------------------- MODULE TenantPackRegistry -------------------------
(***************************************************************************)
(* FileTenantPackRegistry, for one tenant and use case.  The registry is   *)
(* three kinds of JSON files: one per pack version, active.json and        *)
(* releases.json.  Every call reads active.json and releases.json, works   *)
(* out the next list of releases from its copies, and overwrites the files *)
(* one after the other.  Nothing locks them: the calls of other requests,  *)
(* in this process or in another that shares the directory, may take steps *)
(* between any two awaits, and a call may be cut short anywhere.           *)
(***************************************************************************)
EXTENDS Naturals, Sequences, FiniteSets

CONSTANTS Versions,   \* pack versions
          Actors,     \* principals
          Requests,   \* the requests clients may send
          Handlers,   \* calls that may be in flight at the same time
          Nothing,    \* no such file, an empty one, an absent field
          Torn,       \* a file whose bytes are no JSON
          MaxCalls,   \* bound: calls
          MaxFaults   \* bound: calls cut short

Mode == {"DIRECT", "APPROVAL_REQUIRED", "CANARY"}
Status == {"ACTIVE", "PENDING_APPROVAL", "CANARY", "SUPERSEDED", "REJECTED"}
EntryKind == {"PUBLISHED", "COMMENTED", "APPROVED", "CANARY_STARTED", "CANARY_EVALUATED",
              "ACTIVATED", "ROLLED_BACK", "SUPERSEDED", "REJECTED"}

(* `canary` of a publish request: it asks for a canaryPercentage.  `pass`  *)
(* of an evaluate request: its metrics keep to the canary policy.          *)
Request ==
    [kind : {"publish"}, version : Versions, by : Actors, mode : Mode,
     canary : BOOLEAN, required : 1..10]
    \cup [kind : {"approve", "comment", "rollback"}, version : Versions, by : Actors]
    \cup [kind : {"promote"}, version : Versions, by : Actors, pass : BOOLEAN]
    \cup [kind : {"evaluate"}, version : Versions, by : Actors, pass : BOOLEAN, apply : BOOLEAN]

ASSUME RegistryAssumption ==
    /\ Requests \subseteq Request
    /\ Nothing # Torn
    /\ MaxCalls \in Nat /\ MaxFaults \in Nat

VARIABLES pack,      \* pack[v]: the file of version v: the publication it is from
          active,    \* active.json
          releases,  \* releases.json: at most one release per version
          handler,   \* handler[h]: the call in slot h and its locals
          answered,  \* the calls that were answered without an error
          serial,    \* history: no call has begun beside another
          calls, faults

vars == <<pack, active, releases, handler, answered, serial, calls, faults>>

Stamp == 1..MaxCalls
ActiveState == [current : Versions, previous : Versions \cup {Nothing}]
Entry == [kind : EntryKind, status : Status, by : Actors, call : Stamp]
Release == [mode : Mode, status : Status, required : 0..10, approvals : SUBSET Actors,
            canary : BOOLEAN, result : {"NONE", "PASS", "FAIL"}, createdAt : Stamp,
            history : Seq(Entry)]
ReleaseList == [Versions -> Release \cup {Nothing}]

InService == {"readPack", "readActive", "readReleases", "openPack", "writePack",
              "openActive", "writeActive", "openReleases", "writeReleases"}
Idle == [pc |-> "idle", request |-> Nothing, call |-> 0, compiled |-> Nothing,
         state |-> Nothing, plan |-> Nothing, activates |-> FALSE]

(* The two marks are no contents of a file. *)
ASSUME MarksAssumption ==
    \A mark \in {Nothing, Torn} :
        mark \notin Stamp /\ mark \notin ActiveState /\ mark \notin Release /\ mark \notin ReleaseList

TypeOK ==
    /\ pack \in [Versions -> Stamp \cup {Nothing, Torn}]
    /\ active \in ActiveState \cup {Nothing, Torn}
    /\ releases \in ReleaseList \cup {Nothing, Torn}
    /\ handler \in [Handlers ->
           [pc : InService \cup {"idle"}, request : Requests \cup {Nothing},
            call : 0..MaxCalls, compiled : Stamp \cup {Nothing},
            state : ActiveState \cup {Nothing}, plan : ReleaseList \cup {Nothing},
            activates : BOOLEAN]]
    /\ answered \subseteq [call : Stamp, version : Versions]
    /\ serial \in BOOLEAN
    /\ calls \in 0..MaxCalls
    /\ faults \in 0..MaxFaults

Init ==
    /\ pack = [v \in Versions |-> Nothing]
    /\ active = Nothing /\ releases = Nothing
    /\ handler = [h \in Handlers |-> Idle]
    /\ answered = {} /\ serial = TRUE
    /\ calls = 0 /\ faults = 0
-----------------------------------------------------------------------------
(* The release each request makes of the one it found.  A call `c` is the  *)
(* state of its handler.                                                   *)

Record(release, kind, c) ==
    [release EXCEPT !.history = Append(@, [kind |-> kind, status |-> release.status,
                                           by |-> c.request.by, call |-> c.call])]

Moved(release, status, kind, c) == Record([release EXCEPT !.status = status], kind, c)

PublishedStatus(request) ==
    IF request.mode = "APPROVAL_REQUIRED" THEN "PENDING_APPROVAL"
    ELSE IF request.mode = "CANARY" \/ request.canary THEN "CANARY"
    ELSE "ACTIVE"

(* A new release, whatever release the version had before. *)
Published(c) ==
    LET r == c.request
        blank == [mode |-> r.mode, status |-> PublishedStatus(r),
                  required |-> IF r.mode = "APPROVAL_REQUIRED" THEN r.required ELSE 0,
                  approvals |-> {}, canary |-> r.mode = "CANARY" \/ r.canary,
                  result |-> "NONE", createdAt |-> c.call, history |-> << >>]
        published == Record(blank, "PUBLISHED", c)
    IN  IF published.status = "CANARY" THEN Record(published, "CANARY_STARTED", c)
        ELSE published

(* The approvals are those of distinct actors. *)
Enough(release) == Cardinality(release.approvals) >= release.required

Approved(target, c) ==
    LET approved == Record([target EXCEPT !.approvals = @ \cup {c.request.by}], "APPROVED", c)
    IN  IF Enough(approved) /\ approved.canary
        THEN Moved(approved, "CANARY", "CANARY_STARTED", c)
        ELSE approved

Applied(c) == c.request.kind = "promote" \/ c.request.apply

(* Slip: an evaluation that is not applied decides the canary too. *)
EvaluatedForGood(target, c) ==
    LET evaluated == Record([target EXCEPT !.result = IF c.request.pass THEN "PASS" ELSE "FAIL"],
                            "CANARY_EVALUATED", c)
    IN  IF ~c.request.pass
        THEN Moved(evaluated, "REJECTED", "REJECTED", c)
        ELSE evaluated

Evaluated(target, c) ==
    LET decision == IF c.request.pass THEN "PASS" ELSE "FAIL"
        evaluated == Record([target EXCEPT !.result = IF Applied(c) THEN decision ELSE @],
                            "CANARY_EVALUATED", c)
    IN  IF Applied(c) /\ ~c.request.pass
        THEN Moved(evaluated, "REJECTED", "REJECTED", c)
        ELSE evaluated

(* What a rollback starts from when the version has no release. *)
Seed(c) == [mode |-> "DIRECT", status |-> "ACTIVE", required |-> 0, approvals |-> {},
            canary |-> FALSE, result |-> "NONE", createdAt |-> c.compiled, history |-> << >>]

Updated(target, c) ==
    CASE c.request.kind = "publish"  -> Published(c)
      [] c.request.kind = "approve"  -> Approved(target, c)
      [] c.request.kind = "comment"  -> Record(target, "COMMENTED", c)
      [] c.request.kind \in {"promote", "evaluate"} -> Evaluated(target, c)
      [] c.request.kind = "rollback" -> IF target = Nothing THEN Seed(c) ELSE target

Refused(target, c) ==
    \/ target = Nothing /\ c.request.kind \notin {"publish", "rollback"}
    \/ c.request.kind = "approve" /\ target.status # "PENDING_APPROVAL"
    \/ c.request.kind \in {"promote", "evaluate"} /\ target.status # "CANARY"

Activates(updated, c) ==
    CASE c.request.kind = "publish"  -> updated.status = "ACTIVE"
      [] c.request.kind = "approve"  -> Enough(updated) /\ ~updated.canary
      [] c.request.kind = "comment"  -> FALSE
      [] c.request.kind \in {"promote", "evaluate"} -> Applied(c) /\ c.request.pass
      [] c.request.kind = "rollback" -> TRUE

(* Slip: the release that was active is left as it is. *)
ActivatedBeside(list, c) ==
    LET kind == IF c.request.kind = "rollback" THEN "ROLLED_BACK" ELSE "ACTIVATED"
    IN  [list EXCEPT ![c.request.version] = Moved(@, "ACTIVE", kind, c)]

(* activateRelease, as far as the releases go: one becomes active and any  *)
(* other that was is superseded.                                           *)
Activated(list, c) ==
    LET kind == IF c.request.kind = "rollback" THEN "ROLLED_BACK" ELSE "ACTIVATED"
    IN  [v \in Versions |->
           IF v = c.request.version
           THEN Moved(list[v], "ACTIVE", kind, c)
           ELSE IF list[v] # Nothing /\ list[v].status = "ACTIVE"
           THEN Moved(list[v], "SUPERSEDED", "SUPERSEDED", c)
           ELSE list[v]]
-----------------------------------------------------------------------------
(* Files.  A reader cannot tell a file it cannot parse from one that is    *)
(* not there.  writeFile truncates the file when it opens it; if another   *)
(* call has written since, the longer of the two texts sticks out.         *)

Readable(file) == file \notin {Nothing, Torn}
Read(file) == IF Readable(file) THEN file ELSE Nothing
Overwritten(file, content) == IF file = Nothing THEN {content} ELSE {content, Torn}

NoReleases == [v \in Versions |-> Nothing]
ReleasesRead == IF Readable(releases) THEN releases ELSE NoReleases

Goto(h, pc) == handler' = [handler EXCEPT ![h].pc = pc]

Quiet == \A h \in Handlers : handler[h].pc = "idle"

Call(h) ==
    /\ handler[h].pc = "idle"
    /\ serial' = (serial /\ Quiet)
    /\ calls < MaxCalls
    /\ calls' = calls + 1
    /\ \E r \in Requests :
          handler' = [handler EXCEPT ![h] = [Idle EXCEPT
                         !.pc = IF r.kind = "rollback" THEN "readPack" ELSE "readActive",
                         !.request = r, !.call = calls + 1]]
    /\ UNCHANGED <<pack, active, releases, answered, faults>>

(* A rollback needs the file of the pack, not a release of it. *)
ReadPack(h) ==
    LET file == pack[handler[h].request.version]
    IN  /\ handler[h].pc = "readPack"
        /\ handler' = [handler EXCEPT ![h] =
               IF Readable(file) THEN [@ EXCEPT !.pc = "readActive", !.compiled = file]
               ELSE Idle]
        /\ UNCHANGED <<pack, active, releases, answered, serial, calls, faults>>

ReadActive(h) ==
    /\ handler[h].pc = "readActive"
    /\ handler' = [handler EXCEPT ![h].pc = "readReleases", ![h].state = Read(active)]
    /\ UNCHANGED <<pack, active, releases, answered, serial, calls, faults>>

(* Slip: the file of a release that waits is not stored. *)
FirstWriteOfActiveOnly(c, activates) ==
    IF ~activates THEN "openReleases"
    ELSE IF c.request.kind = "publish" THEN "openPack"
    ELSE "openActive"

FirstWrite(c, activates) ==
    IF c.request.kind = "publish" THEN "openPack"
    ELSE IF activates THEN "openActive"
    ELSE "openReleases"

(* The last read; what the call will write is settled here. *)
ReadReleases(h) ==
    LET c == handler[h]
        v == c.request.version
        seen == ReleasesRead
        updated == Updated(seen[v], c)
        activates == Activates(updated, c)
        list == [seen EXCEPT ![v] = updated]
    IN  /\ c.pc = "readReleases"
        /\ handler' = [handler EXCEPT ![h] =
               IF Refused(seen[v], c) THEN Idle
               ELSE [@ EXCEPT !.pc = FirstWrite(c, activates), !.activates = activates,
                              !.plan = IF activates THEN Activated(list, c) ELSE list]]
        /\ UNCHANGED <<pack, active, releases, answered, serial, calls, faults>>

OpenPack(h) ==
    /\ handler[h].pc = "openPack"
    /\ pack' = [pack EXCEPT ![handler[h].request.version] = Nothing]
    /\ Goto(h, "writePack")
    /\ UNCHANGED <<active, releases, answered, serial, calls, faults>>

WritePack(h) ==
    LET c == handler[h]
        v == c.request.version
    IN  /\ c.pc = "writePack"
        /\ \E file \in Overwritten(pack[v], c.call) : pack' = [pack EXCEPT ![v] = file]
        /\ Goto(h, IF c.activates THEN "openActive" ELSE "openReleases")
        /\ UNCHANGED <<active, releases, answered, serial, calls, faults>>

OpenActive(h) ==
    /\ handler[h].pc = "openActive"
    /\ active' = Nothing
    /\ Goto(h, "writeActive")
    /\ UNCHANGED <<pack, releases, answered, serial, calls, faults>>

WriteActive(h) ==
    LET c == handler[h]
        previous == IF c.state = Nothing THEN Nothing ELSE c.state.current
    IN  /\ c.pc = "writeActive"
        /\ active' \in Overwritten(active, [current |-> c.request.version,
                                            previous |-> previous])
        /\ Goto(h, "openReleases")
        /\ UNCHANGED <<pack, releases, answered, serial, calls, faults>>

OpenReleases(h) ==
    /\ handler[h].pc = "openReleases"
    /\ releases' = Nothing
    /\ Goto(h, "writeReleases")
    /\ UNCHANGED <<pack, active, answered, serial, calls, faults>>

WriteReleases(h) ==
    LET c == handler[h]
    IN  /\ c.pc = "writeReleases"
        /\ releases' \in Overwritten(releases, c.plan)
        /\ handler' = [handler EXCEPT ![h] = Idle]
        /\ answered' = answered \cup {[call |-> c.call, version |-> c.request.version]}
        /\ UNCHANGED <<pack, active, serial, calls, faults>>

(* The call throws or its process dies: the files stay as they are. *)
Abort(h) ==
    /\ handler[h].pc # "idle"
    /\ faults < MaxFaults
    /\ faults' = faults + 1
    /\ handler' = [handler EXCEPT ![h] = Idle]
    /\ UNCHANGED <<pack, active, releases, answered, serial, calls>>

Serve(h) == \/ ReadPack(h) \/ ReadActive(h) \/ ReadReleases(h)
            \/ OpenPack(h) \/ WritePack(h) \/ OpenActive(h) \/ WriteActive(h)
            \/ OpenReleases(h) \/ WriteReleases(h)

Next == \E h \in Handlers : Call(h) \/ Serve(h) \/ Abort(h)

Spec == Init /\ [][Next]_vars
-----------------------------------------------------------------------------
(* Properties. *)

(* Calls came one at a time so far, and none was cut short. *)
Undisturbed == serial /\ faults = 0 /\ Quiet
Released(v) == Readable(releases) /\ releases[v] # Nothing
Kinds(release) == {release.history[i].kind : i \in DOMAIN release.history}

(* However many calls read and write over each other and wherever they are *)
(* cut short, the releases a reader finds have at most one active version. *)
IsActive(list, v) == list[v] # Nothing /\ list[v].status = "ACTIVE"
OneActive(list) == \A u, v \in Versions : IsActive(list, u) /\ IsActive(list, v) => u = v
AtMostOneActive == Readable(releases) => OneActive(releases)

(* No release gets past its gate by a race or a crash: one that needed     *)
(* approvals has them, of distinct actors who asked for it, and one that   *)
(* was published as a canary has passed when it is or was active.  Only a  *)
(* rollback goes round a gate, and its entry says so.                      *)
Approvers(release) ==
    {release.history[i].by : i \in
        {k \in DOMAIN release.history : release.history[k].kind = "APPROVED"}}
PassedItsGates(r) ==
    /\ r.approvals = Approvers(r)
    /\ "ROLLED_BACK" \notin Kinds(r) =>
          /\ r.status # "PENDING_APPROVAL" => Cardinality(r.approvals) >= r.required
          /\ r.status \in {"ACTIVE", "SUPERSEDED"} /\ r.canary => r.result = "PASS"
          /\ r.status = "CANARY" => r.result = "NONE"
ReleasesPassedTheirGates == \A v \in Versions : Released(v) => PassedItsGates(releases[v])

(* An active release is the active version, and the release of the active  *)
(* version is active unless the version was published anew since.          *)
ActiveMatchesReleases ==
    \A v \in Versions : Released(v) =>
        /\ releases[v].status = "ACTIVE" => Readable(active) /\ active.current = v
        /\ Readable(active) /\ active.current = v /\ releases[v].status # "ACTIVE" =>
              Kinds(releases[v]) \cap {"ACTIVATED", "ROLLED_BACK"} = {}

(* The file of a version is the publication that its release describes:    *)
(* what was approved is what will be served.                               *)
PackMatchesRelease ==
    \A v \in Versions :
        IF Released(v) THEN pack[v] = releases[v].createdAt ELSE pack[v] = Nothing

(* A call that was answered is in the history of the version it was about, *)
(* unless the version was published anew since (ENGINEERING_DECISIONS,     *)
(* pack rollout: a history entry for every publish, approval, comment,     *)
(* canary evaluation, activation, rejection and rollback).                 *)
AnsweredAreRecorded ==
    \A a \in answered :
        /\ Released(a.version)
        /\ LET r == releases[a.version]
           IN  \/ a.call < r.createdAt
               \/ \E i \in DOMAIN r.history : r.history[i].call = a.call

(* When calls come one at a time and none is cut short, the three kinds of *)
(* file tell the same story between the calls, and the history in it is of *)
(* all that was answered.                                                  *)
FilesAgree == Undisturbed => ActiveMatchesReleases /\ PackMatchesRelease /\ AnsweredAreRecorded
=============================================================================
