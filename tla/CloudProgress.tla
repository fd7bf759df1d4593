---------------------------- MODULE CloudProgress ----------------------------
(***************************************************************************)
(* Optional cloud backup of coaching summaries: browser tabs that save,    *)
(* list and clear (cloud-progress.js), the routes that serve them          *)
(* (platform-routes.ts, platform.ts), the scheduled cleanup and its        *)
(* heartbeat, and schema migrations under running code.  Every await of a  *)
(* request is a step, so requests, cleanups and migrations interleave.     *)
(***************************************************************************)
EXTENDS CloudStore, Sequences

CONSTANTS
  Flows,              \* requests under way at one time
  Crons,              \* scheduled invocations under way at one time
  PageSize,           \* PAGE_SIZE of the browser, the limit it asks for
  CronTick,           \* tick of the day of the scheduled cleanup, 03:17 UTC
  MaxBatches,         \* MAX_CLEANUP_BATCHES_PER_RUN
  StaleAfter,         \* RETENTION_CLEANUP_STALE_MS
  MigrationTime,      \* the last tick at which a migration runs
  MaxTime,            \* horizon of the clock
  RequestTime,        \* ticks within which a request ends
  MaxFaults,          \* D1 calls that fail or whose answer is lost
  MaxAsks,            \* requests the browsers make
  OldSummaries        \* what an older release has stored of a browser

ASSUME CloudAssumption ==
  /\ Devices # {} /\ IsFiniteSet(Flows) /\ IsFiniteSet(Crons)
  /\ {PageSize, MaxBatches, StaleAfter, MaxTime, MigrationTime, RequestTime} \subseteq Nat \ {0}
  /\ CronTick \in 1 .. Day - 1     \* leases end at midnight, the cleanup runs later
  /\ RequestTime <= CronTick       \* by then every request of the day before has ended
  /\ MaxFaults \in Nat /\ MaxAsks \in Nat
  /\ OldSummaries \subseteq Sessions /\ Cardinality(OldSummaries) <= MaxActive

VARIABLES
  now, schema, tables,
  enabled,            \* the browser's preference, per device
  flow,               \* the request each flow is carrying
  cron, heartbeat,
  faults, asked,      \* budgets used
  silentGrants,       \* consents granted for which no analytics event was deferred
  lastRun,            \* when each invocation was last triggered
  lasting             \* summaries stored since the flow's request began

vars == <<now, schema, tables, enabled, flow, cron, heartbeat, faults, asked,
          silentGrants, lastRun, lasting>>

(* A request: whose it is, when it read the clock, what it asks; what a save has found out, *)
(* and the pages of a list: those before this request and the one it answered.                *)
SomeDevice == CHOOSE d \in Devices : TRUE
Rest == [pc |-> "rest", dev |-> SomeDevice, time |-> 0, kind |-> "none", id |-> 0,
         content |-> Absent, limit |-> 0, cursor |-> 0, got |-> <<>>, check |-> FALSE,
         consentGranted |-> FALSE, page |-> <<>>, next |-> 0]
CronRest == [pc |-> "rest", at |-> 0, read |-> 0, batches |-> 0, hasMore |-> FALSE]
Supported == {5, 6}

Goto(f, pc) == flow' = [flow EXCEPT ![f].pc = pc]
Answered(f, page, next) ==
  flow' = [flow EXCEPT ![f].pc = "answered", ![f].page = page, ![f].next = next]
Refused(f, code) == flow' = [flow EXCEPT ![f] = Rest]   \* the browser shows the error, no more
At(f, pc) == flow[f].pc = pc
Dev(f) == flow[f].dev
Time(f) == flow[f].time

One(condition) == IF condition THEN 1 ELSE 0

-----------------------------------------------------------------------------
(* The browser.  A request reads the schema marker, then the clock, when it arrives. *)

Arrived(d, request) ==
  IF schema \in Supported
  THEN [request EXCEPT !.dev = d, !.time = now]
  ELSE Rest

Ask(f, d, request) ==
  /\ At(f, "rest") /\ asked < MaxAsks
  /\ asked' = asked + 1
  /\ flow' = [flow EXCEPT ![f] = Arrived(d, request)]
  /\ UNCHANGED <<now, schema, tables, enabled, cron, heartbeat, faults, silentGrants, lastRun>>

Saving(s, content) == [Rest EXCEPT !.pc = "batch", !.kind = "save", !.id = s, !.content = content]
Listing(limit, cursor, got, check) ==
  [Rest EXCEPT !.pc = "active", !.kind = "list", !.limit = limit, !.cursor = cursor, !.got = got,
               !.check = check]
Clearing == [Rest EXCEPT !.pc = "active", !.kind = "clear"]

AskSave(f, d, s, content) == Ask(f, d, Saving(s, content))
AskList(f, d) == Ask(f, d, Listing(PageSize, 0, <<>>, ~enabled[d]))
AskExport(f, d) == Ask(f, d, Listing(Cardinality(Sessions), 0, <<>>, FALSE))
AskClear(f, d) == enabled[d] /\ Ask(f, d, Clearing)

(* save and clear set the preference, "check online backups" does when it finds any; a  *)
(* list goes on while the answer has a cursor; an export is one page of all there are.   *)
ClientAnswer(f) ==
  /\ At(f, "answered")
  /\ IF flow[f].kind = "list" /\ flow[f].next # 0
     THEN /\ flow' = [flow EXCEPT ![f] = Arrived(Dev(f),
                        Listing(PageSize, flow[f].next, flow[f].got \o flow[f].page, flow[f].check))]
          /\ UNCHANGED enabled
     ELSE /\ flow' = [flow EXCEPT ![f] = Rest]
          /\ enabled' = [enabled EXCEPT ![Dev(f)] =
               CASE flow[f].kind = "save"  -> TRUE
                 [] flow[f].kind = "clear" -> FALSE
                 [] OTHER -> @ \/ (flow[f].check /\ flow[f].got \o flow[f].page # <<>>)]
  /\ UNCHANGED <<now, schema, tables, cron, heartbeat, faults, asked, silentGrants, lastRun>>

-----------------------------------------------------------------------------
(* The Worker *)

(* A created summary is answered at once. *)
SaveConsented(f) ==
  /\ At(f, "batch")
  /\ tables' = SaveBatch(tables, Dev(f), flow[f].id, flow[f].content, Time(f))
  /\ IF Creates(tables, Dev(f), flow[f].id, Time(f))
     THEN Answered(f, <<>>, 0) /\ UNCHANGED silentGrants
     ELSE LET grants == GrantsConsent(tables, Dev(f), Time(f)) IN
          /\ flow' = [flow EXCEPT ![f].pc = "existing", ![f].consentGranted = grants]
          /\ silentGrants' = silentGrants + One(grants)
  /\ UNCHANGED <<now, schema, enabled, cron, heartbeat, faults, asked, lastRun>>

SameSummary_ById(found, content) == found # Absent
SameSummary(found, content) == found = content

(* An insert that changed nothing is explained by later reads. *)
ReadExisting(f) ==
  /\ At(f, "existing")
  /\ LET found == IF HasActiveDevice(tables, Dev(f), Time(f))
                  THEN tables.rows[Dev(f)][flow[f].id] ELSE Absent
     IN  CASE found = Absent -> Goto(f, "consent") /\ UNCHANGED silentGrants
           [] found # Absent /\ ~SameSummary(found, flow[f].content) ->
                Refused(f, "conflict") /\ UNCHANGED silentGrants
           [] OTHER -> /\ Answered(f, <<>>, 0)
                       /\ silentGrants' = silentGrants - One(flow[f].consentGranted)
  /\ UNCHANGED <<now, schema, tables, enabled, cron, heartbeat, faults, asked, lastRun>>

RequireConsent(f) ==
  /\ At(f, "consent")
  /\ IF tables.consent[Dev(f)] = "granted" THEN Goto(f, "count")
     ELSE Refused(f, "consent-required")
  /\ UNCHANGED <<now, schema, tables, enabled, cron, heartbeat, faults, asked, silentGrants, lastRun>>

CountActive(f) ==
  /\ At(f, "count")
  /\ Refused(f, IF Cardinality(Stored(tables, Dev(f))) >= MaxActive
                THEN "storage-limit" ELSE "unavailable")
  /\ UNCHANGED <<now, schema, tables, enabled, cron, heartbeat, faults, asked, silentGrants, lastRun>>

(* Reading and clearing touch the identity only of a device whose lease runs. *)
ReadActive(f) ==
  /\ At(f, "active")
  /\ IF HasActiveDevice(tables, Dev(f), Time(f)) THEN Goto(f, "touch")
     ELSE Answered(f, <<>>, 0)
  /\ UNCHANGED <<now, schema, tables, enabled, cron, heartbeat, faults, asked, silentGrants, lastRun>>

TouchIdentity(f) ==
  /\ At(f, "touch")
  /\ tables' = Touch(tables, Dev(f), Time(f))
  /\ Goto(f, flow[f].kind)
  /\ UNCHANGED <<now, schema, enabled, cron, heartbeat, faults, asked, silentGrants, lastRun>>

(* A page: newest first after the cursor, one row more than the limit tells of a next. *)
FirstOf(set, limit) ==
  {page \in UNION {[1 .. n -> set] : n \in 0 .. limit} :
     /\ \A i, j \in DOMAIN page : i < j => page[i] < page[j]
     /\ \A s \in set \ {page[i] : i \in DOMAIN page} :
          Len(page) = limit /\ \A i \in DOMAIN page : page[i] < s}

HasNext_Late(after, limit) == Cardinality(after) > limit + 1
HasNext(after, limit) == Cardinality(after) > limit

ListPage(f) ==
  /\ At(f, "list")
  /\ LET after == {s \in Stored(tables, Dev(f)) : s > flow[f].cursor}
     IN  \E page \in FirstOf(after, flow[f].limit) :
           Answered(f, page, IF HasNext(after, flow[f].limit) THEN page[flow[f].limit] ELSE 0)
  /\ UNCHANGED <<now, schema, tables, enabled, cron, heartbeat, faults, asked, silentGrants, lastRun>>

ClearSummaries(f) ==
  /\ At(f, "clear")
  /\ tables' = ClearBatch(tables, Dev(f))
  /\ Answered(f, <<>>, 0)
  /\ UNCHANGED <<now, schema, enabled, cron, heartbeat, faults, asked, silentGrants, lastRun>>

(* A D1 call fails, or commits and its answer is lost: the route answers 503 either *)
(* way, and nothing is reported.                                                      *)
OnDatabase == {"batch", "existing", "consent", "count", "active", "touch", "list", "clear"}

CommittedBy(f) ==
  CASE At(f, "batch") -> SaveBatch(tables, Dev(f), flow[f].id, flow[f].content, Time(f))
    [] At(f, "touch") -> Touch(tables, Dev(f), Time(f))
    [] At(f, "clear") -> ClearBatch(tables, Dev(f))
    [] OTHER -> tables

D1Fails(f, committed) ==
  /\ flow[f].pc \in OnDatabase
  /\ faults < MaxFaults
  /\ faults' = faults + 1
  /\ tables' = IF committed THEN CommittedBy(f) ELSE tables
  /\ silentGrants' = silentGrants
       + One(committed /\ At(f, "batch") /\ GrantsConsent(tables, Dev(f), Time(f)))
  /\ Refused(f, "unavailable")
  /\ UNCHANGED <<now, schema, enabled, cron, heartbeat, asked, lastRun>>

-----------------------------------------------------------------------------
(* Scheduled cleanup: up to MaxBatches batches, each after its own look at the *)
(* schema marker, then the heartbeat.  A failure ends the run without one.     *)

Trigger(c) ==
  /\ cron[c].pc = "rest"
  /\ now % Day = CronTick /\ lastRun[c] < now
  /\ lastRun' = [lastRun EXCEPT ![c] = now]
  /\ cron' = [cron EXCEPT ![c].pc = "marker", ![c].at = now]
  /\ UNCHANGED <<now, schema, tables, enabled, flow, heartbeat, faults, asked, silentGrants>>

ReadMarker(c) ==
  /\ cron[c].pc = "marker"
  /\ cron' = [cron EXCEPT ![c] = IF schema \in Supported
                                 THEN [@ EXCEPT !.pc = "clean", !.read = schema] ELSE CronRest]
  /\ UNCHANGED <<now, schema, tables, enabled, flow, heartbeat, faults, asked, silentGrants, lastRun>>

AfterBatch(c, hasMore) ==
  cron' = [cron EXCEPT ![c].batches = @ + 1, ![c].hasMore = hasMore,
                       ![c].pc = CASE ~hasMore -> "heartbeat"
                                   [] hasMore /\ cron[c].batches + 1 = MaxBatches -> "backlog"
                                   [] OTHER -> "marker"]

(* One batch, in the order of its statements; receipts only if the run has seen their table. *)
CleanBatch(c) ==
  /\ cron[c].pc = "clean"
  /\ LET at    == cron[c].at
         kinds == ExpiredMilestones(tables, at, IF cron[c].read = 6 THEN schema ELSE 5)
     IN  \E rows \in Limited(ExpiredRows(tables, at)),
            consents \in Limited(ExpiredConsents(tables, at)) :
         LET bare == WithoutRows(tables, rows, consents) IN
         \E devices \in Limited(ExpiredDevices(bare, at)) :
         LET orphaned == DropDevices(bare, devices) IN
         \E profiles \in Limited(ExpiredProfiles(orphaned, at)) :
           /\ tables' = WithoutProfiles(orphaned, profiles, kinds)
           /\ AfterBatch(c, \/ FullBatch(Cardinality(rows)) \/ FullBatch(Cardinality(consents))
                            \/ FullBatch(Cardinality(devices)) \/ FullBatch(Cardinality(profiles))
                            \/ FullBatch(IF kinds = {} THEN 0 ELSE 1))
  /\ UNCHANGED <<now, schema, enabled, flow, heartbeat, faults, asked, silentGrants, lastRun>>

CheckBacklog(c) ==
  /\ cron[c].pc = "backlog"
  /\ cron' = [cron EXCEPT ![c].pc = "heartbeat",
                 ![c].hasMore = HasExpiredData(tables, cron[c].at, cron[c].read, schema)]
  /\ UNCHANGED <<now, schema, tables, enabled, flow, heartbeat, faults, asked, silentGrants, lastRun>>

(* An older run changes nothing; of two runs of one schedule a clean result stays. *)
RecordHeartbeat(c) ==
  /\ cron[c].pc = "heartbeat"
  /\ heartbeat' =
       CASE cron[c].at > heartbeat.at ->
              [at |-> cron[c].at, backlog |-> cron[c].hasMore, swept |-> TRUE]
         [] cron[c].at = heartbeat.at ->
              [heartbeat EXCEPT !.backlog = @ /\ cron[c].hasMore]
         [] OTHER -> heartbeat
  /\ cron' = [cron EXCEPT ![c] = CronRest]
  /\ UNCHANGED <<now, schema, tables, enabled, flow, faults, asked, silentGrants, lastRun>>

CronFails(c) ==
  /\ cron[c].pc \in {"clean", "backlog", "heartbeat"}
  /\ faults < MaxFaults
  /\ faults' = faults + 1
  /\ cron' = [cron EXCEPT ![c] = CronRest]
  /\ UNCHANGED <<now, schema, tables, enabled, flow, heartbeat, asked, silentGrants, lastRun>>

CleanupStatus(beat, t) ==
  IF t - beat.at > StaleAfter THEN "stale"
  ELSE IF beat.backlog THEN "backlog" ELSE "ready"

-----------------------------------------------------------------------------
(* Migrations 4, 5 and 6, and the clock. *)

Unmigrated == 3 .. 5

Migrate ==
  /\ schema \in Unmigrated /\ now <= MigrationTime
  /\ schema' = schema + 1
  /\ tables' = IF schema = 3 THEN Backfilled(tables) ELSE tables
  /\ heartbeat' = IF schema = 4 THEN [at |-> now, backlog |-> FALSE, swept |-> FALSE]
                  ELSE heartbeat
  /\ UNCHANGED <<now, enabled, flow, cron, faults, asked, silentGrants, lastRun>>

InService(f) == flow[f].pc \in OnDatabase

(* Requests may straddle a tick; an invocation ends minutes after 03:17. *)
Tick ==
  /\ now < MaxTime
  /\ \A c \in Crons : cron[c].pc = "rest"
  /\ \A f \in Flows : InService(f) => now < Time(f) + RequestTime
  /\ now' = now + 1
  /\ UNCHANGED <<schema, tables, enabled, flow, cron, heartbeat, faults, asked, silentGrants, lastRun>>

-----------------------------------------------------------------------------
(* The database of an older release, with a device that has no profile, or an empty one *)
(* of the newest schema, with facts and receipts of rooms.                              *)
Older(d, content) ==
  [NoTables EXCEPT !.expires[d] = Day, !.consent[d] = "granted",
     !.rows[d] = [s \in Sessions |-> IF s \in OldSummaries THEN content ELSE Absent],
     !.milestone["fact"] = Day]

Fresh == [NoTables EXCEPT !.milestone = [k \in Milestones |-> Day]]

Init ==
  /\ now = 1
  /\ \/ /\ schema = 3
        /\ \E d \in Devices, content \in Contents :
             tables = Older(d, content) /\ enabled = [e \in Devices |-> e = d]
     \/ schema = 6 /\ tables = Fresh /\ enabled = [d \in Devices |-> FALSE]
  /\ flow = [f \in Flows |-> Rest]
  /\ cron = [c \in Crons |-> CronRest] /\ lastRun = [c \in Crons |-> 0]
  /\ heartbeat = [at |-> 0, backlog |-> FALSE, swept |-> FALSE]
  /\ faults = 0 /\ asked = 0 /\ silentGrants = 0
  /\ lasting = [f \in Flows |-> {}]

Serve(f) ==
  \/ SaveConsented(f) \/ ReadExisting(f) \/ RequireConsent(f) \/ CountActive(f)
  \/ ReadActive(f) \/ TouchIdentity(f) \/ ListPage(f) \/ ClearSummaries(f)

Clean(c) == ReadMarker(c) \/ CleanBatch(c) \/ CheckBacklog(c) \/ RecordHeartbeat(c)

Act ==
  \/ \E f \in Flows, d \in Devices :
       \/ \E s \in Sessions, content \in Contents : AskSave(f, d, s, content)
       \/ AskList(f, d) \/ AskExport(f, d) \/ AskClear(f, d)
  \/ \E f \in Flows : ClientAnswer(f) \/ Serve(f)
  \/ \E f \in Flows, committed \in BOOLEAN : D1Fails(f, committed)
  \/ \E c \in Crons : Trigger(c) \/ Clean(c) \/ CronFails(c)
  \/ Migrate \/ Tick

(* What has been stored under a running lease all the while a flow's request is under way. *)
Visible(d) == IF HasActiveDevice(tables, d, now) THEN Stored(tables, d) ELSE {}

Lasting(f) ==
  IF At(f, "rest")' \/ flow'[f].kind # "list" THEN {}
  ELSE IF At(f, "rest") THEN Visible(flow[f].dev)' ELSE lasting[f] \cap Visible(flow[f].dev)'

Next == Act /\ lasting' = [f \in Flows |-> Lasting(f)]

Spec == Init /\ [][Next]_vars
=============================================================================
