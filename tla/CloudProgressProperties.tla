----------------------- MODULE CloudProgressProperties -----------------------
(* What cloud progress promises, whatever order requests, cleanups, faults *)
(* and migrations come in.                                                 *)
EXTENDS CloudProgress

Tables ==
  [expires : [Devices -> Nat], consent : [Devices -> {"none", "granted", "revoked"}],
   rows : [Devices -> [Sessions -> Contents \cup {Absent}]],
   profiles : SUBSET [device : Devices, expires : Nat, member : BOOLEAN],
   milestone : [Milestones -> Nat]]

Requests ==
  [pc : {"rest", "answered"} \cup OnDatabase, dev : Devices, time : Nat,
   kind : {"none", "save", "list", "clear"}, id : Nat, content : Contents \cup {Absent},
   limit : Nat, cursor : Nat, got : Seq(Nat), check : BOOLEAN, consentGranted : BOOLEAN,
   page : Seq(Nat), next : Nat]

Invocations ==
  [pc : {"rest", "marker", "clean", "backlog", "heartbeat"}, at : Nat, read : Nat,
   batches : Nat, hasMore : BOOLEAN]

(* The state has its type. *)
TypeOK ==
  /\ now \in 1 .. MaxTime /\ schema \in 3 .. 6 /\ tables \in Tables
  /\ enabled \in [Devices -> BOOLEAN]
  /\ flow \in [Flows -> Requests] /\ cron \in [Crons -> Invocations]
  /\ lastRun \in [Crons -> Nat] /\ faults \in Nat /\ asked \in Nat
  /\ heartbeat \in [at : 0 .. MaxTime, backlog : BOOLEAN, swept : BOOLEAN]

(* A browser never has more summaries stored than the limit, however many of its *)
(* requests save at once (INSERT_SUMMARY_SQL, platform.ts:890).                   *)
QuotaHolds == \A d \in Devices : Cardinality(Stored(tables, d)) <= MaxActive

(* Summaries are stored only under granted consent; only a cleanup that has begun to *)
(* delete an expired browser may leave some behind (platform.ts:882, 1261, 1569).    *)
SummariesNeedConsent ==
  \A d \in Devices : Stored(tables, d) # {} =>
    tables.consent[d] = "granted" \/ (tables.consent[d] = "none" /\ tables.expires[d] <= now)

(* A request that answers "saved" leaves that very summary in the store, also when it *)
(* was stored by an earlier try (platform.ts:1451).                                    *)
SavedIsStored ==
  [][\A f \in Flows :
       ~At(f, "answered") /\ At(f, "answered")' /\ flow[f].kind = "save"
       => tables'.rows[Dev(f)][flow[f].id] = flow[f].content]_vars

(* A summary stored under a running lease never changes its content (platform.ts:895, 1474). *)
SummariesImmutable ==
  [][\A d \in Devices, s \in Sessions :
       HasActiveDevice(tables, d, now) /\ tables.rows[d][s] # Absent
       => tables'.rows[d][s] \in {tables.rows[d][s], Absent}]_vars

(* Every device has exactly one profile, whose lease is that of the device, so that *)
(* cleanup cannot take the profile of a browser in use (sync-identity.ts:68, platform.ts:1600).  *)
ProfileFollowsDevice ==
  schema >= 4 => \A d \in Devices : tables.expires[d] # NoRow =>
    /\ Cardinality(MemberProfiles(tables, d)) = 1
    /\ \A p \in MemberProfiles(tables, d) : p.expires = tables.expires[d]

(* What is stored is stored lawfully, and a cleanup will find it. *)
StoreIsLawful == TypeOK /\ QuotaHolds /\ SummariesNeedConsent /\ ProfileFollowsDevice

(* A late request does not shorten the lease another has obtained: a lease changes to a *)
(* longer one, or ends when it has run out (sync-identity.ts:22).                        *)
LeaseNeverShortens ==
  [][\A d \in Devices : tables'.expires[d] < tables.expires[d] => tables.expires[d] <= now]_vars

(* Whatever disappears is deleted by its browser or belongs to a browser whose lease ran *)
(* out: cleanup spares the browsers in use (platform.ts:1569-1599).                       *)
OnlyExpiredDataIsSwept ==
  [][\A d \in Devices : Stored(tables, d) \ Stored(tables', d) # {} =>
       \/ tables.expires[d] <= now
       \/ \E f \in Flows : At(f, "clear") /\ Dev(f) = d]_vars

(* Nobody's data is touched before its time: not by late requests, cleanups or other *)
(* browsers.                                                                           *)
NothingEndsEarly == SummariesImmutable /\ LeaseNeverShortens /\ OnlyExpiredDataIsSwept

(* The status "ready" tells the truth: nothing whose lease had run out when the last *)
(* cleanup was scheduled is stored any more (platform-routes.ts:482, platform.ts:1645). *)
ReadyMeansSwept ==
  schema \in Supported /\ CleanupStatus(heartbeat, now) = "ready" /\ heartbeat.swept
  => ~HasExpiredData(tables, heartbeat.at, schema, schema)

(* A browser that pages through its history gets each summary stored all the while, none *)
(* twice and newest first, although others come and go (platform.ts:1163-1197).           *)
ListIsComplete ==
  \A f \in Flows :
    At(f, "answered") /\ flow[f].kind = "list" /\ flow[f].next = 0
    => LET all == flow[f].got \o flow[f].page
       IN  /\ lasting[f] \subseteq {all[i] : i \in DOMAIN all}
           /\ \A i, j \in DOMAIN all : i < j => all[i] < all[j]

(* A browser's consent is not granted without the event that counts it: the save that *)
(* grants it also creates its summary, for without consent nothing is stored; only a   *)
(* failing D1 call loses the event (platform-routes.ts:141, platform.ts:1104).          *)
NoSilentGrant == faults = 0 => silentGrants = 0

(* What the operator reads off the cleanup status and the event counts is true. *)
OperatorIsTold == ReadyMeansSwept /\ NoSilentGrant
=============================================================================
