----------------------------- MODULE CloudStore -----------------------------
(***************************************************************************)
(* The D1 tables behind cloud progress and the statements that change them *)
(* (src/cloudflare/platform.ts, sync-identity.ts, migrations/).  A D1 batch *)
(* is one transaction, so each batch is one operator from tables to tables; *)
(* CloudProgress interleaves them.                                         *)
(*                                                                         *)
(* A summary is an id with a content: two summaries are the same when their *)
(* serialized forms are.  Ids are numbers whose order is the order of the  *)
(* page query, newest first.  Time is counted in ticks, Day of them a day. *)
(***************************************************************************)
EXTENDS Integers, FiniteSets

CONSTANTS
  Devices,            \* hashed browser tokens
  Sessions,           \* ids of summaries, positive and in page order
  Contents,           \* serialized summaries
  MaxActive,          \* MAX_ACTIVE_COACHING_SUMMARIES
  Retention,          \* ANONYMOUS_DATA_RETENTION_MS
  FactRetention,      \* ROOM_FACT_RETENTION_MS, and that of a receipt
  Day,                \* ticks per day
  BatchSize           \* RETENTION_CLEANUP_BATCH_SIZE

ASSUME StoreAssumption ==
  /\ IsFiniteSet(Devices)
  /\ IsFiniteSet(Sessions) /\ Sessions # {} /\ Sessions \subseteq Nat \ {0}
  /\ Contents # {} /\ "absent" \notin Contents
  /\ MaxActive \in Nat \ {0} /\ Retention \in Nat \ {0} /\ FactRetention \in Nat \ {0}
  /\ Day \in Nat \ {0} /\ BatchSize \in Nat \ {0}

Absent == "absent"
NoRow == 0
Milestones == {"fact", "receipt"}

ExpiryFrom(t) == ((t + Retention + Day - 1) \div Day) * Day

NoTables ==
  [expires   |-> [d \in Devices |-> NoRow],
   consent   |-> [d \in Devices |-> "none"],
   rows      |-> [d \in Devices |-> [s \in Sessions |-> Absent]],
   profiles  |-> {},
   milestone |-> [k \in Milestones |-> NoRow]]

Stored(tables, d) == {s \in Sessions : tables.rows[d][s] # Absent}
HasActiveDevice(tables, d, t) == tables.expires[d] > t
Expired(tables, d, t) == tables.expires[d] \in 1 .. t
MemberProfiles(tables, d) == {p \in tables.profiles : p.device = d /\ p.member}

(* A deleted device takes its rows along; its profile loses its member. *)
DropDevices(tables, gone) ==
  [tables EXCEPT
     !.expires  = [d \in Devices |-> IF d \in gone THEN NoRow ELSE @[d]],
     !.consent  = [d \in Devices |-> IF d \in gone THEN "none" ELSE @[d]],
     !.rows     = [d \in Devices |-> IF d \in gone THEN [s \in Sessions |-> Absent] ELSE @[d]],
     !.profiles = {IF p.device \in gone THEN [p EXCEPT !.member = FALSE] ELSE p : p \in @}]

(* One profile per device, with the expiry of the device it belongs to. *)
WithProfile(tables, d) ==
  LET lease == tables.expires[d]
      other == tables.profiles \ MemberProfiles(tables, d)
  IN  [tables EXCEPT !.profiles =
         IF MemberProfiles(tables, d) = {}
         THEN @ \cup {[device |-> d, expires |-> lease, member |-> TRUE]}
         ELSE other \cup {[p EXCEPT !.expires = lease] : p \in MemberProfiles(tables, d)}]

Lengthened_Always(lease, t) == ExpiryFrom(t)
Lengthened(lease, t) == IF ExpiryFrom(t) > lease THEN ExpiryFrom(t) ELSE lease

Touch(tables, d, t) ==
  LET live == IF Expired(tables, d, t) THEN DropDevices(tables, {d}) ELSE tables
  IN  WithProfile([live EXCEPT !.expires[d] = Lengthened(@, t)], d)

Insertable_OneMore(tables, d, s, t) ==
  /\ tables.consent[d] = "granted" /\ HasActiveDevice(tables, d, t)
  /\ Cardinality(Stored(tables, d)) <= MaxActive /\ tables.rows[d][s] = Absent
Insertable(tables, d, s, t) ==
  /\ tables.consent[d] = "granted" /\ HasActiveDevice(tables, d, t)
  /\ Cardinality(Stored(tables, d)) < MaxActive
  /\ tables.rows[d][s] = Absent

(* One batch: identity, consent, insert. *)
Consented(tables, d, t) == [Touch(tables, d, t) EXCEPT !.consent[d] = "granted"]
GrantsConsent(tables, d, t) == Touch(tables, d, t).consent[d] # "granted"
Creates(tables, d, s, t) == Insertable(Consented(tables, d, t), d, s, t)

SaveBatch(tables, d, s, content, t) ==
  IF Creates(tables, d, s, t) THEN [Consented(tables, d, t) EXCEPT !.rows[d][s] = content]
  ELSE Consented(tables, d, t)

ClearBatch(tables, d) ==
  [tables EXCEPT !.rows[d]    = [s \in Sessions |-> Absent],
                 !.consent[d] = IF tables.expires[d] = NoRow THEN @ ELSE "revoked"]

-----------------------------------------------------------------------------
(* What one cleanup batch may delete: LIMIT takes any rows of those expired. *)
Limited(set) ==
  {part \in SUBSET set :
     Cardinality(part) = IF Cardinality(set) < BatchSize THEN Cardinality(set) ELSE BatchSize}

ExpiredRows(tables, t) ==
  {ds \in Devices \X Sessions : Expired(tables, ds[1], t) /\ ds[2] \in Stored(tables, ds[1])}
ExpiredConsents(tables, t) ==
  {d \in Devices : Expired(tables, d, t) /\ tables.consent[d] # "none"}
ExpiredDevices(tables, t) ==
  {d \in Devices : Expired(tables, d, t) /\ Stored(tables, d) = {} /\ tables.consent[d] = "none"}
ExpiredProfiles(tables, t) == {p \in tables.profiles : p.expires <= t /\ ~p.member}
ExpiredMilestones(tables, t, schema) ==
  {k \in Milestones : tables.milestone[k] \in 1 .. t /\ (k = "receipt" => schema = 6)}

WithoutRows(tables, rows, consents) ==
  [tables EXCEPT
     !.rows    = [d \in Devices |-> [s \in Sessions |-> IF <<d, s>> \in rows THEN Absent ELSE @[d][s]]],
     !.consent = [d \in Devices |-> IF d \in consents THEN "none" ELSE @[d]]]

FullBatch_More(count) == count > BatchSize
FullBatch(count) == count >= BatchSize

(* The last statements of a batch: profiles without a member, facts and receipts. *)
WithoutProfiles(tables, profiles, kinds) ==
  [tables EXCEPT
     !.profiles  = @ \ profiles,
     !.milestone = [k \in Milestones |-> IF k \in kinds THEN NoRow ELSE @[k]]]

HasExpiredData(tables, t, read, schema) ==
  \/ ExpiredRows(tables, t) # {} \/ ExpiredConsents(tables, t) # {}
  \/ ExpiredDevices(tables, t) # {} \/ ExpiredProfiles(tables, t) # {}
  \/ ExpiredMilestones(tables, t, IF read = 6 THEN schema ELSE 5) # {}

-----------------------------------------------------------------------------
(* Migration 4 gives every existing device a profile of its own. *)
Backfilled(tables) ==
  [tables EXCEPT !.profiles =
     {[device |-> d, expires |-> tables.expires[d], member |-> TRUE]
        : d \in {e \in Devices : tables.expires[e] # NoRow}}]
=============================================================================
