------------------------- MODULE CloudProgressProofs -------------------------
(***************************************************************************)
(* Cloud progress, for any browsers, summaries, limits, clocks and numbers *)
(* of requests and cleanups: the store stays lawful, nothing ends early,   *)
(* saved means stored, a listing is complete and the operator is told the  *)
(* truth.  First what each batch does to the tables, then the steps.       *)
(***************************************************************************)
EXTENDS CloudProgressProperties, FiniteSetTheorems, SequenceTheorems, TLAPS

-----------------------------------------------------------------------------
(* The inductive invariant of the tables at a time t                       *)

\* A browser without a row has nothing else; a lease ends at a midnight.
Bare(T) ==
  \A d \in Devices :
    /\ T.expires[d] = NoRow => T.consent[d] = "none" /\ Stored(T, d) = {}
    /\ \E q \in Nat : T.expires[d] = Day * q

Bounded(T) == \A d \in Devices : Cardinality(Stored(T, d)) <= MaxActive

\* Rows without consent are what a cleanup has not come to yet, hours after their lease.
Lawful(T, t) ==
  \A d \in Devices : Stored(T, d) # {} =>
    T.consent[d] = "granted" \/ (T.consent[d] = "none" /\ T.expires[d] + CronTick <= t)

StoreInv(T, t) == T \in Tables /\ Bare(T) /\ Bounded(T) /\ Lawful(T, t)

\* Each browser with a row has the one profile of its lease, and no other has any.
ProfileOf(d, lease) == [device |-> d, expires |-> lease, member |-> TRUE]
Profiled(T) ==
  /\ IsFiniteSet(T.profiles)
  /\ \A d \in Devices :
       MemberProfiles(T, d) = IF T.expires[d] = NoRow THEN {} ELSE {ProfileOf(d, T.expires[d])}

\* Nothing is left whose time was over at that time.
Swept(T, at) ==
  /\ \A d \in Devices : ~Expired(T, d, at)
  /\ \A p \in T.profiles : p.member \/ p.expires > at
  /\ \A k \in Milestones : T.milestone[k] \notin 1 .. at

\* Times of the scheduled cleanup.
Scheduled(t) == \E k \in Nat : t = Day * k + CronTick

-----------------------------------------------------------------------------
(* The inductive invariant of requests, cleanups and the heartbeat         *)

\* A request r, at time t, with the database at version v.
Asks(r, t, v) ==
  /\ r.pc # "rest" => v \in Supported /\ r.kind # "none"
  /\ r.pc \in OnDatabase => r.time <= t /\ t <= r.time + RequestTime
  /\ r.pc \in {"batch", "existing", "consent", "count"} =>
       r.kind = "save" /\ r.content \in Contents /\ r.id \in Sessions
  /\ r.pc \in {"active", "touch"} => r.kind \in {"list", "clear"}
  /\ r.pc = "list" => r.kind = "list"
  /\ r.pc \in OnDatabase /\ r.kind = "list" => r.limit # 0
  /\ r.pc = "clear" => r.kind = "clear"
  /\ r.pc = "existing" => r.consentGranted = FALSE

\* An invocation k: what it will report as finished is finished.
Cleans(k, T, t, v) ==
  /\ k.pc # "rest" => k.at = t /\ Scheduled(t)
  /\ k.pc \in {"clean", "backlog", "heartbeat"} => v \in Supported
  /\ k.pc \in {"clean", "backlog"} /\ T.milestone["receipt"] # NoRow => k.read = 6
  /\ k.pc = "heartbeat" /\ k.hasMore = FALSE => Swept(T, t)

\* The heartbeat h.
Beats(h, T, t, v) ==
  h.swept = TRUE =>
    /\ v \in Supported /\ h.at <= t /\ Scheduled(h.at)
    /\ h.backlog = FALSE => Swept(T, h.at)

CloudInv ==
  /\ TypeOK /\ StoreInv(tables, now)
  /\ schema >= 4 => Profiled(tables)
  /\ tables.milestone["receipt"] # NoRow => schema = 6
  /\ \A f \in Flows : Asks(flow[f], now, schema)
  /\ \A c \in Crons : Cleans(cron[c], tables, now, schema)
  /\ Beats(heartbeat, tables, now, schema)
  /\ silentGrants \in Nat /\ (faults = 0 => silentGrants = 0)

\* A list: what has been read goes on in order, up to the cursor, and leaves out nothing
\* that has been stored all the while.
Increasing(s) == \A i, j \in DOMAIN s : i < j => s[i] < s[j]
Taken(s, set, last) ==
  /\ Increasing(s)
  /\ \A i \in DOMAIN s : last # 0 => s[i] <= last
  /\ \A x \in set : (last = 0 \/ x <= last) => \E i \in DOMAIN s : s[i] = x

\* A request r of which `kept` has been stored all the while, and `seen` is what there is.
Reads(r, kept, seen) ==
  r.kind = "list" /\ r.pc # "rest" =>
    /\ kept \subseteq seen
    /\ r.cursor = 0 => r.got = <<>>
    /\ r.cursor # 0 => Taken(r.got, kept, r.cursor)
    /\ r.pc = "answered" => Taken(r.got \o r.page, kept, r.next)

ListInv == \A f \in Flows : Reads(flow[f], lasting[f], Visible(flow[f].dev))

-----------------------------------------------------------------------------
(* Midnights                                                               *)

LEMMA Quantities ==
  /\ Day \in Nat \ {0} /\ CronTick \in Nat \ {0} /\ CronTick < Day /\ RequestTime \in Nat \ {0}
  /\ RequestTime <= CronTick /\ Retention \in Nat \ {0} /\ MaxActive \in Nat \ {0}
  /\ IsFiniteSet(Devices) /\ IsFiniteSet(Sessions) /\ BatchSize \in Nat \ {0}
BY StoreAssumption, CloudAssumption

LEMMA MoreDays ==
  ASSUME NEW n \in Nat, NEW q \in Nat, NEW k \in Nat, q <= k
  PROVE  n * q <= n * k
OBVIOUS

\* A lease that is over when the cleanup runs has been over since midnight.
LEMMA OverSinceMidnight ==
  ASSUME NEW q \in Nat, NEW k \in Nat, Day * q <= Day * k + CronTick
  PROVE  Day * q <= Day * k
<1>1. CASE q <= k
  BY <1>1, MoreDays, Quantities
<1>2. CASE k + 1 <= q
  <2>1. Day * (k + 1) <= Day * q
    BY <1>2, MoreDays, Quantities
  <2>2. Day * (k + 1) = Day * k + Day
    BY Quantities
  <2>3. PICK a \in Int, b \in Int, c \in Int : a = Day * q /\ b = Day * k /\ c = Day * (k + 1)
    BY Quantities
  <2>4. FALSE
    BY <2>1, <2>2, <2>3, Quantities
  <2>5. QED
    BY <2>4
<1>3. QED
  BY <1>1, <1>2

LEMMA ExpiryIsLater ==
  ASSUME NEW t \in Nat
  PROVE  /\ ExpiryFrom(t) \in Nat /\ ExpiryFrom(t) > t
         /\ \E q \in Nat : ExpiryFrom(t) = Day * q
<1>1. PICK x \in Nat : x = t + Retention + Day - 1
  BY Quantities
<1>2. PICK q \in Nat : q = x \div Day
  BY Quantities
<1>3. Day * q + Day > x
  BY <1>2, Quantities
<1>4. ExpiryFrom(t) = q * Day /\ q * Day = Day * q
  BY <1>1, <1>2, Quantities DEF ExpiryFrom
<1>5. PICK e \in Nat : e = Day * q
  BY Quantities
<1>6. e > t
  BY <1>1, <1>3, <1>5, Quantities
<1>7. QED
  BY <1>4, <1>5, <1>6

-----------------------------------------------------------------------------
(* Tables                                                                  *)

Members == [device : Devices, expires : Nat, member : BOOLEAN]

LEMMA TableTypes ==
  ASSUME NEW T \in Tables, NEW d \in Devices
  PROVE  /\ T.expires[d] \in Nat /\ T.consent[d] \in {"none", "granted", "revoked"}
         /\ T.rows[d] \in [Sessions -> Contents \cup {Absent}]
         /\ T.profiles \subseteq Members /\ T.milestone \in [Milestones -> Nat]
         /\ Stored(T, d) \subseteq Sessions
BY DEF Tables, Members, Stored

LEMMA FewerStored ==
  ASSUME NEW A, NEW B, B \subseteq Sessions, A \subseteq B
  PROVE  Cardinality(A) <= Cardinality(B) /\ Cardinality(A) \in Nat /\ Cardinality(B) \in Nat
         /\ IsFiniteSet(A) /\ IsFiniteSet(B)
<1>1. IsFiniteSet(B)
  BY Quantities, FS_Subset
<1>2. QED
  BY <1>1, FS_Subset, FS_CardinalityType

\* What a batch does to the devices it deletes and to the others.
Dropping(T, U, gone) ==
  /\ U \in Tables /\ U.milestone = T.milestone
  /\ \A d \in gone : U.expires[d] = NoRow /\ U.consent[d] = "none" /\ Stored(U, d) = {}
                     /\ \A s \in Sessions : U.rows[d][s] = Absent
  /\ \A d \in Devices \ gone : /\ U.expires[d] = T.expires[d] /\ U.consent[d] = T.consent[d]
                               /\ U.rows[d] = T.rows[d]

Retired(p) == [device |-> p.device, expires |-> p.expires, member |-> FALSE]
DroppingProfiles(T, U, gone) ==
  /\ IsFiniteSet(T.profiles) => IsFiniteSet(U.profiles)
  /\ \A d \in Devices :
       MemberProfiles(U, d) = IF d \in gone THEN {} ELSE MemberProfiles(T, d)
  /\ \A p \in U.profiles :
       p \in T.profiles \/ \E r \in T.profiles : r.device \in gone /\ p = Retired(r)

LEMMA DropDevicesDrops ==
  ASSUME NEW T \in Tables, NEW gone \in SUBSET Devices, NEW U, U = DropDevices(T, gone)
  PROVE  Dropping(T, U, gone) /\ DroppingProfiles(T, U, gone)
<1> DEFINE Left(p) == IF p.device \in gone THEN Retired(p) ELSE p
           kept == {Left(p) : p \in T.profiles}
<1>1. T.profiles \subseteq Members
  BY DEF Tables, Members
<1>2. kept = {IF p.device \in gone THEN [p EXCEPT !.member = FALSE] ELSE p : p \in T.profiles}
  BY <1>1 DEF Members, Retired
<1>3. kept \subseteq Members
  <2>1. ASSUME NEW p \in T.profiles PROVE Retired(p) \in Members /\ p \in Members
    <3>1. p \in Members
      BY <1>1
    <3>2. p.device \in Devices /\ p.expires \in Nat
      BY <3>1 DEF Members
    <3>3. QED
      BY <3>1, <3>2 DEF Members, Retired
  <2>2. QED
    BY <2>1
<1>4. PICK expires, consent, rows :
        /\ expires = [d \in Devices |-> IF d \in gone THEN NoRow ELSE T.expires[d]]
        /\ consent = [d \in Devices |-> IF d \in gone THEN "none" ELSE T.consent[d]]
        /\ rows = [d \in Devices |-> IF d \in gone THEN [s \in Sessions |-> Absent] ELSE T.rows[d]]
  OBVIOUS
<1>5. U = [T EXCEPT !.expires = expires, !.consent = consent, !.rows = rows, !.profiles = kept]
  BY <1>2, <1>4 DEF DropDevices
<1>6. /\ expires \in [Devices -> Nat] /\ consent \in [Devices -> {"none", "granted", "revoked"}]
      /\ rows \in [Devices -> [Sessions -> Contents \cup {Absent}]]
  BY <1>4 DEF Tables, NoRow
<1> HIDE DEF kept
<1>7. /\ U \in Tables /\ U.milestone = T.milestone /\ U.expires = expires /\ U.consent = consent
      /\ U.rows = rows /\ U.profiles = kept
  BY <1>3, <1>5, <1>6 DEF Tables, Members
<1>8. Dropping(T, U, gone)
  BY <1>4, <1>7 DEF Dropping, Stored
<1>9. IsFiniteSet(T.profiles) => IsFiniteSet(kept)
  <2>1. PICK img : img = [p \in T.profiles |-> Left(p)]
    OBVIOUS
  <2>2. img \in Surjection(T.profiles, kept)
    BY <2>1 DEF Surjection, kept
  <2>3. QED
    BY <2>2, FS_Surjection
<1>10. \A d \in Devices :
         {p \in kept : p.device = d /\ p.member}
           = IF d \in gone THEN {} ELSE {p \in T.profiles : p.device = d /\ p.member}
  BY <1>1 DEF kept, Members, Retired
<1>11. \A p \in kept : p \in T.profiles \/ \E r \in T.profiles : r.device \in gone /\ p = Retired(r)
  BY DEF kept
<1>12. QED
  BY <1>7, <1>8, <1>9, <1>10, <1>11 DEF DroppingProfiles, MemberProfiles

-----------------------------------------------------------------------------
(* The identity touch                                                      *)

\* Profiles of U are a member's, or were in T, or have lost a member of T.
Profiles(T, U) ==
  \A p \in U.profiles :
    p.member \/ p \in T.profiles
    \/ \E d \in Devices : T.expires[d] # NoRow /\ p.expires = T.expires[d]

LEMMA DropProfiles ==
  ASSUME NEW T \in Tables, Profiled(T), NEW gone \in SUBSET Devices,
         NEW U, Dropping(T, U, gone), DroppingProfiles(T, U, gone)
  PROVE  Profiled(U) /\ Profiles(T, U)
<1>1. Profiled(U)
  <2>1. IsFiniteSet(U.profiles)
    BY DEF Profiled, DroppingProfiles
  <2>2. ASSUME NEW d \in Devices
        PROVE  MemberProfiles(U, d) = IF U.expires[d] = NoRow THEN {} ELSE {ProfileOf(d, U.expires[d])}
    BY <2>2 DEF Profiled, Dropping, DroppingProfiles
  <2>3. QED
    BY <2>1, <2>2 DEF Profiled
<1>2. ASSUME NEW p \in U.profiles, ~p.member, p \notin T.profiles
      PROVE  \E d \in Devices : T.expires[d] # NoRow /\ p.expires = T.expires[d]
  <2>1. PICK r \in T.profiles : p = Retired(r)
    BY <1>2 DEF DroppingProfiles
  <2>2. r \in Members /\ r.device \in Devices
    BY DEF Tables, Members
  <2>3. r.member
    <3>1. SUFFICES ASSUME ~r.member PROVE FALSE
      OBVIOUS
    <3>2. r = Retired(r)
      BY <2>2, <3>1 DEF Members, Retired
    <3>3. QED
      BY <1>2, <2>1, <3>2
  <2>4. r \in MemberProfiles(T, r.device)
    BY <2>2, <2>3 DEF MemberProfiles
  <2>5. T.expires[r.device] # NoRow /\ r = ProfileOf(r.device, T.expires[r.device])
    BY <2>2, <2>4 DEF Profiled
  <2>6. r.expires = T.expires[r.device]
    BY <2>5 DEF ProfileOf
  <2>7. p.expires = r.expires
    BY <2>1 DEF Retired
  <2>8. QED
    BY <2>2, <2>5, <2>6, <2>7
<1>3. QED
  BY <1>1, <1>2 DEF Profiles

LEMMA WithProfileSets ==
  ASSUME NEW T \in Tables, NEW d \in Devices,
         MemberProfiles(T, d) = {} \/ \E l \in Nat : MemberProfiles(T, d) = {ProfileOf(d, l)}
  PROVE  WithProfile(T, d)
           = [T EXCEPT !.profiles =
                (T.profiles \ MemberProfiles(T, d)) \cup {ProfileOf(d, T.expires[d])}]
<1>1. CASE MemberProfiles(T, d) = {}
  BY <1>1 DEF WithProfile, ProfileOf, Tables
<1>2. ASSUME NEW l \in Nat, MemberProfiles(T, d) = {ProfileOf(d, l)}
      PROVE  WithProfile(T, d)
               = [T EXCEPT !.profiles =
                    (T.profiles \ MemberProfiles(T, d)) \cup {ProfileOf(d, T.expires[d])}]
  <2>1. {[p EXCEPT !.expires = T.expires[d]] : p \in MemberProfiles(T, d)}
          = {ProfileOf(d, T.expires[d])}
    <3>1. PICK e \in Nat : e = T.expires[d]
      BY TableTypes
    <3>2. [ProfileOf(d, l) EXCEPT !.expires = e] = ProfileOf(d, e)
      <4>1. PICK p \in Members : p = ProfileOf(d, l)
        BY DEF ProfileOf, Members
      <4>2. p.device = d /\ p.member = TRUE
        BY <4>1, Zenon DEF ProfileOf
      <4>3. [p EXCEPT !.expires = e] = [device |-> p.device, expires |-> e, member |-> p.member]
        BY DEF Members
      <4>4. QED
        BY <4>1, <4>2, <4>3, Zenon DEF ProfileOf
    <3>3. {[p EXCEPT !.expires = e] : p \in {ProfileOf(d, l)}} = {[ProfileOf(d, l) EXCEPT !.expires = e]}
      OBVIOUS
    <3>4. {[p EXCEPT !.expires = e] : p \in MemberProfiles(T, d)} = {ProfileOf(d, e)}
      BY <1>2, <3>2, <3>3
    <3>5. QED
      BY <3>1, <3>4
  <2>2. MemberProfiles(T, d) # {}
    BY <1>2
  <2>3. QED
    BY <2>1, <2>2 DEF WithProfile, Tables
<1>3. QED
  BY <1>1, <1>2

\* What a touch does to the row of its device, and to the others.
Touching(T, U, d, t) ==
  /\ U \in Tables /\ U.milestone = T.milestone
  /\ \A e \in Devices \ {d} : /\ U.expires[e] = T.expires[e] /\ U.consent[e] = T.consent[e]
                              /\ U.rows[e] = T.rows[e]
  /\ Expired(T, d, t) => /\ U.expires[d] = ExpiryFrom(t) /\ U.consent[d] = "none"
                         /\ \A s \in Sessions : U.rows[d][s] = Absent
  /\ ~Expired(T, d, t) => /\ U.expires[d] = Lengthened(T.expires[d], t)
                          /\ U.consent[d] = T.consent[d] /\ U.rows[d] = T.rows[d]

LEMMA TouchTouches ==
  ASSUME NEW T \in Tables, Profiled(T), NEW d \in Devices, NEW t \in Nat, NEW U, U = Touch(T, d, t)
  PROVE  Touching(T, U, d, t) /\ Profiled(U) /\ Profiles(T, U)
<1>1. PICK live : live = IF Expired(T, d, t) THEN DropDevices(T, {d}) ELSE T
  OBVIOUS
<1>2. /\ live \in Tables /\ Profiled(live) /\ Profiles(T, live) /\ live.milestone = T.milestone
      /\ \A e \in Devices \ {d} : /\ live.expires[e] = T.expires[e] /\ live.consent[e] = T.consent[e]
                                  /\ live.rows[e] = T.rows[e]
      /\ Expired(T, d, t) => /\ live.expires[d] = NoRow /\ live.consent[d] = "none"
                             /\ \A s \in Sessions : live.rows[d][s] = Absent
      /\ ~Expired(T, d, t) => live = T
  <2>1. CASE Expired(T, d, t)
    <3>1. live = DropDevices(T, {d}) /\ {d} \in SUBSET Devices
      BY <1>1, <2>1
    <3>2. Dropping(T, live, {d}) /\ DroppingProfiles(T, live, {d})
      BY <3>1, DropDevicesDrops
    <3>3. Profiled(live) /\ Profiles(T, live)
      BY <3>1, <3>2, DropProfiles
    <3>4. QED
      BY <2>1, <3>2, <3>3 DEF Dropping
  <2>2. CASE ~Expired(T, d, t)
    BY <1>1, <2>2 DEF Profiles
  <2>3. QED
    BY <2>1, <2>2
<1>3. PICK lease : lease = Lengthened(live.expires[d], t)
  OBVIOUS
<1>4. lease \in Nat /\ lease # NoRow
  BY <1>2, <1>3, ExpiryIsLater, TableTypes DEF Lengthened, NoRow
<1>5. PICK mid : mid = [live EXCEPT !.expires[d] = lease]
  OBVIOUS
<1>6. /\ mid \in Tables /\ mid.expires = [live.expires EXCEPT ![d] = lease]
      /\ mid.consent = live.consent /\ mid.rows = live.rows /\ mid.profiles = live.profiles
      /\ mid.milestone = live.milestone
  BY <1>2, <1>4, <1>5 DEF Tables
<1>7. U = WithProfile(mid, d)
  BY <1>1, <1>3, <1>5 DEF Touch
<1>8. \A e \in Devices : MemberProfiles(mid, e) = MemberProfiles(live, e)
  BY <1>6 DEF MemberProfiles
<1>9. PICK profiles : profiles = (mid.profiles \ MemberProfiles(mid, d)) \cup {ProfileOf(d, lease)}
  OBVIOUS
<1>10. U = [mid EXCEPT !.profiles = profiles]
  <2>1. MemberProfiles(live, d) = {} \/ \E l \in Nat : MemberProfiles(live, d) = {ProfileOf(d, l)}
    BY <1>2, TableTypes DEF Profiled
  <2>2. mid.expires[d] = lease
    BY <1>2, <1>6 DEF Tables
  <2>3. MemberProfiles(mid, d) = {} \/ \E l \in Nat : MemberProfiles(mid, d) = {ProfileOf(d, l)}
    BY <1>8, <2>1
  <2>4. WithProfile(mid, d)
          = [mid EXCEPT !.profiles =
               (mid.profiles \ MemberProfiles(mid, d)) \cup {ProfileOf(d, mid.expires[d])}]
    BY <1>6, <2>3, WithProfileSets
  <2>5. QED
    BY <1>7, <1>9, <2>2, <2>4
<1>11. ProfileOf(d, lease) \in Members
  BY <1>4 DEF ProfileOf, Members
<1>12. /\ U \in Tables /\ U.expires = mid.expires /\ U.consent = mid.consent /\ U.rows = mid.rows
       /\ U.milestone = mid.milestone /\ U.profiles = profiles
  <2>1. profiles \subseteq Members
    BY <1>6, <1>9, <1>11 DEF Tables, Members
  <2>2. U = [mid EXCEPT !.profiles = profiles] /\ mid \in Tables
    BY <1>6, <1>10
  <2>3. QED
    BY <2>1, <2>2 DEF Tables, Members
<1>13. Touching(T, U, d, t)
  <2>1. Expired(T, d, t) => lease = ExpiryFrom(t)
    BY <1>2, <1>3, ExpiryIsLater DEF Lengthened, NoRow
  <2>2. \A e \in Devices : U.expires[e] = IF e = d THEN lease ELSE live.expires[e]
    BY <1>2, <1>6, <1>12 DEF Tables
  <2>3. QED
    BY <1>2, <1>3, <1>6, <1>12, <2>1, <2>2 DEF Touching
<1>14. Profiled(U)
  <2>1. IsFiniteSet(profiles)
    BY <1>2, <1>6, <1>9, FS_AddElement, FS_Subset DEF Profiled
  <2>2. MemberProfiles(U, d) = {ProfileOf(d, lease)}
    BY <1>9, <1>12 DEF MemberProfiles, ProfileOf
  <2>3. ASSUME NEW e \in Devices \ {d} PROVE MemberProfiles(U, e) = MemberProfiles(live, e)
    BY <1>6, <1>9, <1>12, <2>3 DEF MemberProfiles, ProfileOf
  <2>4. \A e \in Devices : U.expires[e] = IF e = d THEN lease ELSE live.expires[e]
    BY <1>2, <1>6, <1>12 DEF Tables
  <2>5. QED
    BY <1>2, <1>4, <1>12, <2>1, <2>2, <2>3, <2>4 DEF Profiled
<1>15. Profiles(T, U)
  BY <1>2, <1>6, <1>9, <1>12 DEF Profiles, ProfileOf
<1>16. QED
  BY <1>13, <1>14, <1>15

-----------------------------------------------------------------------------
(* What every batch may do to the tables of a time n                       *)

Evolves(T, U, n) ==
  /\ \A d \in Devices : \A s \in Sessions :
       T.expires[d] > n /\ T.rows[d][s] # Absent => U.rows[d][s] \in {T.rows[d][s], Absent}
  /\ \A d \in Devices : U.expires[d] < T.expires[d] => T.expires[d] <= n
  /\ \A k \in Milestones : U.milestone[k] \in {T.milestone[k], NoRow}
  /\ \A at \in Nat : Scheduled(at) /\ at <= n /\ Swept(T, at) => Swept(U, at)

\* Rows disappear only of leases that have ended.
Spares(T, U, n) == \A d \in Devices : Stored(T, d) \ Stored(U, d) # {} => T.expires[d] <= n

Sound(T, n) == StoreInv(T, n) /\ Profiled(T)

\* A lease obtained by a request ends after every cleanup that begins before the request ends.
LEMMA ExpiryAfterCleanup ==
  ASSUME NEW t \in Nat, NEW at \in Nat, Scheduled(at), at <= t + CronTick
  PROVE  ExpiryFrom(t) > at
<1>1. PICK k \in Nat : at = Day * k + CronTick
  BY DEF Scheduled
<1>2. PICK q \in Nat : ExpiryFrom(t) = Day * q
  BY ExpiryIsLater
<1>3. PICK a \in Nat, b \in Nat : a = Day * q /\ b = Day * k
  BY Quantities
<1>4. a > t
  BY <1>2, <1>3, ExpiryIsLater
<1>5. SUFFICES ASSUME a <= at PROVE FALSE
  BY <1>2, <1>3, Quantities
<1>6. a <= b
  BY <1>1, <1>3, <1>5, OverSinceMidnight
<1>7. QED
  BY <1>1, <1>3, <1>4, <1>6, Quantities

\* A stale row without consent is one whose lease a request finds ended.
LEMMA StaleIsExpired ==
  ASSUME NEW T \in Tables, NEW n \in Nat, StoreInv(T, n), NEW d \in Devices, NEW t \in Nat,
         n <= t + RequestTime, Stored(T, d) # {}, T.consent[d] # "granted"
  PROVE  Expired(T, d, t)
<1>1. T.expires[d] + CronTick <= n
  BY DEF StoreInv, Lawful
<1>2. T.expires[d] # NoRow
  BY DEF StoreInv, Bare
<1>3. QED
  BY <1>1, <1>2, Quantities, TableTypes DEF Expired, NoRow

LEMMA TouchIsSound ==
  ASSUME NEW T, NEW n \in Nat, Sound(T, n), NEW d \in Devices, NEW t \in Nat,
         t <= n, n <= t + RequestTime, NEW U, U = Touch(T, d, t)
  PROVE  /\ Sound(U, n) /\ Evolves(T, U, n) /\ Spares(T, U, n) /\ U.expires[d] > t
         /\ (U.consent[d] = "granted" \/ Stored(U, d) = {})
         /\ \A e \in Devices \ {d} : U.rows[e] = T.rows[e]
<1>0. T \in Tables /\ Profiled(T) /\ StoreInv(T, n)
  BY DEF Sound, StoreInv
<1>1. Touching(T, U, d, t) /\ Profiled(U) /\ Profiles(T, U)
  BY <1>0, TouchTouches
<1>2. PICK e0 \in Nat, later \in Nat : e0 = T.expires[d] /\ later = ExpiryFrom(t)
  BY <1>0, TableTypes, ExpiryIsLater
<1>3. /\ later > t
      /\ \E q \in Nat : later = Day * q
      /\ \A at \in Nat : Scheduled(at) /\ at <= n => later > at
  <2>1. ASSUME NEW at \in Nat, Scheduled(at), at <= n PROVE later > at
    <3>1. at <= t + CronTick
      BY <2>1, Quantities
    <3>2. QED
      BY <1>2, <2>1, <3>1, ExpiryAfterCleanup
  <2>2. QED
    BY <1>2, <2>1, ExpiryIsLater
<1>4. U.expires[d] \in {e0, later} /\ U.expires[d] >= later /\ (~Expired(T, d, t) => U.expires[d] >= e0)
  BY <1>1, <1>2 DEF Touching, Lengthened
<1>5. Expired(T, d, t) <=> e0 # 0 /\ e0 <= t
  BY <1>2 DEF Expired
<1>6. /\ U \in Tables /\ U.milestone = T.milestone
      /\ \A e \in Devices \ {d} : /\ U.expires[e] = T.expires[e] /\ U.consent[e] = T.consent[e]
                                  /\ U.rows[e] = T.rows[e]
  BY <1>1 DEF Touching
<1>7. \/ Stored(U, d) = {} /\ Expired(T, d, t) /\ U.consent[d] = "none"
      \/ U.rows[d] = T.rows[d] /\ U.consent[d] = T.consent[d] /\ ~Expired(T, d, t)
  BY <1>1 DEF Touching, Stored
<1>8. Bare(U)
  <2>1. ASSUME NEW e \in Devices \ {d}
        PROVE  (U.expires[e] = NoRow => U.consent[e] = "none" /\ Stored(U, e) = {})
               /\ \E q \in Nat : U.expires[e] = Day * q
    BY <1>0, <1>6, <2>1 DEF StoreInv, Bare, Stored
  <2>2. U.expires[d] # NoRow
    BY <1>2, <1>3, <1>4 DEF NoRow
  <2>3. \E q \in Nat : U.expires[d] = Day * q
    BY <1>0, <1>2, <1>3, <1>4 DEF StoreInv, Bare
  <2>4. QED
    BY <2>1, <2>2, <2>3 DEF Bare
<1>9. Bounded(U)
  <2>1. ASSUME NEW e \in Devices PROVE Stored(U, e) = {} \/ Stored(U, e) = Stored(T, e)
    BY <1>6, <1>7 DEF Stored
  <2>2. QED
    BY <1>0, <2>1, FS_EmptySet, Quantities DEF StoreInv, Bounded
<1>10. U.consent[d] = "granted" \/ Stored(U, d) = {}
  <2>1. SUFFICES ASSUME U.consent[d] # "granted", Stored(U, d) # {} PROVE FALSE
    OBVIOUS
  <2>2. Stored(T, d) # {} /\ T.consent[d] # "granted" /\ ~Expired(T, d, t)
    BY <1>7, <2>1 DEF Stored
  <2>3. QED
    BY <1>0, <2>2, StaleIsExpired
<1>11. Lawful(U, n)
  <2>1. ASSUME NEW e \in Devices \ {d}, Stored(U, e) # {}
        PROVE  U.consent[e] = "granted" \/ (U.consent[e] = "none" /\ U.expires[e] + CronTick <= n)
    BY <1>0, <1>6, <2>1 DEF StoreInv, Lawful, Stored
  <2>2. QED
    BY <1>10, <2>1 DEF Lawful
<1>12. Spares(T, U, n)
  <2>1. ASSUME NEW e \in Devices, Stored(T, e) \ Stored(U, e) # {} PROVE e = d /\ Expired(T, d, t)
    BY <1>6, <1>7, <2>1 DEF Stored
  <2>2. QED
    BY <1>2, <1>5, <2>1 DEF Spares
<1>13. Evolves(T, U, n)
  <2>1. ASSUME NEW e \in Devices, NEW s \in Sessions, T.expires[e] > n
        PROVE  U.rows[e] = T.rows[e]
    BY <1>2, <1>5, <1>6, <1>7, <2>1
  <2>2. ASSUME NEW e \in Devices, U.expires[e] < T.expires[e] PROVE T.expires[e] <= n
    <3>1. CASE e = d
      BY <1>2, <1>4, <1>5, <2>2, <3>1
    <3>2. CASE e # d
      <4>1. U.expires[e] = T.expires[e] /\ T.expires[e] \in Nat
        BY <1>0, <1>6, <3>2, TableTypes
      <4>2. QED
        BY <2>2, <4>1
    <3>3. QED
      BY <3>1, <3>2
  <2>3. ASSUME NEW at \in Nat, Scheduled(at), at <= n, Swept(T, at) PROVE Swept(U, at)
    <3>1. ASSUME NEW e \in Devices PROVE ~Expired(U, e, at)
      <4>1. CASE e = d
        BY <1>2, <1>3, <1>4, <2>3, <4>1 DEF Expired
      <4>2. CASE e # d
        BY <1>6, <2>3, <4>2 DEF Expired, Swept
      <4>3. QED
        BY <4>1, <4>2
    <3>2. ASSUME NEW p \in U.profiles, ~p.member PROVE p.expires > at
      <4>1. CASE p \in T.profiles
        BY <2>3, <3>2, <4>1 DEF Swept
      <4>2. ASSUME NEW e \in Devices, T.expires[e] # NoRow, p.expires = T.expires[e] PROVE p.expires > at
        <5>1. ~Expired(T, e, at) /\ T.expires[e] \in Nat
          BY <1>0, <2>3, TableTypes DEF Swept
        <5>2. QED
          BY <4>2, <5>1 DEF Expired, NoRow
      <4>3. QED
        BY <1>1, <3>2, <4>1, <4>2 DEF Profiles
    <3>3. QED
      BY <1>6, <2>3, <3>1, <3>2 DEF Swept
  <2>4. QED
    BY <1>6, <2>1, <2>2, <2>3 DEF Evolves
<1>14. U.expires[d] > t
  BY <1>2, <1>3, <1>4
<1>15. QED
  BY <1>1, <1>6, <1>8, <1>9, <1>10, <1>11, <1>12, <1>13, <1>14 DEF Sound, StoreInv

-----------------------------------------------------------------------------
(* The batches of a request                                                *)

LEMMA ConsentIsSound ==
  ASSUME NEW T, NEW n \in Nat, Sound(T, n), NEW d \in Devices, NEW t \in Nat,
         t <= n, n <= t + RequestTime, NEW U, U = Consented(T, d, t)
  PROVE  /\ Sound(U, n) /\ Evolves(T, U, n) /\ Spares(T, U, n)
         /\ U.expires[d] > t /\ U.consent[d] = "granted"
         /\ \A e \in Devices \ {d} : U.rows[e] = T.rows[e]
         /\ GrantsConsent(T, d, t) => Stored(U, d) = {}
<1>1. PICK M : M = Touch(T, d, t)
  OBVIOUS
<1>2. /\ Sound(M, n) /\ Evolves(T, M, n) /\ Spares(T, M, n) /\ M.expires[d] > t
      /\ (M.consent[d] = "granted" \/ Stored(M, d) = {})
      /\ \A e \in Devices \ {d} : M.rows[e] = T.rows[e]
  BY <1>1, TouchIsSound
<1>3. PICK granted : granted = "granted"
  OBVIOUS
<1>4. PICK consent : consent = [M.consent EXCEPT ![d] = granted]
  OBVIOUS
<1>4a. U = [M EXCEPT !.consent = consent]
  BY <1>1, <1>3, <1>4 DEF Consented
<1>4b. consent \in [Devices -> {"none", "granted", "revoked"}]
  BY <1>2, <1>3, <1>4 DEF Sound, StoreInv, Tables
<1>5. /\ U \in Tables /\ U.expires = M.expires /\ U.rows = M.rows /\ U.profiles = M.profiles
      /\ U.milestone = M.milestone /\ U.consent = [M.consent EXCEPT ![d] = granted]
  BY <1>2, <1>4, <1>4a, <1>4b DEF Sound, StoreInv, Tables
<1>6. U.consent[d] = "granted" /\ \A e \in Devices \ {d} : U.consent[e] = M.consent[e]
  BY <1>2, <1>3, <1>5 DEF Sound, StoreInv, Tables
<1>7. \A e \in Devices : Stored(U, e) = Stored(M, e) /\ MemberProfiles(U, e) = MemberProfiles(M, e)
  BY <1>5 DEF Stored, MemberProfiles
<1>8. U.expires[d] > t /\ U.expires[d] # NoRow
  BY <1>2, <1>5, TableTypes DEF Sound, StoreInv, NoRow
<1>9. StoreInv(U, n)
  <2>1. Bare(U)
    BY <1>2, <1>5, <1>6, <1>7, <1>8 DEF Sound, StoreInv, Bare
  <2>2. Bounded(U)
    BY <1>2, <1>7 DEF Sound, StoreInv, Bounded
  <2>3. Lawful(U, n)
    BY <1>2, <1>5, <1>6, <1>7 DEF Sound, StoreInv, Lawful
  <2>4. QED
    BY <1>5, <2>1, <2>2, <2>3 DEF StoreInv
<1>10. Profiled(U)
  BY <1>2, <1>5, <1>7 DEF Sound, Profiled
<1>11. Evolves(T, U, n)
  <2>1. \A at : Swept(M, at) => Swept(U, at)
    BY <1>5 DEF Swept, Expired
  <2>2. QED
    BY <1>2, <1>5, <2>1 DEF Evolves
<1>12. Spares(T, U, n)
  BY <1>2, <1>7 DEF Spares
<1>13. GrantsConsent(T, d, t) => Stored(U, d) = {}
  BY <1>1, <1>2, <1>7 DEF GrantsConsent
<1>14. \A e \in Devices \ {d} : U.rows[e] = T.rows[e]
  BY <1>2, <1>5
<1>15. QED
  BY <1>6, <1>8, <1>9, <1>10, <1>11, <1>12, <1>13, <1>14 DEF Sound

LEMMA SaveIsSound ==
  ASSUME NEW T, NEW n \in Nat, Sound(T, n), NEW d \in Devices, NEW t \in Nat,
         t <= n, n <= t + RequestTime, NEW s \in Sessions, NEW content \in Contents,
         NEW U, U = SaveBatch(T, d, s, content, t)
  PROVE  /\ Sound(U, n) /\ Evolves(T, U, n) /\ Spares(T, U, n)
         /\ Creates(T, d, s, t) => U.rows[d][s] = content
         /\ GrantsConsent(T, d, t) => Creates(T, d, s, t)
<1>1. PICK M : M = Consented(T, d, t)
  OBVIOUS
<1>2. /\ Sound(M, n) /\ Evolves(T, M, n) /\ Spares(T, M, n)
      /\ M.expires[d] > t /\ M.consent[d] = "granted"
      /\ GrantsConsent(T, d, t) => Stored(M, d) = {}
  BY <1>1, ConsentIsSound
<1>3. M \in Tables /\ StoreInv(M, n) /\ Profiled(M)
  BY <1>2 DEF Sound, StoreInv
<1>4. GrantsConsent(T, d, t) => Creates(T, d, s, t)
  <2>1. SUFFICES ASSUME Stored(M, d) = {} PROVE Insertable(M, d, s, t)
    BY <1>1, <1>2 DEF Creates
  <2>2. M.rows[d][s] = Absent
    BY <2>1 DEF Stored
  <2>3. Cardinality(Stored(M, d)) < MaxActive
    BY <2>1, FS_EmptySet, Quantities
  <2>4. QED
    BY <1>2, <2>2, <2>3 DEF Insertable, HasActiveDevice
<1>5. CASE ~Creates(T, d, s, t)
  <2>1. U = M
    BY <1>1, <1>5 DEF SaveBatch
  <2>2. QED
    BY <1>2, <1>4, <1>5, <2>1
<1>6. CASE Creates(T, d, s, t)
  <2>1. U = [M EXCEPT !.rows[d][s] = content]
    BY <1>1, <1>6 DEF SaveBatch
  <2>2. M.rows[d][s] = Absent /\ Cardinality(Stored(M, d)) < MaxActive
    BY <1>1, <1>6 DEF Creates, Insertable
  <2>3. PICK row : row = [M.rows[d] EXCEPT ![s] = content]
    OBVIOUS
  <2>4. PICK rows : rows = [M.rows EXCEPT ![d] = row]
    OBVIOUS
  <2>4a. U = [M EXCEPT !.rows = rows]
    BY <2>1, <2>3, <2>4, Zenon
  <2>5. /\ row \in [Sessions -> Contents \cup {Absent}] /\ row[s] = content
        /\ \A x \in Sessions \ {s} : row[x] = M.rows[d][x]
    BY <1>3, <2>3, TableTypes
  <2>6. /\ U \in Tables /\ U.expires = M.expires /\ U.consent = M.consent
        /\ U.profiles = M.profiles /\ U.milestone = M.milestone
        /\ U.rows = [M.rows EXCEPT ![d] = row]
    <3>1. rows \in [Devices -> [Sessions -> Contents \cup {Absent}]]
      BY <1>3, <2>4, <2>5 DEF Tables
    <3>2. QED
      BY <1>3, <2>4, <2>4a, <3>1 DEF Tables
  <2>7. U.rows[d] = row /\ \A e \in Devices \ {d} : U.rows[e] = M.rows[e]
    BY <1>3, <2>6 DEF Tables
  <2>8. /\ \A e \in Devices : MemberProfiles(U, e) = MemberProfiles(M, e)
        /\ \A e \in Devices \ {d} : Stored(U, e) = Stored(M, e)
        /\ Stored(U, d) \subseteq Stored(M, d) \cup {s} /\ Stored(M, d) \subseteq Stored(U, d)
    BY <2>2, <2>5, <2>6, <2>7 DEF Stored, MemberProfiles
  <2>9. StoreInv(U, n)
    <3>1. M.expires[d] # NoRow
      BY <1>2, <1>3, TableTypes DEF NoRow
    <3>2. Bare(U)
      BY <1>3, <2>6, <2>8, <3>1 DEF StoreInv, Bare
    <3>3. Cardinality(Stored(U, d)) <= MaxActive
      <4>1. Stored(M, d) \subseteq Sessions /\ Stored(U, d) \subseteq Sessions
        BY DEF Stored
      <4>2. IsFiniteSet(Stored(M, d)) /\ Cardinality(Stored(M, d)) \in Nat
        BY <4>1, FewerStored
      <4>3. Cardinality(Stored(M, d) \cup {s}) <= Cardinality(Stored(M, d)) + 1
        <5>1. PICK k \in Nat : k = Cardinality(Stored(M, d))
          BY <4>2
        <5>2. Cardinality(Stored(M, d) \cup {s}) = IF s \in Stored(M, d) THEN k ELSE k + 1
          BY <4>2, <5>1, FS_AddElement
        <5>3. QED
          BY <5>1, <5>2
      <4>4. Stored(M, d) \cup {s} \subseteq Sessions
        BY <4>1
      <4>5. /\ Cardinality(Stored(U, d)) <= Cardinality(Stored(M, d) \cup {s})
            /\ Cardinality(Stored(U, d)) \in Nat /\ Cardinality(Stored(M, d) \cup {s}) \in Nat
        BY <2>8, <4>4, FewerStored
      <4>6. QED
        BY <2>2, <4>2, <4>3, <4>5, Quantities
    <3>4. Bounded(U)
      BY <1>3, <2>8, <3>3 DEF StoreInv, Bounded
    <3>5. Lawful(U, n)
      BY <1>2, <1>3, <2>6, <2>8 DEF StoreInv, Lawful
    <3>6. QED
      BY <2>6, <3>2, <3>4, <3>5 DEF StoreInv
  <2>10. Profiled(U)
    BY <1>3, <2>6, <2>8 DEF Profiled
  <2>11. Spares(T, U, n)
    BY <1>2, <2>8 DEF Spares
  <2>12. Evolves(T, U, n)
    <3>1. \A at : Swept(M, at) => Swept(U, at)
      BY <2>6 DEF Swept, Expired
    <3>2. ASSUME NEW e \in Devices, NEW x \in Sessions, T.expires[e] > n, T.rows[e][x] # Absent
          PROVE  U.rows[e][x] \in {T.rows[e][x], Absent}
      <4>1. M.rows[e][x] \in {T.rows[e][x], Absent}
        BY <1>2, <3>2 DEF Evolves
      <4>2. M.rows[e][x] # Absent
        BY <1>2, <3>2, <4>1, TableTypes DEF Spares, Stored, Sound, StoreInv
      <4>3. U.rows[e][x] = M.rows[e][x]
        BY <2>2, <2>5, <2>7, <4>2
      <4>4. QED
        BY <4>1, <4>3
    <3>3. QED
      BY <1>2, <2>6, <3>1, <3>2 DEF Evolves
  <2>13. U.rows[d][s] = content
    BY <2>5, <2>7
  <2>14. QED
    BY <1>6, <2>9, <2>10, <2>11, <2>12, <2>13 DEF Sound
<1>7. QED
  BY <1>5, <1>6

LEMMA ClearIsSound ==
  ASSUME NEW T, NEW n \in Nat, Sound(T, n), NEW d \in Devices, NEW U, U = ClearBatch(T, d)
  PROVE  /\ Sound(U, n) /\ Evolves(T, U, n) /\ U.expires = T.expires
         /\ \A e \in Devices \ {d} : Stored(U, e) = Stored(T, e)
<1>0. T \in Tables /\ StoreInv(T, n) /\ Profiled(T)
  BY DEF Sound, StoreInv
<1>1. PICK row, state : /\ row = [s \in Sessions |-> Absent]
                        /\ state = IF T.expires[d] = NoRow THEN T.consent[d] ELSE "revoked"
  OBVIOUS
<1>2. PICK rows, consent : /\ rows = [T.rows EXCEPT ![d] = row]
                           /\ consent = [T.consent EXCEPT ![d] = state]
  OBVIOUS
<1>3. U = [T EXCEPT !.rows = rows, !.consent = consent]
  BY <1>1, <1>2 DEF ClearBatch
<1>4. /\ rows \in [Devices -> [Sessions -> Contents \cup {Absent}]]
      /\ consent \in [Devices -> {"none", "granted", "revoked"}]
  BY <1>0, <1>1, <1>2, TableTypes DEF Tables
<1>5. /\ U \in Tables /\ U.expires = T.expires /\ U.profiles = T.profiles
      /\ U.milestone = T.milestone /\ U.rows = rows /\ U.consent = consent
  BY <1>0, <1>3, <1>4 DEF Tables
<1>6. /\ \A s \in Sessions : U.rows[d][s] = Absent
      /\ \A e \in Devices \ {d} : U.rows[e] = T.rows[e] /\ U.consent[e] = T.consent[e]
      /\ U.consent[d] = state
  BY <1>0, <1>1, <1>2, <1>5 DEF Tables
<1>7. /\ Stored(U, d) = {} /\ \A e \in Devices \ {d} : Stored(U, e) = Stored(T, e)
      /\ \A e \in Devices : MemberProfiles(U, e) = MemberProfiles(T, e)
  BY <1>5, <1>6 DEF Stored, MemberProfiles
<1>8. Bare(U)
  BY <1>0, <1>1, <1>5, <1>6, <1>7 DEF StoreInv, Bare
<1>9. Bounded(U)
  BY <1>0, <1>7, FS_EmptySet, Quantities DEF StoreInv, Bounded
<1>10. Lawful(U, n)
  BY <1>0, <1>5, <1>6, <1>7 DEF StoreInv, Lawful
<1>11. Profiled(U)
  BY <1>0, <1>5, <1>7 DEF Profiled
<1>12. Evolves(T, U, n)
  <2>1. \A at : Swept(T, at) => Swept(U, at)
    BY <1>5 DEF Swept, Expired
  <2>2. ASSUME NEW e \in Devices, NEW s \in Sessions PROVE U.rows[e][s] \in {T.rows[e][s], Absent}
    BY <1>6, <2>2
  <2>3. \A e \in Devices : ~(U.expires[e] < T.expires[e])
    BY <1>0, <1>5, TableTypes
  <2>4. QED
    BY <1>5, <2>1, <2>2, <2>3 DEF Evolves
<1>13. QED
  BY <1>5, <1>7, <1>8, <1>9, <1>10, <1>11, <1>12 DEF Sound, StoreInv

LEMMA BackfillIsSound ==
  ASSUME NEW T, NEW n \in Nat, StoreInv(T, n), NEW U, U = Backfilled(T)
  PROVE  /\ Sound(U, n) /\ U.expires = T.expires /\ U.rows = T.rows /\ U.milestone = T.milestone
<1>1. PICK profiles : profiles = {ProfileOf(d, T.expires[d]) : d \in {e \in Devices : T.expires[e] # NoRow}}
  OBVIOUS
<1>2. U = [T EXCEPT !.profiles = profiles]
  BY <1>1 DEF Backfilled, ProfileOf
<1>3. profiles \subseteq Members
  <2>1. ASSUME NEW d \in Devices PROVE ProfileOf(d, T.expires[d]) \in Members
    <3>1. PICK e \in Nat : e = T.expires[d]
      BY TableTypes DEF StoreInv
    <3>2. QED
      BY <3>1 DEF ProfileOf, Members
  <2>2. QED
    BY <1>1, <2>1
<1>4. /\ U \in Tables /\ U.expires = T.expires /\ U.rows = T.rows /\ U.consent = T.consent
      /\ U.milestone = T.milestone /\ U.profiles = profiles
  BY <1>2, <1>3 DEF StoreInv, Tables, Members
<1>5. StoreInv(U, n)
  BY <1>4 DEF StoreInv, Bare, Bounded, Lawful, Stored
<1>6. IsFiniteSet(profiles)
  <2>1. PICK owners : owners = {e \in Devices : T.expires[e] # NoRow}
    OBVIOUS
  <2>2. IsFiniteSet(owners)
    BY <2>1, Quantities, FS_Subset
  <2>3. PICK img : img = [e \in owners |-> ProfileOf(e, T.expires[e])]
    OBVIOUS
  <2>4. img \in Surjection(owners, profiles)
    BY <1>1, <2>1, <2>3 DEF Surjection
  <2>5. QED
    BY <2>2, <2>4, FS_Surjection
<1>7. ASSUME NEW d \in Devices
      PROVE  MemberProfiles(U, d) = IF U.expires[d] = NoRow THEN {} ELSE {ProfileOf(d, U.expires[d])}
  BY <1>1, <1>4 DEF MemberProfiles, ProfileOf
<1>8. QED
  BY <1>4, <1>5, <1>6, <1>7 DEF Sound, Profiled

-----------------------------------------------------------------------------
(* The batch of a cleanup                                                  *)

LEMMA LimitedTakes ==
  ASSUME NEW set, NEW part \in Limited(set), IsFiniteSet(set)
  PROVE  part \subseteq set /\ (~FullBatch(Cardinality(part)) => part = set)
<1>1. part \subseteq set
  BY DEF Limited
<1>2. PICK m, n : m = Cardinality(part) /\ n = Cardinality(set)
  OBVIOUS
<1>3. m \in Nat /\ n \in Nat
  BY <1>1, <1>2, FS_Subset, FS_CardinalityType
<1>4. m = IF n < BatchSize THEN n ELSE BatchSize
  BY <1>2 DEF Limited
<1>5. ~(m >= BatchSize) => m = n
  BY <1>3, <1>4, Quantities
<1>6. m = n => part = set
  BY <1>1, <1>2, FS_Subset
<1>7. QED
  BY <1>1, <1>2, <1>5, <1>6 DEF FullBatch

LEMMA ExpiredSets ==
  ASSUME NEW T, T.profiles \subseteq Members, IsFiniteSet(T.profiles), NEW t \in Nat
  PROVE  /\ IsFiniteSet(ExpiredRows(T, t)) /\ IsFiniteSet(ExpiredConsents(T, t))
         /\ IsFiniteSet(ExpiredDevices(T, t)) /\ IsFiniteSet(ExpiredProfiles(T, t))
<1>1. IsFiniteSet(Devices \X Sessions)
  BY Quantities, FS_Product
<1>2. /\ ExpiredRows(T, t) \subseteq Devices \X Sessions /\ ExpiredConsents(T, t) \subseteq Devices
      /\ ExpiredDevices(T, t) \subseteq Devices /\ ExpiredProfiles(T, t) \subseteq T.profiles
  BY DEF ExpiredRows, ExpiredConsents, ExpiredDevices, ExpiredProfiles
<1>3. QED
  BY <1>1, <1>2, Quantities, FS_Subset

\* A cleanup changes only rows whose lease has ended.
Culls(T, U, n) ==
  /\ U \in Tables
  /\ \A d \in Devices : U.expires[d] \in {T.expires[d], NoRow}
  /\ \A d \in Devices : ~Expired(T, d, n) => U.rows[d] = T.rows[d] /\ U.expires[d] = T.expires[d]
  /\ \A k \in Milestones : U.milestone[k] \in {T.milestone[k], NoRow}
  /\ Profiles(T, U)

LEMMA CullEvolves ==
  ASSUME NEW T \in Tables, NEW n \in Nat, NEW U, Culls(T, U, n)
  PROVE  Evolves(T, U, n) /\ Spares(T, U, n)
<1>1. ASSUME NEW d \in Devices PROVE T.expires[d] \in Nat /\ (Expired(T, d, n) => T.expires[d] <= n)
  BY TableTypes DEF Expired
<1>2. Spares(T, U, n)
  <2>1. ASSUME NEW d \in Devices, Stored(T, d) \ Stored(U, d) # {} PROVE Expired(T, d, n)
    BY <2>1 DEF Culls, Stored
  <2>2. QED
    BY <1>1, <2>1 DEF Spares
<1>3. ASSUME NEW d \in Devices, T.expires[d] > n PROVE U.rows[d] = T.rows[d]
  BY <1>1, <1>3 DEF Culls
<1>4. ASSUME NEW d \in Devices, U.expires[d] < T.expires[d] PROVE T.expires[d] <= n
  <2>1. U.expires[d] # T.expires[d]
    BY <1>1, <1>4
  <2>2. QED
    BY <1>1, <2>1 DEF Culls
<1>5. ASSUME NEW at \in Nat, Swept(T, at) PROVE Swept(U, at)
  <2>1. ASSUME NEW d \in Devices PROVE ~Expired(U, d, at)
    BY <1>5 DEF Culls, Swept, Expired, NoRow
  <2>2. ASSUME NEW p \in U.profiles, ~p.member PROVE p.expires > at
    <3>1. CASE p \in T.profiles
      BY <1>5, <2>2, <3>1 DEF Swept
    <3>2. ASSUME NEW d \in Devices, T.expires[d] # NoRow, p.expires = T.expires[d] PROVE p.expires > at
      BY <1>1, <1>5, <3>2 DEF Swept, Expired, NoRow
    <3>3. QED
      BY <2>2, <3>1, <3>2 DEF Culls, Profiles
  <2>3. ASSUME NEW k \in Milestones PROVE U.milestone[k] \notin 1 .. at
    BY <1>5 DEF Culls, Swept, NoRow
  <2>4. QED
    BY <2>1, <2>2, <2>3 DEF Swept
<1>6. QED
  BY <1>2, <1>3, <1>4, <1>5 DEF Evolves, Culls

\* First the rows and the consents.
LEMMA RowsGo ==
  ASSUME NEW T, NEW n \in Nat, Sound(T, n), Scheduled(n),
         NEW rows \in SUBSET ExpiredRows(T, n), NEW consents \in SUBSET ExpiredConsents(T, n),
         NEW U, U = WithoutRows(T, rows, consents)
  PROVE  /\ Sound(U, n) /\ Culls(T, U, n) /\ U.expires = T.expires /\ U.profiles = T.profiles
         /\ U.milestone = T.milestone
         /\ rows = ExpiredRows(T, n) /\ consents = ExpiredConsents(T, n)
            => \A d \in Devices : Expired(U, d, n) => d \in ExpiredDevices(U, n)
<1>0. T \in Tables /\ StoreInv(T, n) /\ Profiled(T)
  BY DEF Sound, StoreInv
<1>1. PICK left, state :
        /\ left = [d \in Devices |-> [s \in Sessions |-> IF <<d, s>> \in rows THEN Absent ELSE T.rows[d][s]]]
        /\ state = [d \in Devices |-> IF d \in consents THEN "none" ELSE T.consent[d]]
  OBVIOUS
<1>2. U = [T EXCEPT !.rows = left, !.consent = state]
  BY <1>1 DEF WithoutRows
<1>3. left \in [Devices -> [Sessions -> Contents \cup {Absent}]]
  BY <1>0, <1>1, TableTypes
<1>4. state \in [Devices -> {"none", "granted", "revoked"}]
  BY <1>0, <1>1, TableTypes
<1>5. /\ U \in Tables /\ U.expires = T.expires /\ U.profiles = T.profiles
      /\ U.milestone = T.milestone /\ U.rows = left /\ U.consent = state
  BY <1>0, <1>2, <1>3, <1>4 DEF Tables
<1>6. \A d \in Devices : /\ Stored(U, d) \subseteq Stored(T, d)
                         /\ MemberProfiles(U, d) = MemberProfiles(T, d)
                         /\ U.consent[d] = IF d \in consents THEN "none" ELSE T.consent[d]
                         /\ Expired(U, d, n) = Expired(T, d, n)
  BY <1>1, <1>5 DEF Stored, MemberProfiles, Expired
<1>7. \A d \in Devices : ~Expired(T, d, n) => U.rows[d] = T.rows[d]
  <2>1. ASSUME NEW d \in Devices, ~Expired(T, d, n), NEW s \in Sessions PROVE <<d, s>> \notin rows
    BY <2>1 DEF ExpiredRows
  <2>2. ASSUME NEW d \in Devices, ~Expired(T, d, n) PROVE left[d] = T.rows[d]
    BY <1>0, <1>1, <2>1, <2>2, TableTypes
  <2>3. QED
    BY <1>5, <2>2
<1>8. \A d \in consents : d \in Devices /\ Expired(T, d, n)
  BY DEF ExpiredConsents
<1>9. Bare(U)
  <2>1. ASSUME NEW d \in Devices, U.expires[d] = NoRow PROVE U.consent[d] = "none" /\ Stored(U, d) = {}
    BY <1>0, <1>5, <1>6, <2>1 DEF StoreInv, Bare
  <2>2. QED
    BY <1>0, <1>5, <2>1 DEF StoreInv, Bare
<1>10. Bounded(U)
  <2>1. ASSUME NEW d \in Devices PROVE Cardinality(Stored(U, d)) <= MaxActive
    <3>1. Stored(T, d) \subseteq Sessions /\ Cardinality(Stored(T, d)) <= MaxActive
      BY <1>0 DEF Stored, StoreInv, Bounded
    <3>2. /\ Cardinality(Stored(U, d)) <= Cardinality(Stored(T, d))
          /\ Cardinality(Stored(U, d)) \in Nat /\ Cardinality(Stored(T, d)) \in Nat
      BY <1>6, <3>1, FewerStored
    <3>3. QED
      BY <3>1, <3>2, Quantities
  <2>2. QED
    BY <2>1 DEF Bounded
<1>11. \A d \in Devices : Expired(T, d, n) => T.expires[d] + CronTick <= n
  <2>1. SUFFICES ASSUME NEW d \in Devices, Expired(T, d, n) PROVE T.expires[d] + CronTick <= n
    OBVIOUS
  <2>2. PICK q \in Nat : T.expires[d] = Day * q
    BY <1>0 DEF StoreInv, Bare
  <2>3. PICK k \in Nat : n = Day * k + CronTick
    BY DEF Scheduled
  <2>4. T.expires[d] <= n
    BY <1>0, <2>1, TableTypes DEF Expired
  <2>5. Day * q <= Day * k
    BY <2>2, <2>3, <2>4, OverSinceMidnight
  <2>6. PICK a \in Nat, b \in Nat : a = Day * q /\ b = Day * k
    BY Quantities
  <2>7. QED
    BY <2>2, <2>3, <2>5, <2>6, Quantities
<1>12. Lawful(U, n)
  <2>1. SUFFICES ASSUME NEW d \in Devices, Stored(U, d) # {}
        PROVE U.consent[d] = "granted" \/ (U.consent[d] = "none" /\ U.expires[d] + CronTick <= n)
    BY DEF Lawful
  <2>2. CASE d \in consents
    BY <1>5, <1>6, <1>8, <1>11, <2>2
  <2>3. CASE d \notin consents
    <3>1. Stored(T, d) # {}
      BY <1>6, <2>1
    <3>2. QED
      BY <1>0, <1>5, <1>6, <2>3, <3>1 DEF StoreInv, Lawful
  <2>4. QED
    BY <2>2, <2>3
<1>13. Profiled(U)
  BY <1>0, <1>5, <1>6 DEF Profiled
<1>14. ASSUME rows = ExpiredRows(T, n), consents = ExpiredConsents(T, n), NEW d \in Devices,
              Expired(U, d, n)
       PROVE  d \in ExpiredDevices(U, n)
  <2>1. Expired(T, d, n)
    BY <1>6, <1>14
  <2>2. ASSUME NEW s \in Sessions PROVE U.rows[d][s] = Absent
    <3>1. U.rows[d][s] = IF <<d, s>> \in rows THEN Absent ELSE T.rows[d][s]
      BY <1>1, <1>5
    <3>2. T.rows[d][s] # Absent => <<d, s>> \in rows
      BY <1>14, <2>1 DEF ExpiredRows, Stored
    <3>3. QED
      BY <3>1, <3>2
  <2>3. Stored(U, d) = {}
    BY <2>2 DEF Stored
  <2>4. U.consent[d] = "none"
    BY <1>6, <1>14, <2>1 DEF ExpiredConsents
  <2>5. QED
    BY <1>14, <2>3, <2>4 DEF ExpiredDevices
<1>15. Culls(T, U, n)
  BY <1>5, <1>7 DEF Culls, Profiles
<1>16. QED
  BY <1>5, <1>9, <1>10, <1>12, <1>13, <1>14, <1>15 DEF Sound, StoreInv

\* Then devices of which nothing is left.
LEMMA DevicesGo ==
  ASSUME NEW T, NEW n \in Nat, Sound(T, n), NEW gone \in SUBSET ExpiredDevices(T, n),
         NEW U, U = DropDevices(T, gone)
  PROVE  /\ Sound(U, n) /\ Culls(T, U, n) /\ U.milestone = T.milestone
         /\ \A d \in Devices : U.expires[d] = IF d \in gone THEN NoRow ELSE T.expires[d]
<1>0. T \in Tables /\ StoreInv(T, n) /\ Profiled(T)
  BY DEF Sound, StoreInv
<1>1. gone \in SUBSET Devices /\ \A d \in gone : Expired(T, d, n)
  BY DEF ExpiredDevices
<1>2. Dropping(T, U, gone) /\ DroppingProfiles(T, U, gone)
  BY <1>0, <1>1, DropDevicesDrops
<1>3. Profiled(U) /\ Profiles(T, U)
  BY <1>0, <1>1, <1>2, DropProfiles
<1>4. \A d \in Devices : /\ Stored(U, d) = IF d \in gone THEN {} ELSE Stored(T, d)
                         /\ U.consent[d] = IF d \in gone THEN "none" ELSE T.consent[d]
                         /\ U.expires[d] = IF d \in gone THEN NoRow ELSE T.expires[d]
  BY <1>2 DEF Dropping, Stored
<1>5. Bare(U)
  <2>1. ASSUME NEW d \in Devices, U.expires[d] = NoRow PROVE U.consent[d] = "none" /\ Stored(U, d) = {}
    BY <1>0, <1>4, <2>1 DEF StoreInv, Bare
  <2>2. NoRow = Day * 0
    BY Quantities DEF NoRow
  <2>3. ASSUME NEW d \in Devices PROVE \E q \in Nat : U.expires[d] = Day * q
    BY <1>0, <1>4, <2>2 DEF StoreInv, Bare
  <2>4. QED
    BY <2>1, <2>3 DEF Bare
<1>6. Bounded(U)
  BY <1>0, <1>4, FS_EmptySet, Quantities DEF StoreInv, Bounded
<1>7. Lawful(U, n)
  BY <1>0, <1>4 DEF StoreInv, Lawful
<1>8. Culls(T, U, n)
  BY <1>1, <1>2, <1>3, <1>4 DEF Culls, Dropping
<1>9. QED
  BY <1>2, <1>3, <1>4, <1>5, <1>6, <1>7, <1>8 DEF Sound, StoreInv, Dropping

\* Then profiles without a member, facts and receipts.
Forgets(T, U, kinds) ==
  \A k \in Milestones : U.milestone[k] = IF k \in kinds THEN NoRow ELSE T.milestone[k]

LEMMA ProfilesGo ==
  ASSUME NEW T, NEW n \in Nat, Sound(T, n), NEW profiles \in SUBSET ExpiredProfiles(T, n), NEW kinds,
         NEW U, U = WithoutProfiles(T, profiles, kinds)
  PROVE  /\ Sound(U, n) /\ Culls(T, U, n) /\ U.expires = T.expires
         /\ U.profiles = T.profiles \ profiles /\ Forgets(T, U, kinds)
<1>0. T \in Tables /\ StoreInv(T, n) /\ Profiled(T)
  BY DEF Sound, StoreInv
<1>1. PICK left, milestone :
        /\ left = T.profiles \ profiles
        /\ milestone = [k \in Milestones |-> IF k \in kinds THEN NoRow ELSE T.milestone[k]]
  OBVIOUS
<1>2. U = [T EXCEPT !.profiles = left, !.milestone = milestone]
  BY <1>1 DEF WithoutProfiles
<1>3. milestone \in [Milestones -> Nat] /\ left \subseteq T.profiles
  BY <1>0, <1>1, TableTypes DEF Tables, NoRow
<1>4. /\ U \in Tables /\ U.expires = T.expires /\ U.profiles = left /\ U.milestone = milestone
      /\ U.rows = T.rows /\ U.consent = T.consent
  BY <1>0, <1>2, <1>3 DEF Tables
<1>5. \A d \in Devices : Stored(U, d) = Stored(T, d) /\ MemberProfiles(U, d) = MemberProfiles(T, d)
  BY <1>1, <1>4 DEF Stored, MemberProfiles, ExpiredProfiles
<1>6. StoreInv(U, n)
  BY <1>0, <1>4, <1>5 DEF StoreInv, Bare, Bounded, Lawful
<1>7. Profiled(U)
  BY <1>0, <1>3, <1>4, <1>5, FS_Subset DEF Profiled
<1>8. Culls(T, U, n)
  BY <1>1, <1>3, <1>4 DEF Culls, Profiles
<1>9. QED
  BY <1>1, <1>4, <1>6, <1>7, <1>8 DEF Sound, Forgets

LEMMA CullsTwice ==
  ASSUME NEW T \in Tables, NEW M \in Tables, NEW U, NEW n \in Nat, Culls(T, M, n), Culls(M, U, n)
  PROVE  Culls(T, U, n)
<1>1. \A d \in Devices : ~Expired(T, d, n) => ~Expired(M, d, n)
  BY DEF Culls, Expired, NoRow
<1>2. Profiles(T, U)
  <2>1. ASSUME NEW p \in U.profiles, ~p.member, p \notin M.profiles
        PROVE  \E d \in Devices : T.expires[d] # NoRow /\ p.expires = T.expires[d]
    BY <2>1 DEF Culls, Profiles
  <2>2. ASSUME NEW p \in M.profiles, ~p.member, p \notin T.profiles
        PROVE  \E d \in Devices : T.expires[d] # NoRow /\ p.expires = T.expires[d]
    BY <2>2 DEF Culls, Profiles
  <2>3. QED
    BY <2>1, <2>2 DEF Profiles
<1>3. QED
  BY <1>1, <1>2 DEF Culls

\* A whole batch: sound, and when no statement met its limit nothing over is left.
LEMMA BatchIsSound ==
  ASSUME NEW T, NEW n \in Nat, Sound(T, n), Scheduled(n), NEW seen \in Nat,
         T.milestone["receipt"] # NoRow => seen = 6,
         NEW kinds, kinds = ExpiredMilestones(T, n, seen),
         NEW rows \in Limited(ExpiredRows(T, n)), NEW consents \in Limited(ExpiredConsents(T, n)),
         NEW bare, bare = WithoutRows(T, rows, consents),
         NEW devices \in Limited(ExpiredDevices(bare, n)),
         NEW orphaned, orphaned = DropDevices(bare, devices),
         NEW profiles \in Limited(ExpiredProfiles(orphaned, n)),
         NEW U, U = WithoutProfiles(orphaned, profiles, kinds)
  PROVE  /\ Sound(U, n) /\ Evolves(T, U, n) /\ Spares(T, U, n)
         /\ ~(\/ FullBatch(Cardinality(rows)) \/ FullBatch(Cardinality(consents))
              \/ FullBatch(Cardinality(devices)) \/ FullBatch(Cardinality(profiles)))
            => Swept(U, n)
<1>1. /\ T \in Tables /\ T.profiles \subseteq Members /\ IsFiniteSet(T.profiles)
  BY DEF Sound, StoreInv, Tables, Members, Profiled
<1>2. IsFiniteSet(ExpiredRows(T, n)) /\ IsFiniteSet(ExpiredConsents(T, n))
  BY <1>1, ExpiredSets
<1>3. /\ rows \subseteq ExpiredRows(T, n) /\ consents \subseteq ExpiredConsents(T, n)
      /\ ~FullBatch(Cardinality(rows)) => rows = ExpiredRows(T, n)
      /\ ~FullBatch(Cardinality(consents)) => consents = ExpiredConsents(T, n)
  BY <1>2, LimitedTakes
<1>4. /\ Sound(bare, n) /\ Culls(T, bare, n) /\ bare.expires = T.expires
      /\ bare.milestone = T.milestone
      /\ rows = ExpiredRows(T, n) /\ consents = ExpiredConsents(T, n)
         => \A d \in Devices : Expired(bare, d, n) => d \in ExpiredDevices(bare, n)
  BY <1>3, RowsGo
<1>5. bare \in Tables /\ bare.profiles \subseteq Members /\ IsFiniteSet(bare.profiles)
  BY <1>4 DEF Sound, StoreInv, Tables, Members, Profiled
<1>6. /\ devices \subseteq ExpiredDevices(bare, n)
      /\ ~FullBatch(Cardinality(devices)) => devices = ExpiredDevices(bare, n)
  BY <1>5, ExpiredSets, LimitedTakes
<1>7. /\ Sound(orphaned, n) /\ Culls(bare, orphaned, n) /\ orphaned.milestone = bare.milestone
      /\ \A d \in Devices : orphaned.expires[d] = IF d \in devices THEN NoRow ELSE bare.expires[d]
  BY <1>4, <1>6, DevicesGo
<1>8. orphaned \in Tables /\ orphaned.profiles \subseteq Members /\ IsFiniteSet(orphaned.profiles)
  BY <1>7 DEF Sound, StoreInv, Tables, Members, Profiled
<1>9. /\ profiles \subseteq ExpiredProfiles(orphaned, n)
      /\ ~FullBatch(Cardinality(profiles)) => profiles = ExpiredProfiles(orphaned, n)
  BY <1>8, ExpiredSets, LimitedTakes
<1>10. /\ Sound(U, n) /\ Culls(orphaned, U, n) /\ U.expires = orphaned.expires
       /\ U.profiles = orphaned.profiles \ profiles /\ Forgets(orphaned, U, kinds)
  <2>1. Sound(orphaned, n) /\ profiles \in SUBSET ExpiredProfiles(orphaned, n)
    BY <1>7, <1>9
  <2>2. U = WithoutProfiles(orphaned, profiles, kinds)
    OBVIOUS
  <2>3. Sound(U, n)
    BY <2>1, <2>2, ProfilesGo, SMTT(30)
  <2>4. Culls(orphaned, U, n)
    BY <2>1, <2>2, ProfilesGo, SMTT(30)
  <2>5. U.expires = orphaned.expires /\ U.profiles = orphaned.profiles \ profiles /\ Forgets(orphaned, U, kinds)
    BY <2>1, <2>2, ProfilesGo, SMTT(30)
  <2>6. QED
    BY <2>3, <2>4, <2>5
<1>11. Evolves(T, U, n) /\ Spares(T, U, n)
  <2>1. Culls(T, orphaned, n)
    BY <1>1, <1>4, <1>5, <1>7, CullsTwice
  <2>2. Culls(T, U, n)
    BY <1>1, <1>8, <1>10, <2>1, CullsTwice
  <2>3. QED
    BY <1>1, <2>2, CullEvolves
<1>12. ASSUME rows = ExpiredRows(T, n), consents = ExpiredConsents(T, n),
              devices = ExpiredDevices(bare, n), profiles = ExpiredProfiles(orphaned, n)
       PROVE  Swept(U, n)
  <2>1. ASSUME NEW d \in Devices PROVE ~Expired(U, d, n)
    <3>1. CASE d \in devices
      BY <1>7, <1>10, <3>1 DEF Expired, NoRow
    <3>2. CASE d \notin devices
      BY <1>4, <1>7, <1>10, <1>12, <3>2 DEF Expired
    <3>3. QED
      BY <3>1, <3>2
  <2>2. ASSUME NEW p \in U.profiles, ~p.member PROVE p.expires > n
    <3>1. p \in orphaned.profiles /\ p \notin ExpiredProfiles(orphaned, n)
      BY <1>10, <1>12
    <3>2. p.expires \in Nat /\ ~(p.expires <= n)
      BY <1>8, <2>2, <3>1 DEF ExpiredProfiles, Members
    <3>3. QED
      BY <3>2
  <2>3. ASSUME NEW k \in Milestones PROVE U.milestone[k] \notin 1 .. n
    <3>1. orphaned.milestone[k] = T.milestone[k]
      BY <1>4, <1>7
    <3>2. T.milestone[k] \in 1 .. n => k \in kinds
      BY DEF ExpiredMilestones, NoRow
    <3>3. QED
      BY <1>10, <3>1, <3>2 DEF Forgets, NoRow
  <2>4. QED
    BY <2>1, <2>2, <2>3 DEF Swept
<1>13. QED
  BY <1>3, <1>6, <1>9, <1>10, <1>11, <1>12

-----------------------------------------------------------------------------
(* Requests, invocations and the heartbeat                                 *)

LEMMA StandStill ==
  ASSUME NEW T \in Tables, NEW n \in Nat
  PROVE  Evolves(T, T, n) /\ Spares(T, T, n)
BY TableTypes DEF Evolves, Spares

LEMMA CleansOn ==
  ASSUME NEW k, NEW T, NEW U, NEW t \in Nat, NEW v, Cleans(k, T, t, v), Evolves(T, U, t)
  PROVE  Cleans(k, U, t, v)
<1>1. U.milestone["receipt"] # NoRow => T.milestone["receipt"] # NoRow
  BY DEF Evolves, Milestones, NoRow
<1>2. Scheduled(t) /\ Swept(T, t) => Swept(U, t)
  BY DEF Evolves
<1>3. QED
  BY <1>1, <1>2 DEF Cleans

LEMMA BeatsOn ==
  ASSUME NEW h, NEW T, NEW U, NEW t \in Nat, NEW v, h.at \in Nat, Beats(h, T, t, v), Evolves(T, U, t)
  PROVE  Beats(h, U, t, v)
BY DEF Beats, Evolves

\* What every step keeps, besides the invariant.
Promises ==
  /\ Evolves(tables, tables', now)
  /\ \A d \in Devices : Stored(tables, d) \ Stored(tables', d) # {} =>
       tables.expires[d] <= now \/ \E f \in Flows : At(f, "clear") /\ Dev(f) = d
  /\ \A f \in Flows :
       ~At(f, "answered") /\ At(f, "answered")' /\ flow[f].kind = "save"
       => tables'.rows[Dev(f)][flow[f].id] = flow[f].content

\* What a step of request r leaves of its device's rows, and means when it answers.
ClearedOnly(r, T, U, n) ==
  \A d \in Devices : Stored(T, d) \ Stored(U, d) # {} =>
    T.expires[d] <= n \/ (r.pc = "clear" /\ r.dev = d)
SavedOnly(r, q, U) ==
  r.pc # "answered" /\ q.pc = "answered" /\ r.kind = "save" => U.rows[r.dev][r.id] = r.content

\* A step of one request.
LEMMA FlowStep ==
  ASSUME CloudInv, NEW f \in Flows, NEW r \in Requests, flow' = [flow EXCEPT ![f] = r],
         Asks(r, now, schema), StoreInv(tables', now), schema >= 4 => Profiled(tables'),
         Evolves(tables, tables', now), enabled' \in [Devices -> BOOLEAN], faults' \in Nat,
         asked' \in Nat, silentGrants' \in Nat, faults' = 0 => silentGrants' = 0,
         ClearedOnly(flow[f], tables, tables', now), SavedOnly(flow[f], r, tables'),
         UNCHANGED <<now, schema, cron, heartbeat, lastRun>>
  PROVE  CloudInv' /\ Promises
<1>1. now \in Nat /\ heartbeat.at \in Nat /\ schema \in 3 .. 6
  BY DEF CloudInv, TypeOK
<1>2. TypeOK'
  BY DEF CloudInv, TypeOK, StoreInv
<1>3. ASSUME NEW g \in Flows PROVE Asks(flow'[g], now', schema')
  BY DEF CloudInv, TypeOK
<1>4. ASSUME NEW c \in Crons PROVE Cleans(cron'[c], tables', now', schema')
  BY <1>1, CleansOn DEF CloudInv
<1>5. Beats(heartbeat', tables', now', schema')
  BY <1>1, BeatsOn DEF CloudInv
<1>6. tables'.milestone["receipt"] # NoRow => schema' = 6
  BY DEF CloudInv, Evolves, Milestones, NoRow
<1>7. Promises
  <2>1. flow \in [Flows -> Requests]
    BY DEF CloudInv, TypeOK
  <2>2. ASSUME NEW g \in Flows, flow[g].pc # "answered", flow'[g].pc = "answered", flow[g].kind = "save"
        PROVE  tables'.rows[flow[g].dev][flow[g].id] = flow[g].content
    <3>1. g = f /\ flow'[g] = r
      BY <2>1, <2>2
    <3>2. QED
      BY <2>2, <3>1 DEF SavedOnly
  <2>3. QED
    BY <2>2 DEF Promises, ClearedOnly, At, Dev
<1>8. QED
  BY <1>2, <1>3, <1>4, <1>5, <1>6, <1>7 DEF CloudInv

\* A step of one invocation.
LEMMA CronStep ==
  ASSUME CloudInv, NEW c \in Crons, NEW k \in Invocations, cron' = [cron EXCEPT ![c] = k],
         Cleans(k, tables', now, schema), StoreInv(tables', now), schema >= 4 => Profiled(tables'),
         Evolves(tables, tables', now), faults' \in Nat, faults' >= faults,
         heartbeat' \in [at : 0 .. MaxTime, backlog : BOOLEAN, swept : BOOLEAN],
         Beats(heartbeat', tables', now, schema), lastRun' \in [Crons -> Nat],
         Spares(tables, tables', now), UNCHANGED <<now, schema, flow, enabled, asked, silentGrants>>
  PROVE  CloudInv' /\ Promises
<1>1. now \in Nat /\ schema \in 3 .. 6
  BY DEF CloudInv, TypeOK
<1>2. TypeOK'
  BY DEF CloudInv, TypeOK, StoreInv
<1>3. ASSUME NEW e \in Crons PROVE Cleans(cron'[e], tables', now', schema')
  <2>1. CASE e = c
    BY <2>1 DEF CloudInv, TypeOK
  <2>2. CASE e # c
    <3>1. cron'[e] = cron[e]
      BY <2>2 DEF CloudInv, TypeOK
    <3>2. QED
      BY <1>1, <3>1, CleansOn DEF CloudInv
  <2>3. QED
    BY <2>1, <2>2
<1>4. tables'.milestone["receipt"] # NoRow => schema' = 6
  BY DEF CloudInv, Evolves, Milestones, NoRow
<1>5. faults' = 0 => silentGrants' = 0
  BY DEF CloudInv, TypeOK
<1>6. \A f \in Flows : Asks(flow'[f], now', schema')
  BY DEF CloudInv
<1>7. Promises
  BY DEF Promises, Spares, At
<1>8. QED
  BY <1>2, <1>3, <1>4, <1>5, <1>6, <1>7 DEF CloudInv

\* Records of requests.
LEMMA RestsType == Rest \in Requests /\ Rest.pc = "rest"
<1>1. PICK d \in Devices : d = SomeDevice
  BY CloudAssumption DEF SomeDevice
<1>2. PICK zero \in Nat, none \in Seq(Nat) : zero = 0 /\ none = <<>>
  <2>1. <<>> \in Seq(Nat) /\ 0 \in Nat
    OBVIOUS
  <2>2. QED
    BY <2>1
<1>3. Rest = [pc |-> "rest", dev |-> d, time |-> zero, kind |-> "none", id |-> zero,
              content |-> Absent, limit |-> zero, cursor |-> zero, got |-> none, check |-> FALSE,
              consentGranted |-> FALSE, page |-> none, next |-> zero]
  BY <1>1, <1>2 DEF Rest
<1>4. QED
  BY <1>3 DEF Requests

Places == {"rest", "answered"} \cup OnDatabase
LEMMA GotoType ==
  ASSUME NEW r \in Requests, NEW pc \in Places, NEW q, q = [r EXCEPT !.pc = pc]
  PROVE  /\ q \in Requests /\ q.pc = pc /\ q.time = r.time /\ q.dev = r.dev /\ q.kind = r.kind
         /\ q.id = r.id /\ q.content = r.content /\ q.consentGranted = r.consentGranted
         /\ q.got = r.got /\ q.cursor = r.cursor /\ q.limit = r.limit
BY DEF Requests, Places

\* An answer asks nothing more, and neither does a request at rest.
LEMMA DoneAsks ==
  ASSUME NEW r, NEW t, NEW v, r.pc \in {"rest", "answered"},
         r.pc = "answered" => v \in Supported /\ r.kind # "none"
  PROVE  Asks(r, t, v)
BY DEF Asks, OnDatabase

\* What a client sends, and what becomes of it when it arrives.
LEMMA ArrivedType ==
  ASSUME CloudInv, NEW d \in Devices, NEW r \in Requests,
         \/ r.pc = "batch" /\ r.kind = "save" /\ r.id \in Sessions /\ r.content \in Contents
         \/ r.pc = "active" /\ r.kind \in {"list", "clear"} /\ (r.kind = "list" => r.limit # 0),
         NEW q, q = Arrived(d, r)
  PROVE  q \in Requests /\ Asks(q, now, schema)
         /\ (q.pc # "rest" => q.pc = r.pc /\ q.kind = r.kind /\ q.cursor = r.cursor /\ q.got = r.got
                              /\ q.dev = d)
<1>1. CASE schema \in Supported
  <2>1. PICK n \in Nat : n = now
    BY DEF CloudInv, TypeOK
  <2>2. q = [r EXCEPT !.dev = d, !.time = n]
    BY <1>1, <2>1 DEF Arrived
  <2>3. /\ q \in Requests /\ q.pc = r.pc /\ q.kind = r.kind /\ q.id = r.id /\ q.content = r.content
        /\ q.time = n /\ q.cursor = r.cursor /\ q.got = r.got /\ q.dev = d /\ q.limit = r.limit
    BY <2>2 DEF Requests
  <2>4. n <= n + RequestTime
    BY <2>1, Quantities
  <2>5. Asks(q, n, schema)
    BY <1>1, <2>3, <2>4 DEF Asks, OnDatabase
  <2>6. QED
    BY <2>1, <2>3, <2>5
<1>2. CASE schema \notin Supported
  BY <1>2, RestsType, DoneAsks DEF Arrived
<1>3. QED
  BY <1>1, <1>2

LEMMA SavingType ==
  ASSUME NEW s \in Sessions, NEW content \in Contents, NEW r, r = Saving(s, content)
  PROVE  r \in Requests /\ r.pc = "batch" /\ r.kind = "save" /\ r.id = s /\ r.content = content
<1>1. PICK id \in Nat : id = s
  BY StoreAssumption
<1>2. PICK p \in Requests, pc \in Places, kind \in {"none", "save", "list", "clear"} :
        p = Rest /\ pc = "batch" /\ kind = "save"
  BY RestsType DEF Places, OnDatabase
<1>3. r = [p EXCEPT !.pc = pc, !.kind = kind, !.id = id, !.content = content]
  BY <1>1, <1>2 DEF Saving
<1>4. r \in Requests /\ r.pc = pc /\ r.kind = kind /\ r.id = id /\ r.content = content
  BY <1>3 DEF Requests, Places
<1>5. QED
  BY <1>1, <1>2, <1>4

LEMMA ListingType ==
  ASSUME NEW limit \in Nat, NEW cursor \in Nat, NEW got \in Seq(Nat), NEW check \in BOOLEAN,
         NEW r, r = Listing(limit, cursor, got, check)
  PROVE  /\ r \in Requests /\ r.pc = "active" /\ r.kind = "list" /\ r.cursor = cursor /\ r.got = got
         /\ r.limit = limit
<1>1. PICK p \in Requests, pc \in Places, kind \in {"none", "save", "list", "clear"} :
        p = Rest /\ pc = "active" /\ kind = "list"
  BY RestsType DEF Places, OnDatabase
<1>2. r = [p EXCEPT !.pc = pc, !.kind = kind, !.limit = limit, !.cursor = cursor,
                    !.got = got, !.check = check]
  BY <1>1 DEF Listing
<1>3. r \in Requests
  <2>1. PICK q \in Requests : q = [p EXCEPT !.pc = pc, !.kind = kind]
    BY DEF Requests, Places
  <2>2. PICK x \in Requests : x = [q EXCEPT !.limit = limit, !.cursor = cursor]
    BY DEF Requests
  <2>3. r = [x EXCEPT !.got = got, !.check = check]
    BY <1>2, <2>1, <2>2 DEF Requests
  <2>4. QED
    BY <2>3 DEF Requests
<1>4. r.pc = pc /\ r.kind = kind /\ r.cursor = cursor /\ r.got = got /\ r.limit = limit
  BY <1>2, SMTT(60) DEF Requests, Places
<1>5. QED
  BY <1>1, <1>3, <1>4

LEMMA ClearingType ==
  ASSUME NEW r, r = Clearing
  PROVE  r \in Requests /\ r.pc = "active" /\ r.kind = "clear"
<1>1. PICK p \in Requests, pc \in Places, kind \in {"none", "save", "list", "clear"} :
        p = Rest /\ pc = "active" /\ kind = "clear"
  BY RestsType DEF Places, OnDatabase
<1>2. r = [p EXCEPT !.pc = pc, !.kind = kind]
  BY <1>1 DEF Clearing
<1>3. r \in Requests /\ r.pc = pc /\ r.kind = kind
  BY <1>2 DEF Requests, Places
<1>4. QED
  BY <1>1, <1>3

-----------------------------------------------------------------------------
(* The steps of a request                                                  *)

LEMMA Flowing ==
  ASSUME CloudInv, NEW f \in Flows
  PROVE  /\ flow \in [Flows -> Requests] /\ flow[f] \in Requests
         /\ Asks(flow[f], now, schema) /\ Dev(f) = flow[f].dev /\ Dev(f) \in Devices
         /\ Time(f) = flow[f].time /\ Time(f) \in Nat
         /\ now \in Nat /\ StoreInv(tables, now) /\ tables \in Tables /\ schema \in Nat
         /\ enabled \in [Devices -> BOOLEAN] /\ faults \in Nat /\ asked \in Nat
         /\ silentGrants \in Nat /\ (faults = 0 => silentGrants = 0)
<1>1. flow \in [Flows -> Requests] /\ flow[f] \in Requests
  BY DEF CloudInv, TypeOK
<1>2. flow[f].dev \in Devices /\ flow[f].time \in Nat
  BY <1>1 DEF Requests
<1>3. QED
  BY <1>1, <1>2 DEF CloudInv, TypeOK, StoreInv, Dev, Time

LEMMA Serving ==
  ASSUME CloudInv, NEW f \in Flows, flow[f].pc \in OnDatabase
  PROVE  /\ Sound(tables, now) /\ Time(f) <= now /\ now <= Time(f) + RequestTime
         /\ schema \in Supported /\ flow[f].kind # "none"
<1>1. flow[f].pc # "rest"
  BY DEF OnDatabase
<1>2. schema \in Supported /\ flow[f].kind # "none"
  BY <1>1, Flowing DEF Asks
<1>3. schema >= 4
  BY <1>2 DEF Supported
<1>4. Sound(tables, now)
  BY <1>3 DEF CloudInv, Sound
<1>5. Time(f) <= now /\ now <= Time(f) + RequestTime
  BY Flowing DEF Asks
<1>6. QED
  BY <1>2, <1>4, <1>5

\* Steps that leave the tables alone.
LEMMA IdleStep ==
  ASSUME CloudInv, NEW f \in Flows, NEW r \in Requests, flow' = [flow EXCEPT ![f] = r],
         Asks(r, now, schema), enabled' \in [Devices -> BOOLEAN], asked' \in Nat,
         SavedOnly(flow[f], r, tables),
         UNCHANGED <<now, schema, tables, cron, heartbeat, faults, silentGrants, lastRun>>
  PROVE  CloudInv' /\ Promises
<1>1. Evolves(tables, tables', now) /\ Spares(tables, tables', now)
  BY Flowing, StandStill
<1>2. ClearedOnly(flow[f], tables, tables', now)
  BY <1>1 DEF ClearedOnly, Spares
<1>3. StoreInv(tables', now) /\ (schema >= 4 => Profiled(tables')) /\ faults' \in Nat
      /\ silentGrants' \in Nat /\ (faults' = 0 => silentGrants' = 0) /\ SavedOnly(flow[f], r, tables')
  BY Flowing DEF CloudInv
<1>4. QED
  BY <1>1, <1>2, <1>3, FlowStep

LEMMA AskKeeps ==
  ASSUME CloudInv, NEW f \in Flows, NEW d \in Devices, NEW r \in Requests,
         \/ r.pc = "batch" /\ r.kind = "save" /\ r.id \in Sessions /\ r.content \in Contents
         \/ r.pc = "active" /\ r.kind \in {"list", "clear"} /\ (r.kind = "list" => r.limit # 0),
         Ask(f, d, r)
  PROVE  CloudInv' /\ Promises
<1>1. PICK q : q = Arrived(d, r)
  OBVIOUS
<1>2. q \in Requests /\ Asks(q, now, schema) /\ (q.pc # "rest" => q.pc = r.pc)
  BY <1>1, ArrivedType
<1>3. SavedOnly(flow[f], q, tables)
  BY <1>2 DEF SavedOnly
<1>4. /\ flow' = [flow EXCEPT ![f] = q] /\ asked' = asked + 1
      /\ UNCHANGED <<now, schema, tables, enabled, cron, heartbeat, faults, silentGrants, lastRun>>
  BY <1>1 DEF Ask
<1>5. asked' \in Nat /\ enabled' \in [Devices -> BOOLEAN]
  BY <1>4, Flowing
<1>6. QED
  BY <1>2, <1>3, <1>4, <1>5, IdleStep

LEMMA AsksKeep ==
  ASSUME CloudInv, NEW f \in Flows, NEW d \in Devices,
         \/ \E s \in Sessions, content \in Contents : AskSave(f, d, s, content)
         \/ AskList(f, d) \/ AskExport(f, d) \/ AskClear(f, d)
  PROVE  CloudInv' /\ Promises
<1>1. ASSUME NEW s \in Sessions, NEW content \in Contents, AskSave(f, d, s, content)
      PROVE  CloudInv' /\ Promises
  <2>1. PICK r : r = Saving(s, content)
    OBVIOUS
  <2>2. r \in Requests /\ r.pc = "batch" /\ r.kind = "save" /\ r.id = s /\ r.content = content
    BY <2>1, SavingType
  <2>3. Ask(f, d, r)
    BY <1>1, <2>1 DEF AskSave
  <2>4. QED
    BY <2>2, <2>3, AskKeeps
<1>2. ASSUME NEW limit \in Nat \ {0}, NEW check \in BOOLEAN, Ask(f, d, Listing(limit, 0, <<>>, check))
      PROVE  CloudInv' /\ Promises
  <2>1. PICK zero \in Nat, none \in Seq(Nat) : zero = 0 /\ none = <<>>
    <3>1. <<>> \in Seq(Nat) /\ 0 \in Nat
      OBVIOUS
    <3>2. QED
      BY <3>1
  <2>2. PICK r : r = Listing(limit, zero, none, check)
    OBVIOUS
  <2>3. r \in Requests /\ r.pc = "active" /\ r.kind = "list" /\ r.limit # 0
    BY <2>2, ListingType
  <2>4. Ask(f, d, r)
    BY <1>2, <2>1, <2>2
  <2>5. QED
    BY <2>3, <2>4, AskKeeps
<1>3. CASE AskList(f, d)
  <2>1. PageSize \in Nat \ {0} /\ (~enabled[d]) \in BOOLEAN
    BY CloudAssumption
  <2>2. PICK check \in BOOLEAN : check = ~enabled[d]
    BY <2>1
  <2>3. Ask(f, d, Listing(PageSize, 0, <<>>, check))
    BY <1>3, <2>2 DEF AskList
  <2>4. QED
    BY <1>2, <2>1, <2>3
<1>4. CASE AskExport(f, d)
  <2>1. Cardinality(Sessions) \in Nat \ {0}
    BY Quantities, StoreAssumption, FS_CardinalityType, FS_EmptySet
  <2>2. PICK limit \in Nat \ {0}, check \in BOOLEAN : limit = Cardinality(Sessions) /\ check = FALSE
    BY <2>1
  <2>3. Ask(f, d, Listing(limit, 0, <<>>, check))
    BY <1>4, <2>2 DEF AskExport
  <2>4. QED
    BY <1>2, <2>3
<1>5. CASE AskClear(f, d)
  <2>1. PICK r : r = Clearing
    OBVIOUS
  <2>2. r \in Requests /\ r.pc = "active" /\ r.kind = "clear"
    BY <2>1, ClearingType
  <2>3. Ask(f, d, r)
    BY <1>5, <2>1 DEF AskClear
  <2>4. QED
    BY <2>2, <2>3, AskKeeps
<1>6. QED
  BY <1>1, <1>3, <1>4, <1>5

LEMMA ClientAnswerKeeps ==
  ASSUME CloudInv, NEW f \in Flows, ClientAnswer(f)
  PROVE  CloudInv' /\ Promises
<1>1. flow[f].pc = "answered" /\ flow[f] \in Requests
  BY Flowing DEF ClientAnswer, At
<1>2. ASSUME NEW q, SavedOnly(flow[f], q, tables) => CloudInv' /\ Promises
      PROVE  CloudInv' /\ Promises
  BY <1>1, <1>2 DEF SavedOnly
<1>3. CASE flow[f].kind = "list" /\ flow[f].next # 0
  <2>1. PICK d \in Devices, next \in Nat, got \in Seq(Nat), page \in Seq(Nat), check \in BOOLEAN :
          /\ d = Dev(f) /\ next = flow[f].next /\ got = flow[f].got /\ page = flow[f].page
          /\ check = flow[f].check
    BY <1>1 DEF Requests, Dev
  <2>2. PICK all : all = got \o page
    OBVIOUS
  <2>3. PICK r : r = Listing(PageSize, next, all, check)
    OBVIOUS
  <2>4. r \in Requests /\ r.pc = "active" /\ r.kind = "list" /\ r.limit # 0
    <3>1. got \o page \in Seq(Nat)
      OBVIOUS
    <3>2. all \in Seq(Nat) /\ PageSize \in Nat \ {0}
      BY <2>2, <3>1, CloudAssumption
    <3>3. QED
      BY <2>3, <3>2, ListingType
  <2>5. PICK q : q = Arrived(d, r)
    OBVIOUS
  <2>6. q \in Requests /\ Asks(q, now, schema)
    BY <2>4, <2>5, ArrivedType
  <2>7. /\ flow' = [flow EXCEPT ![f] = q]
        /\ UNCHANGED <<now, schema, tables, enabled, cron, heartbeat, faults, asked, silentGrants, lastRun>>
    BY <1>3, <2>1, <2>2, <2>3, <2>5 DEF ClientAnswer
  <2>8. enabled' \in [Devices -> BOOLEAN] /\ asked' \in Nat /\ SavedOnly(flow[f], q, tables)
    BY <1>1, <2>7, Flowing DEF SavedOnly
  <2>9. QED
    BY <2>6, <2>7, <2>8, IdleStep
<1>4. CASE ~(flow[f].kind = "list" /\ flow[f].next # 0)
  <2>1. PICK on \in BOOLEAN :
          on = CASE flow[f].kind = "save"  -> TRUE
                 [] flow[f].kind = "clear" -> FALSE
                 [] OTHER -> enabled[Dev(f)] \/ (flow[f].check /\ flow[f].got \o flow[f].page # <<>>)
    BY <1>1, Flowing
  <2>2. PICK q \in Requests : q = Rest
    BY RestsType
  <2>3. Asks(q, now, schema) /\ SavedOnly(flow[f], q, tables)
    BY <1>1, <2>2, RestsType, DoneAsks DEF SavedOnly
  <2>4. /\ flow' = [flow EXCEPT ![f] = q] /\ enabled' = [enabled EXCEPT ![Dev(f)] = on]
        /\ UNCHANGED <<now, schema, tables, cron, heartbeat, faults, asked, silentGrants, lastRun>>
    BY <1>4, <2>1, <2>2 DEF ClientAnswer
  <2>5. enabled' \in [Devices -> BOOLEAN] /\ asked' \in Nat
    BY <2>4, Flowing
  <2>6. QED
    BY <2>2, <2>3, <2>4, <2>5, IdleStep
<1>5. QED
  BY <1>3, <1>4

\* Steps that only move a request on, answer it, or refuse it.
LEMMA GoOn ==
  ASSUME CloudInv, NEW f \in Flows, NEW pc \in OnDatabase, Goto(f, pc), flow[f].pc \in OnDatabase,
         ASSUME NEW r, r.pc = pc, r.time = Time(f), r.kind = flow[f].kind, r.id = flow[f].id,
                r.content = flow[f].content, r.consentGranted = flow[f].consentGranted,
               r.limit = flow[f].limit
         PROVE  Asks(r, now, schema),
         UNCHANGED <<now, schema, tables, enabled, cron, heartbeat, faults, asked, silentGrants, lastRun>>
  PROVE  CloudInv' /\ Promises
<1>1. PICK r : r = [flow[f] EXCEPT !.pc = pc]
  OBVIOUS
<1>2. pc \in Places /\ flow[f] \in Requests
  BY Flowing DEF Places
<1>3. /\ r \in Requests /\ r.pc = pc /\ r.time = flow[f].time /\ r.kind = flow[f].kind
      /\ r.id = flow[f].id /\ r.content = flow[f].content /\ r.consentGranted = flow[f].consentGranted
      /\ r.limit = flow[f].limit
  BY <1>1, <1>2, GotoType
<1>4. Asks(r, now, schema)
  <2>1. Time(f) = flow[f].time
    BY DEF Time
  <2>2. QED
    BY <1>3, <2>1
<1>5. flow' = [flow EXCEPT ![f] = r]
  BY <1>1, Flowing DEF Goto
<1>6. SavedOnly(flow[f], r, tables)
  BY <1>3 DEF SavedOnly, OnDatabase
<1>7. enabled' \in [Devices -> BOOLEAN] /\ asked' \in Nat
  BY Flowing
<1>8. QED
  BY <1>3, <1>4, <1>5, <1>6, <1>7, IdleStep

LEMMA Refuse ==
  ASSUME CloudInv, NEW f \in Flows, NEW code, Refused(f, code), flow[f].pc \in OnDatabase,
         UNCHANGED <<now, schema, tables, enabled, cron, heartbeat, faults, asked, silentGrants, lastRun>>
  PROVE  CloudInv' /\ Promises
<1>1. PICK q \in Requests : q = Rest
  BY RestsType
<1>2. Asks(q, now, schema) /\ SavedOnly(flow[f], q, tables)
  BY <1>1, RestsType, DoneAsks DEF SavedOnly
<1>3. flow' = [flow EXCEPT ![f] = q]
  BY <1>1 DEF Refused
<1>4. enabled' \in [Devices -> BOOLEAN] /\ asked' \in Nat
  BY Flowing
<1>5. QED
  BY <1>1, <1>2, <1>3, <1>4, IdleStep

LEMMA Reply ==
  ASSUME CloudInv, NEW f \in Flows, flow[f].pc \in OnDatabase, NEW page \in Seq(Nat), NEW next \in Nat,
         Answered(f, page, next),
         flow[f].kind = "save" => tables.rows[Dev(f)][flow[f].id] = flow[f].content,
         UNCHANGED <<now, schema, tables, enabled, cron, heartbeat, faults, asked, silentGrants, lastRun>>
  PROVE  CloudInv' /\ Promises
<1>1. PICK pc : pc = "answered"
  OBVIOUS
<1>2. PICK r : r = [flow[f] EXCEPT !.pc = pc, !.page = page, !.next = next]
  OBVIOUS
<1>3. /\ r \in Requests /\ r.pc = "answered" /\ r.kind = flow[f].kind
  <2>1. PICK p \in Requests : p = flow[f]
    BY Flowing
  <2>2. r = [p EXCEPT !.pc = pc, !.page = page, !.next = next]
    BY <1>2, <2>1
  <2>3. r \in Requests /\ r.pc = pc /\ r.kind = p.kind
    BY <1>1, <2>2 DEF Requests
  <2>4. QED
    BY <1>1, <2>1, <2>3
<1>4. flow' = [flow EXCEPT ![f] = r]
  BY <1>1, <1>2, Flowing DEF Answered
<1>5. Asks(r, now, schema)
  BY <1>3, Serving, DoneAsks
<1>6. SavedOnly(flow[f], r, tables)
  BY <1>3 DEF SavedOnly, Dev
<1>7. enabled' \in [Devices -> BOOLEAN] /\ asked' \in Nat
  BY Flowing
<1>8. QED
  BY <1>3, <1>4, <1>5, <1>6, <1>7, IdleStep

LEMMA ReadExistingKeeps ==
  ASSUME CloudInv, NEW f \in Flows, ReadExisting(f)
  PROVE  CloudInv' /\ Promises
<1>1. /\ flow[f].pc = "existing" /\ flow[f].pc \in OnDatabase
      /\ UNCHANGED <<now, schema, tables, enabled, cron, heartbeat, faults, asked, lastRun>>
  BY DEF ReadExisting, At, OnDatabase
<1>2. /\ flow[f].consentGranted = FALSE /\ flow[f].kind = "save" /\ flow[f].content \in Contents
      /\ flow[f].id \in Sessions
  BY <1>1, Flowing DEF Asks
<1>3. PICK found : found = IF HasActiveDevice(tables, Dev(f), Time(f))
                           THEN tables.rows[Dev(f)][flow[f].id] ELSE Absent
  OBVIOUS
<1>4. CASE found = Absent
  <2>1. Goto(f, "consent") /\ UNCHANGED silentGrants
    BY <1>3, <1>4 DEF ReadExisting
  <2>2. ASSUME NEW r, r.pc = "consent", r.time = Time(f), r.kind = flow[f].kind, r.id = flow[f].id,
               r.content = flow[f].content, r.consentGranted = flow[f].consentGranted,
               r.limit = flow[f].limit
        PROVE  Asks(r, now, schema)
    BY <1>1, <1>2, <2>2, Serving DEF Asks
  <2>3. PICK pc \in OnDatabase : pc = "consent"
    BY DEF OnDatabase
  <2>4. QED
    BY <1>1, <2>1, <2>2, <2>3, GoOn
<1>5. CASE found # Absent /\ ~SameSummary(found, flow[f].content)
  <2>1. Refused(f, "conflict") /\ UNCHANGED silentGrants
    BY <1>3, <1>5 DEF ReadExisting
  <2>2. PICK code : Refused(f, code)
    BY <2>1
  <2>3. QED
    BY <1>1, <2>1, <2>2, Refuse
<1>6. CASE found # Absent /\ SameSummary(found, flow[f].content)
  <2>1. Answered(f, <<>>, 0) /\ silentGrants' = silentGrants - One(flow[f].consentGranted)
    BY <1>3, <1>6 DEF ReadExisting
  <2>2. UNCHANGED silentGrants
    BY <1>2, <2>1, Flowing DEF One
  <2>3. tables.rows[Dev(f)][flow[f].id] = flow[f].content
    BY <1>3, <1>6 DEF SameSummary
  <2>4. PICK page \in Seq(Nat), next \in Nat : Answered(f, page, next)
    <3>1. <<>> \in Seq(Nat) /\ 0 \in Nat
      OBVIOUS
    <3>2. QED
      BY <2>1, <3>1
  <2>5. QED
    BY <1>1, <2>2, <2>3, <2>4, Reply
<1>7. QED
  BY <1>4, <1>5, <1>6

\* A page: in order, nothing left out before its end, nothing left at all when it is the last.
\* A page that ends at its last row, and a page with all there is.
EndsAt(page, set, limit) ==
  /\ limit \in DOMAIN page /\ \A i \in DOMAIN page : page[i] <= page[limit]
  /\ \A x \in set : x <= page[limit] => \E i \in DOMAIN page : page[i] = x
HasAll(page, set) == \A x \in set : \E i \in DOMAIN page : page[i] = x

LEMMA PageFacts ==
  ASSUME NEW set \in SUBSET Sessions, NEW limit \in Nat \ {0}, NEW page \in FirstOf(set, limit)
  PROVE  /\ page \in Seq(Nat) /\ Increasing(page) /\ \A i \in DOMAIN page : page[i] \in set
         /\ HasNext(set, limit) => EndsAt(page, set, limit)
         /\ ~HasNext(set, limit) => HasAll(page, set)
<1>1. PICK n \in 0 .. limit : page \in [1 .. n -> set]
  BY DEF FirstOf
<1>2. n \in Nat /\ n <= limit /\ DOMAIN page = 1 .. n /\ Len(page) = n
  BY <1>1
<1>3. \A i \in 1 .. n : page[i] \in set /\ page[i] \in Nat
  BY <1>1, StoreAssumption
<1>4. page \in Seq(Nat)
  BY <1>1, <1>2, <1>3
<1>5. Increasing(page)
  BY DEF Increasing, FirstOf
<1>6. PICK image : image = {page[i] : i \in 1 .. n}
  OBVIOUS
<1>7. \A s \in set \ image : n = limit /\ \A i \in 1 .. n : page[i] < s
  BY <1>2, <1>6 DEF FirstOf
<1>8. IsFiniteSet(set) /\ image \subseteq set /\ Cardinality(set) \in Nat
  BY <1>3, <1>6, Quantities, FS_Subset, FS_CardinalityType
<1>9. IsFiniteSet(1 .. n) /\ Cardinality(1 .. n) = n
  BY <1>2, FS_Interval
<1>10. page \in Surjection(1 .. n, image) /\ page \in Injection(1 .. n, image)
  <2>1. page \in [1 .. n -> image]
    BY <1>1, <1>6
  <2>2. \A i, j \in 1 .. n : page[i] = page[j] => i = j
    <3>1. \A i, j \in 1 .. n : i < j => page[i] < page[j]
      BY <1>2, <1>5 DEF Increasing
    <3>2. QED
      BY <1>3, <3>1
  <2>3. QED
    <3>1. \A y \in image : \E i \in 1 .. n : page[i] = y
      BY <1>6
    <3>2. page \in Surjection(1 .. n, image)
      BY <2>1, <3>1, Zenon DEF Surjection
    <3>3. page \in Injection(1 .. n, image)
      BY <2>1, <2>2, Zenon DEF Injection, IsInjective
    <3>4. QED
      BY <3>2, <3>3
<1>11. IsFiniteSet(image) /\ Cardinality(image) = n
  BY <1>9, <1>10, FS_Surjection
<1>12. ASSUME HasNext(set, limit)
       PROVE  /\ limit \in DOMAIN page /\ \A i \in DOMAIN page : page[i] <= page[limit]
              /\ \A x \in set : x <= page[limit] => \E i \in DOMAIN page : page[i] = x
  <2>1. Cardinality(set) > limit
    BY <1>12 DEF HasNext
  <2>2. image # set
    BY <1>2, <1>8, <1>11, <2>1
  <2>3. n = limit
    BY <1>7, <1>8, <2>2
  <2>4. limit \in 1 .. n
    BY <1>2, <2>3
  <2>5. \A i \in 1 .. n : page[i] <= page[limit]
    BY <1>2, <1>3, <1>5, <2>3, <2>4 DEF Increasing
  <2>6. ASSUME NEW x \in set, x <= page[limit] PROVE x \in image
    <3>1. x \in Nat /\ page[limit] \in Nat
      BY <1>3, <2>4, StoreAssumption
    <3>2. QED
      BY <1>7, <2>4, <2>6, <3>1
  <2>7. QED
    BY <1>2, <1>6, <2>4, <2>5, <2>6
<1>13. ASSUME ~HasNext(set, limit) PROVE \A x \in set : \E i \in DOMAIN page : page[i] = x
  <2>1. ~(Cardinality(set) > limit)
    BY <1>13 DEF HasNext
  <2>2. SUFFICES ASSUME NEW x \in set, x \notin image PROVE FALSE
    BY <1>2, <1>6
  <2>3. n = limit
    BY <1>7, <2>2
  <2>4. Cardinality(image) = Cardinality(set)
    <3>1. Cardinality(image) <= Cardinality(set)
      BY <1>8, FS_Subset
    <3>2. QED
      BY <1>2, <1>8, <1>11, <2>1, <2>3, <3>1
  <2>5. image = set
    BY <1>8, <2>4, FS_Subset
  <2>6. QED
    BY <2>2, <2>5
<1>14. QED
  BY <1>2, <1>3, <1>4, <1>5, <1>12, <1>13 DEF EndsAt, HasAll

\* What a list is given, and with which cursor.
LEMMA ListPageAnswers ==
  ASSUME CloudInv, NEW f \in Flows, ListPage(f)
  PROVE  \E after \in SUBSET Sessions, limit \in Nat \ {0} :
           /\ after = {s \in Stored(tables, Dev(f)) : s > flow[f].cursor} /\ limit = flow[f].limit
           /\ \E page \in FirstOf(after, limit), next \in Nat :
                /\ Answered(f, page, next) /\ page \in Seq(Nat)
                /\ next = IF HasNext(after, limit) THEN page[limit] ELSE 0
<1>1. flow[f].pc = "list" /\ flow[f].kind = "list" /\ flow[f] \in Requests
  BY Flowing DEF ListPage, At, Asks
<1>2. PICK limit \in Nat \ {0} : limit = flow[f].limit
  BY <1>1, Flowing DEF Asks, OnDatabase, Requests
<1>3. PICK after \in SUBSET Sessions : after = {s \in Stored(tables, Dev(f)) : s > flow[f].cursor}
  BY DEF Stored
<1>4. PICK page \in FirstOf(after, limit) :
        Answered(f, page, IF HasNext(after, limit) THEN page[limit] ELSE 0)
  BY <1>2, <1>3 DEF ListPage
<1>5. page \in Seq(Nat) /\ (HasNext(after, limit) => page[limit] \in Nat)
  BY PageFacts, StoreAssumption DEF EndsAt
<1>6. PICK next \in Nat : next = IF HasNext(after, limit) THEN page[limit] ELSE 0
  BY <1>5
<1>7. QED
  BY <1>2, <1>3, <1>4, <1>5, <1>6

LEMMA ReadsKeep ==
  ASSUME CloudInv, NEW f \in Flows, RequireConsent(f) \/ CountActive(f) \/ ReadActive(f) \/ ListPage(f)
  PROVE  CloudInv' /\ Promises
<1>1. UNCHANGED <<now, schema, tables, enabled, cron, heartbeat, faults, asked, silentGrants, lastRun>>
  BY DEF RequireConsent, CountActive, ReadActive, ListPage
<1>2. CASE RequireConsent(f)
  <2>1. flow[f].pc = "consent" /\ flow[f].pc \in OnDatabase
    BY <1>2 DEF RequireConsent, At, OnDatabase
  <2>2. CASE Goto(f, "count")
    <3>1. flow[f].kind = "save" /\ flow[f].content \in Contents /\ flow[f].id \in Sessions
      BY <2>1, Flowing DEF Asks
    <3>2. ASSUME NEW r, r.pc = "count", r.time = Time(f), r.kind = flow[f].kind, r.id = flow[f].id,
                 r.content = flow[f].content, r.consentGranted = flow[f].consentGranted,
               r.limit = flow[f].limit
          PROVE  Asks(r, now, schema)
      BY <2>1, <3>1, <3>2, Serving DEF Asks
    <3>3. PICK pc \in OnDatabase : pc = "count"
      BY DEF OnDatabase
    <3>4. QED
      BY <1>1, <2>1, <2>2, <3>2, <3>3, GoOn
  <2>3. CASE Refused(f, "consent-required")
    <3>1. PICK code : Refused(f, code)
      BY <2>3
    <3>2. QED
      BY <1>1, <2>1, <3>1, Refuse
  <2>4. QED
    BY <1>2, <2>2, <2>3 DEF RequireConsent
<1>3. CASE CountActive(f)
  <2>1. flow[f].pc \in OnDatabase
    BY <1>3 DEF CountActive, At, OnDatabase
  <2>2. PICK code : Refused(f, code)
    BY <1>3 DEF CountActive
  <2>3. QED
    BY <1>1, <2>1, <2>2, Refuse
<1>4. CASE ReadActive(f)
  <2>1. flow[f].pc = "active" /\ flow[f].pc \in OnDatabase /\ flow[f].kind \in {"list", "clear"}
    BY <1>4, Flowing DEF ReadActive, At, OnDatabase, Asks
  <2>2. CASE Goto(f, "touch")
    <3>1. ASSUME NEW r, r.pc = "touch", r.time = Time(f), r.kind = flow[f].kind, r.id = flow[f].id,
                 r.content = flow[f].content, r.consentGranted = flow[f].consentGranted,
               r.limit = flow[f].limit
          PROVE  Asks(r, now, schema)
      BY <2>1, <3>1, Flowing, Serving DEF Asks
    <3>2. PICK pc \in OnDatabase : pc = "touch"
      BY DEF OnDatabase
    <3>3. QED
      BY <1>1, <2>1, <2>2, <3>1, <3>2, GoOn
  <2>3. CASE Answered(f, <<>>, 0)
    <3>1. PICK page \in Seq(Nat), next \in Nat : Answered(f, page, next)
      <4>1. <<>> \in Seq(Nat) /\ 0 \in Nat
        OBVIOUS
      <4>2. QED
        BY <2>3, <4>1
    <3>2. QED
      BY <1>1, <2>1, <3>1, Reply
  <2>4. QED
    BY <1>4, <2>2, <2>3 DEF ReadActive
<1>5. CASE ListPage(f)
  <2>1. flow[f].pc = "list" /\ flow[f].pc \in OnDatabase /\ flow[f].kind = "list"
    BY <1>5, Flowing DEF ListPage, At, OnDatabase, Asks
  <2>2. PICK page \in Seq(Nat), next \in Nat : Answered(f, page, next)
    BY <1>5, ListPageAnswers
  <2>3. QED
    BY <1>1, <2>1, <2>2, Reply
<1>6. QED
  BY <1>2, <1>3, <1>4, <1>5

LEMMA SaveKeeps ==
  ASSUME CloudInv, NEW f \in Flows, SaveConsented(f)
  PROVE  CloudInv' /\ Promises
<1>1. /\ flow[f].pc = "batch" /\ flow[f].pc \in OnDatabase
      /\ UNCHANGED <<now, schema, enabled, cron, heartbeat, faults, asked, lastRun>>
  BY DEF SaveConsented, At, OnDatabase
<1>2. PICK d \in Devices, t \in Nat, s \in Sessions, content \in Contents :
        d = Dev(f) /\ t = Time(f) /\ s = flow[f].id /\ content = flow[f].content
  BY <1>1, Flowing DEF Asks
<1>3. Sound(tables, now) /\ t <= now /\ now <= t + RequestTime /\ now \in Nat /\ schema \in Supported
  BY <1>1, <1>2, Serving, Flowing
<1>4. tables' = SaveBatch(tables, d, s, content, t)
  BY <1>2 DEF SaveConsented
<1>5. /\ Sound(tables', now) /\ Evolves(tables, tables', now) /\ Spares(tables, tables', now)
      /\ Creates(tables, d, s, t) => tables'.rows[d][s] = content
      /\ GrantsConsent(tables, d, t) => Creates(tables, d, s, t)
  BY <1>2, <1>3, <1>4, SaveIsSound
<1>6. /\ StoreInv(tables', now) /\ Profiled(tables') /\ ClearedOnly(flow[f], tables, tables', now)
      /\ enabled' \in [Devices -> BOOLEAN] /\ faults' \in Nat /\ asked' \in Nat
  BY <1>1, <1>5, Flowing DEF Sound, ClearedOnly, Spares
<1>7. PICK p \in Requests : p = flow[f]
  BY Flowing
<1>8. p.kind = "save"
  BY <1>1, <1>7, Flowing DEF Asks
<1>9. CASE Creates(tables, d, s, t)
  <2>1. Answered(f, <<>>, 0) /\ UNCHANGED silentGrants
    BY <1>2, <1>9 DEF SaveConsented
  <2>2. PICK page \in Seq(Nat), next \in Nat, pc \in Places : page = <<>> /\ next = 0 /\ pc = "answered"
    <3>1. <<>> \in Seq(Nat) /\ 0 \in Nat
      OBVIOUS
    <3>2. QED
      BY <3>1 DEF Places
  <2>3. PICK r : r = [p EXCEPT !.pc = pc, !.page = page, !.next = next]
    OBVIOUS
  <2>4. r \in Requests /\ r.pc = pc /\ pc = "answered" /\ r.kind = p.kind
    BY <2>2, <2>3 DEF Requests
  <2>5. flow' = [flow EXCEPT ![f] = r]
    BY <1>7, <2>1, <2>2, <2>3, Flowing DEF Answered
  <2>6. Asks(r, now, schema)
    BY <1>3, <1>8, <2>4, DoneAsks
  <2>7. SavedOnly(flow[f], r, tables')
    BY <1>2, <1>5, <1>9 DEF SavedOnly, Dev
  <2>8. silentGrants' \in Nat /\ (faults' = 0 => silentGrants' = 0)
    BY <1>1, <2>1, Flowing
  <2>9. QED
    BY <1>1, <1>5, <1>6, <2>4, <2>5, <2>6, <2>7, <2>8, FlowStep
<1>10. CASE ~Creates(tables, d, s, t)
  <2>1. ~GrantsConsent(tables, d, t)
    BY <1>5, <1>10
  <2>2. PICK grants : grants = GrantsConsent(tables, Dev(f), Time(f))
    OBVIOUS
  <2>3. grants = FALSE
    BY <1>2, <2>1, <2>2 DEF GrantsConsent
  <2>4. /\ flow' = [flow EXCEPT ![f].pc = "existing", ![f].consentGranted = grants]
        /\ silentGrants' = silentGrants + One(grants)
    BY <1>2, <1>10, <2>2 DEF SaveConsented
  <2>5. PICK pc \in Places : pc = "existing"
    BY DEF Places, OnDatabase
  <2>6. PICK q : q = [p EXCEPT !.pc = pc]
    OBVIOUS
  <2>7. /\ q \in Requests /\ q.pc = pc /\ q.time = p.time /\ q.kind = p.kind /\ q.id = p.id
        /\ q.content = p.content
    BY <2>5, <2>6, GotoType
  <2>8. PICK r : r = [q EXCEPT !.consentGranted = grants]
    OBVIOUS
  <2>9. /\ r \in Requests /\ r.pc = q.pc /\ r.time = q.time /\ r.kind = q.kind /\ r.id = q.id
        /\ r.content = q.content /\ r.consentGranted = grants
    BY <2>3, <2>7, <2>8 DEF Requests
  <2>10. flow' = [flow EXCEPT ![f] = r]
    <3>1. r = [p EXCEPT !.pc = pc, !.consentGranted = grants]
      BY <2>6, <2>8
    <3>2. QED
      BY <1>7, <2>4, <2>5, <3>1, Flowing
  <2>11. /\ r.pc = "existing" /\ r.kind = "save" /\ r.id = s /\ r.content = content /\ r.time = t
         /\ r.consentGranted = FALSE
    BY <1>2, <1>7, <1>8, <2>3, <2>5, <2>7, <2>9, Flowing
  <2>12. Asks(r, now, schema)
    BY <1>3, <2>11 DEF Asks
  <2>13. SavedOnly(flow[f], r, tables')
    BY <2>11 DEF SavedOnly
  <2>14. silentGrants' \in Nat /\ (faults' = 0 => silentGrants' = 0)
    BY <1>1, <2>3, <2>4, Flowing DEF One
  <2>15. QED
    BY <1>1, <1>5, <1>6, <2>9, <2>10, <2>12, <2>13, <2>14, FlowStep
<1>11. QED
  BY <1>9, <1>10

LEMMA TouchKeeps ==
  ASSUME CloudInv, NEW f \in Flows, TouchIdentity(f)
  PROVE  CloudInv' /\ Promises
<1>1. /\ flow[f].pc = "touch" /\ flow[f].pc \in OnDatabase
      /\ UNCHANGED <<now, schema, enabled, cron, heartbeat, faults, asked, silentGrants, lastRun>>
  BY DEF TouchIdentity, At, OnDatabase
<1>2. PICK d \in Devices, t \in Nat : d = Dev(f) /\ t = Time(f)
  BY Flowing
<1>3. Sound(tables, now) /\ t <= now /\ now <= t + RequestTime /\ now \in Nat /\ schema \in Supported
  BY <1>1, <1>2, Serving, Flowing
<1>4. tables' = Touch(tables, d, t)
  BY <1>2 DEF TouchIdentity
<1>5. Sound(tables', now) /\ Evolves(tables, tables', now) /\ Spares(tables, tables', now)
  BY <1>2, <1>3, <1>4, TouchIsSound
<1>6. /\ StoreInv(tables', now) /\ Profiled(tables') /\ ClearedOnly(flow[f], tables, tables', now)
      /\ enabled' \in [Devices -> BOOLEAN] /\ faults' \in Nat /\ asked' \in Nat
      /\ silentGrants' \in Nat /\ (faults' = 0 => silentGrants' = 0)
  BY <1>1, <1>5, Flowing DEF Sound, ClearedOnly, Spares
<1>7. flow[f].kind \in {"list", "clear"} /\ (flow[f].kind = "list" => flow[f].limit # 0)
  BY <1>1, Flowing DEF Asks
<1>8. PICK pc \in Places : pc = flow[f].kind
  BY <1>7 DEF Places, OnDatabase
<1>9. PICK r : r = [flow[f] EXCEPT !.pc = pc]
  OBVIOUS
<1>10. /\ r \in Requests /\ r.pc = pc /\ r.time = flow[f].time /\ r.kind = flow[f].kind
       /\ r.limit = flow[f].limit
  BY <1>9, Flowing, GotoType
<1>11. Asks(r, now, schema)
  BY <1>1, <1>7, <1>8, <1>10, Flowing, Serving DEF Asks, OnDatabase
<1>12. flow' = [flow EXCEPT ![f] = r]
  BY <1>8, <1>9, Flowing DEF TouchIdentity, Goto
<1>13. SavedOnly(flow[f], r, tables')
  BY <1>7 DEF SavedOnly
<1>14. QED
  BY <1>1, <1>5, <1>6, <1>10, <1>11, <1>12, <1>13, FlowStep

LEMMA ClearKeeps ==
  ASSUME CloudInv, NEW f \in Flows, ClearSummaries(f)
  PROVE  CloudInv' /\ Promises
<1>1. /\ flow[f].pc = "clear" /\ flow[f].pc \in OnDatabase /\ Answered(f, <<>>, 0)
      /\ UNCHANGED <<now, schema, enabled, cron, heartbeat, faults, asked, silentGrants, lastRun>>
  BY DEF ClearSummaries, At, OnDatabase
<1>2. Sound(tables, now) /\ Dev(f) \in Devices /\ now \in Nat /\ schema \in Supported
  BY <1>1, Serving, Flowing
<1>3. tables' = ClearBatch(tables, Dev(f))
  BY DEF ClearSummaries
<1>4. /\ Sound(tables', now) /\ Evolves(tables, tables', now)
      /\ \A e \in Devices \ {Dev(f)} : Stored(tables', e) = Stored(tables, e)
  BY <1>2, <1>3, ClearIsSound
<1>5. ClearedOnly(flow[f], tables, tables', now)
  BY <1>1, <1>4 DEF ClearedOnly, Dev
<1>6. /\ StoreInv(tables', now) /\ Profiled(tables')
      /\ enabled' \in [Devices -> BOOLEAN] /\ faults' \in Nat /\ asked' \in Nat
      /\ silentGrants' \in Nat /\ (faults' = 0 => silentGrants' = 0)
  BY <1>1, <1>4, Flowing DEF Sound
<1>7. flow[f].kind = "clear"
  BY <1>1, Flowing DEF Asks
<1>8. PICK p \in Requests : p = flow[f]
  BY Flowing
<1>9. PICK page \in Seq(Nat), next \in Nat, pc \in Places : page = <<>> /\ next = 0 /\ pc = "answered"
  <2>1. <<>> \in Seq(Nat) /\ 0 \in Nat
    OBVIOUS
  <2>2. QED
    BY <2>1 DEF Places
<1>10. PICK r : r = [p EXCEPT !.pc = pc, !.page = page, !.next = next]
  OBVIOUS
<1>11. r \in Requests /\ r.pc = pc /\ pc = "answered" /\ r.kind = p.kind
  BY <1>9, <1>10 DEF Requests
<1>12. flow' = [flow EXCEPT ![f] = r]
  BY <1>1, <1>8, <1>9, <1>10, Flowing DEF Answered
<1>13. Asks(r, now, schema)
  BY <1>2, <1>7, <1>8, <1>11, DoneAsks
<1>14. SavedOnly(flow[f], r, tables')
  BY <1>7 DEF SavedOnly
<1>15. QED
  BY <1>1, <1>4, <1>5, <1>6, <1>11, <1>12, <1>13, <1>14, FlowStep

LEMMA D1FailsKeeps ==
  ASSUME CloudInv, NEW f \in Flows, NEW committed \in BOOLEAN, D1Fails(f, committed)
  PROVE  CloudInv' /\ Promises
<1>1. /\ flow[f].pc \in OnDatabase /\ faults' = faults + 1
      /\ UNCHANGED <<now, schema, enabled, cron, heartbeat, asked, lastRun>>
  BY DEF D1Fails
<1>2. PICK d \in Devices, t \in Nat : d = Dev(f) /\ t = Time(f)
  BY Flowing
<1>3. Sound(tables, now) /\ t <= now /\ now <= t + RequestTime /\ now \in Nat /\ tables \in Tables
  BY <1>1, <1>2, Serving, Flowing
<1>4. /\ Sound(tables', now) /\ Evolves(tables, tables', now)
      /\ ClearedOnly(flow[f], tables, tables', now)
  <2>1. CASE tables' = tables
    <3>1. Evolves(tables, tables', now) /\ Spares(tables, tables', now)
      BY <1>3, <2>1, StandStill
    <3>2. QED
      BY <1>3, <2>1, <3>1 DEF ClearedOnly, Spares
  <2>2. CASE At(f, "batch") /\ tables' = SaveBatch(tables, Dev(f), flow[f].id, flow[f].content, Time(f))
    <3>1. flow[f].id \in Sessions /\ flow[f].content \in Contents
      BY <2>2, Flowing DEF At, Asks
    <3>2. PICK s \in Sessions, content \in Contents : s = flow[f].id /\ content = flow[f].content
      BY <3>1
    <3>3. tables' = SaveBatch(tables, d, s, content, t)
      BY <1>2, <2>2, <3>2
    <3>4. Sound(tables', now) /\ Evolves(tables, tables', now) /\ Spares(tables, tables', now)
      BY <1>2, <1>3, <3>2, <3>3, SaveIsSound
    <3>5. QED
      BY <3>4 DEF ClearedOnly, Spares
  <2>3. CASE At(f, "touch") /\ tables' = Touch(tables, Dev(f), Time(f))
    <3>1. tables' = Touch(tables, d, t)
      BY <1>2, <2>3
    <3>2. Sound(tables', now) /\ Evolves(tables, tables', now) /\ Spares(tables, tables', now)
      BY <1>2, <1>3, <3>1, TouchIsSound
    <3>3. QED
      BY <3>2 DEF ClearedOnly, Spares
  <2>4. CASE At(f, "clear") /\ tables' = ClearBatch(tables, Dev(f))
    <3>1. /\ Sound(tables', now) /\ Evolves(tables, tables', now)
          /\ \A e \in Devices \ {Dev(f)} : Stored(tables', e) = Stored(tables, e)
      BY <1>2, <1>3, <2>4, ClearIsSound
    <3>2. QED
      BY <2>4, <3>1 DEF ClearedOnly, Dev, At
  <2>5. QED
    BY <2>1, <2>2, <2>3, <2>4 DEF D1Fails, CommittedBy
<1>5. PICK more \in Nat : silentGrants' = silentGrants + more
  BY DEF D1Fails, One
<1>6. /\ StoreInv(tables', now) /\ Profiled(tables') /\ enabled' \in [Devices -> BOOLEAN]
      /\ faults' \in Nat /\ asked' \in Nat /\ silentGrants' \in Nat /\ (faults' = 0 => silentGrants' = 0)
  BY <1>1, <1>4, <1>5, Flowing DEF Sound
<1>7. PICK q \in Requests : q = Rest
  BY RestsType
<1>8. Asks(q, now, schema) /\ SavedOnly(flow[f], q, tables')
  BY <1>7, RestsType, DoneAsks DEF SavedOnly
<1>9. flow' = [flow EXCEPT ![f] = q]
  BY <1>7 DEF D1Fails, Refused
<1>10. QED
  BY <1>1, <1>4, <1>6, <1>7, <1>8, <1>9, FlowStep

-----------------------------------------------------------------------------
(* The steps of a cleanup                                                  *)

LEMMA Sweeping ==
  ASSUME CloudInv, NEW c \in Crons
  PROVE  /\ cron \in [Crons -> Invocations] /\ cron[c] \in Invocations
         /\ Cleans(cron[c], tables, now, schema) /\ Beats(heartbeat, tables, now, schema)
         /\ now \in Nat /\ now \in 0 .. MaxTime /\ StoreInv(tables, now) /\ tables \in Tables
         /\ schema \in Nat /\ schema \in 3 .. 6 /\ (schema >= 4 => Profiled(tables))
         /\ faults \in Nat /\ lastRun \in [Crons -> Nat]
         /\ heartbeat \in [at : 0 .. MaxTime, backlog : BOOLEAN, swept : BOOLEAN]
         /\ (tables.milestone["receipt"] # NoRow => schema = 6)
         /\ Evolves(tables, tables, now) /\ Spares(tables, tables, now)
<1>1. now \in Nat /\ now \in 0 .. MaxTime /\ tables \in Tables
  BY CloudAssumption DEF CloudInv, TypeOK, StoreInv
<1>2. Evolves(tables, tables, now) /\ Spares(tables, tables, now)
  BY <1>1, StandStill
<1>3. QED
  BY <1>1, <1>2 DEF CloudInv, TypeOK, StoreInv

LEMMA CronRestsType ==
  CronRest \in Invocations /\ \A T, t, v : Cleans(CronRest, T, t, v)
<1>1. PICK zero \in Nat : zero = 0
  OBVIOUS
<1>2. CronRest = [pc |-> "rest", at |-> zero, read |-> zero, batches |-> zero, hasMore |-> FALSE]
  BY <1>1 DEF CronRest
<1>3. CronRest \in Invocations /\ CronRest.pc = "rest"
  BY <1>2 DEF Invocations
<1>4. QED
  BY <1>3 DEF Cleans

\* Steps of an invocation that leave tables and heartbeat alone.
LEMMA LookStep ==
  ASSUME CloudInv, NEW c \in Crons, NEW k \in Invocations, cron' = [cron EXCEPT ![c] = k],
         Cleans(k, tables, now, schema), faults' \in Nat, faults' >= faults,
         lastRun' \in [Crons -> Nat],
         UNCHANGED <<now, schema, tables, flow, enabled, heartbeat, asked, silentGrants>>
  PROVE  CloudInv' /\ Promises
<1>1. /\ tables' = tables /\ heartbeat' = heartbeat
      /\ UNCHANGED <<now, schema, flow, enabled, asked, silentGrants>>
  OBVIOUS
<1>2. /\ StoreInv(tables', now) /\ (schema >= 4 => Profiled(tables'))
      /\ Evolves(tables, tables', now) /\ Spares(tables, tables', now)
      /\ heartbeat' \in [at : 0 .. MaxTime, backlog : BOOLEAN, swept : BOOLEAN]
      /\ Beats(heartbeat', tables', now, schema) /\ Cleans(k, tables', now, schema)
  BY <1>1, Sweeping
<1>3. QED
  BY <1>1, <1>2, CronStep

LEMMA Remainder ==
  ASSUME NEW n \in Nat, NEW m \in Nat \ {0}
  PROVE  \E k, r \in Nat : r = n % m /\ n = m * k + r
<1>1. n \div m \in Nat
  OBVIOUS
<1>2. n % m \in 0 .. m - 1
  OBVIOUS
<1>3. PICK k \in Nat, r \in Nat : k = n \div m /\ r = n % m
  BY <1>1, <1>2
<1>4. n = m * k + r
  BY <1>3
<1>5. QED
  BY <1>3, <1>4

LEMMA TriggerKeeps ==
  ASSUME CloudInv, NEW c \in Crons, Trigger(c)
  PROVE  CloudInv' /\ Promises
<1>1. /\ now % Day = CronTick /\ lastRun' = [lastRun EXCEPT ![c] = now]
      /\ cron' = [cron EXCEPT ![c].pc = "marker", ![c].at = now]
      /\ UNCHANGED <<now, schema, tables, enabled, flow, heartbeat, faults, asked, silentGrants>>
  BY DEF Trigger
<1>2. Scheduled(now)
  <2>1. PICK n \in Nat, m \in Nat \ {0} : n = now /\ m = Day
    BY Sweeping, Quantities
  <2>2. PICK k, r \in Nat : r = n % m /\ n = m * k + r
    BY Remainder
  <2>3. r = CronTick
    BY <1>1, <2>1, <2>2
  <2>4. QED
    BY <2>1, <2>2, <2>3, Zenon DEF Scheduled
<1>3. PICK p, at, pc : p = cron[c] /\ at = now /\ pc = "marker"
  BY Sweeping
<1>4. PICK k : k = [p EXCEPT !.pc = pc, !.at = at]
  OBVIOUS
<1>5. k \in Invocations /\ k.pc = pc /\ k.at = at
  <2>1. p \in Invocations /\ at \in Nat /\ pc = "marker"
    BY <1>3, Sweeping
  <2>2. QED
    BY <1>4, <2>1 DEF Invocations
<1>6. cron' = [cron EXCEPT ![c] = k]
  BY <1>1, <1>3, <1>4, Sweeping
<1>7. Cleans(k, tables, now, schema)
  BY <1>2, <1>3, <1>5 DEF Cleans
<1>8. faults' \in Nat /\ faults' >= faults /\ lastRun' \in [Crons -> Nat]
  BY <1>1, Sweeping
<1>9. QED
  BY <1>1, <1>5, <1>6, <1>7, <1>8, LookStep

LEMMA ReadMarkerKeeps ==
  ASSUME CloudInv, NEW c \in Crons, ReadMarker(c)
  PROVE  CloudInv' /\ Promises
<1>1. /\ cron[c].pc = "marker" /\ cron[c].pc # "rest"
      /\ UNCHANGED <<now, schema, tables, enabled, flow, heartbeat, faults, asked, silentGrants, lastRun>>
  BY DEF ReadMarker
<1>2. faults' \in Nat /\ faults' >= faults /\ lastRun' \in [Crons -> Nat]
  BY <1>1, Sweeping
<1>3. CASE schema \in Supported
  <2>1. PICK p, v, pc : p = cron[c] /\ v = schema /\ pc = "clean"
    OBVIOUS
  <2>2. PICK k : k = [p EXCEPT !.pc = pc, !.read = v]
    OBVIOUS
  <2>3. k \in Invocations /\ k.pc = pc /\ k.at = p.at /\ k.read = v
    <3>1. p \in Invocations /\ v \in Nat /\ pc = "clean"
      BY <2>1, Sweeping
    <3>2. QED
      BY <2>2, <3>1 DEF Invocations
  <2>4. cron' = [cron EXCEPT ![c] = k]
    BY <1>3, <2>1, <2>2, Sweeping DEF ReadMarker
  <2>5. Cleans(k, tables, now, schema)
    BY <1>1, <1>3, <2>1, <2>3, Sweeping DEF Cleans
  <2>6. QED
    BY <1>1, <1>2, <2>3, <2>4, <2>5, LookStep
<1>4. CASE schema \notin Supported
  <2>1. PICK k \in Invocations : k = CronRest
    BY CronRestsType
  <2>2. cron' = [cron EXCEPT ![c] = k]
    BY <1>4, <2>1 DEF ReadMarker
  <2>3. Cleans(k, tables, now, schema)
    BY <2>1, CronRestsType
  <2>4. QED
    BY <1>1, <1>2, <2>2, <2>3, LookStep
<1>5. QED
  BY <1>3, <1>4

LEMMA CronFailsKeeps ==
  ASSUME CloudInv, NEW c \in Crons, CronFails(c)
  PROVE  CloudInv' /\ Promises
<1>1. /\ faults' = faults + 1
      /\ UNCHANGED <<now, schema, tables, enabled, flow, heartbeat, asked, silentGrants, lastRun>>
  BY DEF CronFails
<1>2. faults' \in Nat /\ faults' >= faults /\ lastRun' \in [Crons -> Nat]
  BY <1>1, Sweeping
<1>3. PICK k \in Invocations : k = CronRest
  BY CronRestsType
<1>4. cron' = [cron EXCEPT ![c] = k]
  BY <1>3 DEF CronFails
<1>5. Cleans(k, tables, now, schema)
  BY <1>3, CronRestsType
<1>6. QED
  BY <1>1, <1>2, <1>4, <1>5, LookStep

\* What a last look does not find is not there.
LEMMA NothingExpired ==
  ASSUME NEW T \in Tables, NEW n \in Nat, NEW seen \in Nat, T.milestone["receipt"] # NoRow => seen = 6,
         ExpiredRows(T, n) = {}, ExpiredConsents(T, n) = {}, ExpiredDevices(T, n) = {},
         ExpiredProfiles(T, n) = {}, ExpiredMilestones(T, n, seen) = {}
  PROVE  Swept(T, n)
<1>1. ASSUME NEW d \in Devices, Expired(T, d, n) PROVE FALSE
  <2>1. Stored(T, d) = {}
    <3>1. SUFFICES ASSUME NEW s \in Stored(T, d) PROVE FALSE
      OBVIOUS
    <3>2. s \in Sessions
      BY DEF Stored
    <3>3. <<d, s>> \in ExpiredRows(T, n)
      BY <1>1, <3>2 DEF ExpiredRows
    <3>4. QED
      BY <3>3
  <2>2. T.consent[d] = "none"
    BY <1>1 DEF ExpiredConsents
  <2>3. d \in ExpiredDevices(T, n)
    BY <1>1, <2>1, <2>2 DEF ExpiredDevices
  <2>4. QED
    BY <2>3
<1>2. ASSUME NEW p \in T.profiles, ~p.member PROVE p.expires > n
  <2>1. p.expires \in Nat /\ ~(p.expires <= n)
    BY <1>2 DEF ExpiredProfiles, Tables
  <2>2. QED
    BY <2>1
<1>3. ASSUME NEW k \in Milestones PROVE T.milestone[k] \notin 1 .. n
  BY DEF ExpiredMilestones, NoRow
<1>4. QED
  BY <1>1, <1>2, <1>3 DEF Swept

LEMMA CheckBacklogKeeps ==
  ASSUME CloudInv, NEW c \in Crons, CheckBacklog(c)
  PROVE  CloudInv' /\ Promises
<1>1. /\ cron[c].pc = "backlog"
      /\ UNCHANGED <<now, schema, tables, enabled, flow, heartbeat, faults, asked, silentGrants, lastRun>>
  BY DEF CheckBacklog
<1>2. /\ cron[c].at = now /\ Scheduled(now) /\ schema \in Supported
      /\ tables.milestone["receipt"] # NoRow => cron[c].read = 6
  BY <1>1, Sweeping DEF Cleans
<1>3. faults' \in Nat /\ faults' >= faults /\ lastRun' \in [Crons -> Nat]
  BY <1>1, Sweeping
<1>4. PICK more \in BOOLEAN : more = HasExpiredData(tables, cron[c].at, cron[c].read, schema)
  BY DEF HasExpiredData
<1>5. more = FALSE => Swept(tables, now)
  <2>1. SUFFICES ASSUME ~HasExpiredData(tables, cron[c].at, cron[c].read, schema)
                 PROVE  Swept(tables, now)
    BY <1>4
  <2>2. PICK seen \in Nat : seen = IF cron[c].read = 6 THEN schema ELSE 5
    BY Sweeping
  <2>3. tables.milestone["receipt"] # NoRow => seen = 6
    BY <1>2, <2>2, Sweeping
  <2>4. /\ ExpiredRows(tables, now) = {} /\ ExpiredConsents(tables, now) = {}
        /\ ExpiredDevices(tables, now) = {} /\ ExpiredProfiles(tables, now) = {}
        /\ ExpiredMilestones(tables, now, seen) = {}
    BY <1>2, <2>1, <2>2 DEF HasExpiredData
  <2>5. QED
    BY <2>3, <2>4, Sweeping, NothingExpired
<1>6. PICK p, pc : p = cron[c] /\ pc = "heartbeat"
  OBVIOUS
<1>7. PICK k : k = [p EXCEPT !.pc = pc, !.hasMore = more]
  OBVIOUS
<1>8. k \in Invocations /\ k.pc = pc /\ k.at = p.at /\ k.hasMore = more
  <2>1. p \in Invocations /\ pc = "heartbeat"
    BY <1>6, Sweeping
  <2>2. QED
    BY <1>7, <2>1 DEF Invocations
<1>9. cron' = [cron EXCEPT ![c] = k]
  BY <1>4, <1>6, <1>7, Sweeping DEF CheckBacklog
<1>10. Cleans(k, tables, now, schema)
  BY <1>2, <1>5, <1>6, <1>8 DEF Cleans
<1>11. QED
  BY <1>1, <1>3, <1>8, <1>9, <1>10, LookStep

LEMMA RecordHeartbeatKeeps ==
  ASSUME CloudInv, NEW c \in Crons, RecordHeartbeat(c)
  PROVE  CloudInv' /\ Promises
<1>1. /\ cron[c].pc = "heartbeat"
      /\ UNCHANGED <<now, schema, tables, enabled, flow, faults, asked, silentGrants, lastRun>>
  BY DEF RecordHeartbeat
<1>2. /\ cron[c].at = now /\ Scheduled(now) /\ schema \in Supported
      /\ cron[c].hasMore = FALSE => Swept(tables, now)
  BY <1>1, Sweeping DEF Cleans
<1>3. PICK at, more : at = cron[c].at /\ more = cron[c].hasMore
  OBVIOUS
<1>4. at = now /\ at \in 0 .. MaxTime /\ at \in Nat /\ more \in BOOLEAN
  BY <1>2, <1>3, Sweeping DEF Invocations
<1>5. PICK h : h = heartbeat
  OBVIOUS
<1>6. /\ h \in [at : 0 .. MaxTime, backlog : BOOLEAN, swept : BOOLEAN]
      /\ Beats(h, tables, now, schema) /\ h.at \in Nat
  BY <1>5, Sweeping
<1>7. /\ heartbeat' \in [at : 0 .. MaxTime, backlog : BOOLEAN, swept : BOOLEAN]
      /\ Beats(heartbeat', tables, now, schema)
  <2>1. CASE at > h.at
    <3>1. heartbeat' = [at |-> at, backlog |-> more, swept |-> TRUE]
      <4>1. cron[c].at > heartbeat.at
        BY <1>3, <1>5, <2>1
      <4>2. PICK new : new = [at |-> cron[c].at, backlog |-> cron[c].hasMore, swept |-> TRUE]
        OBVIOUS
      <4>3. PICK old : old = [heartbeat EXCEPT !.backlog = @ /\ cron[c].hasMore]
        OBVIOUS
      <4>4. heartbeat' = CASE cron[c].at > heartbeat.at -> new
                           [] cron[c].at = heartbeat.at -> old
                           [] OTHER -> heartbeat
        BY <4>2, <4>3, Zenon DEF RecordHeartbeat
      <4>5. heartbeat.at \in Nat /\ cron[c].at \in Nat
        BY <1>3, <1>4, <1>5, <1>6
      <4>6. heartbeat' = new
        BY <4>1, <4>4, <4>5
      <4>7. QED
        BY <1>3, <4>2, <4>6
    <3>2. heartbeat'.at = at /\ heartbeat'.backlog = more
      BY <3>1
    <3>3. QED
      BY <1>2, <1>3, <1>4, <3>1, <3>2 DEF Beats
  <2>2. CASE at = h.at
    <3>1. PICK both \in BOOLEAN : both = (h.backlog /\ more)
      BY <1>4, <1>6
    <3>2. heartbeat' = [h EXCEPT !.backlog = both]
      <4>1. ~(at > h.at)
        BY <1>4, <2>2
      <4>2. QED
        BY <1>3, <1>5, <2>2, <3>1, <4>1 DEF RecordHeartbeat
    <3>3. heartbeat'.at = h.at /\ heartbeat'.swept = h.swept /\ heartbeat'.backlog = both
      BY <1>6, <3>2
    <3>4. heartbeat' \in [at : 0 .. MaxTime, backlog : BOOLEAN, swept : BOOLEAN]
      BY <1>6, <3>2
    <3>5. both = FALSE => h.backlog = FALSE \/ more = FALSE
      BY <1>4, <1>6, <3>1
    <3>6. both = FALSE /\ h.swept = TRUE => Swept(tables, h.at)
      BY <1>2, <1>3, <1>4, <1>6, <2>2, <3>5 DEF Beats
    <3>7. Beats(heartbeat', tables, now, schema)
      BY <1>6, <3>3, <3>6 DEF Beats
    <3>8. QED
      BY <3>4, <3>7
  <2>3. CASE ~(at > h.at) /\ at # h.at
    <3>1. heartbeat' = h
      BY <1>3, <1>5, <2>3 DEF RecordHeartbeat
    <3>2. QED
      BY <1>6, <3>1
  <2>4. QED
    BY <2>1, <2>2, <2>3
<1>8. PICK k \in Invocations : k = CronRest
  BY CronRestsType
<1>9. cron' = [cron EXCEPT ![c] = k]
  BY <1>8 DEF RecordHeartbeat
<1>10. tables' = tables /\ StoreInv(tables', now) /\ (schema >= 4 => Profiled(tables'))
       /\ Evolves(tables, tables', now) /\ Spares(tables, tables', now)
       /\ Cleans(k, tables', now, schema) /\ Beats(heartbeat', tables', now, schema)
  BY <1>1, <1>7, <1>8, CronRestsType, Sweeping
<1>11. faults' \in Nat /\ faults' >= faults /\ lastRun' \in [Crons -> Nat]
  BY <1>1, Sweeping
<1>12. QED
  BY <1>1, <1>7, <1>9, <1>10, <1>11, CronStep

\* What a batch at a time does.
Sweep(c, at, kinds) ==
  \E rows \in Limited(ExpiredRows(tables, at)), consents \in Limited(ExpiredConsents(tables, at)) :
  \E devices \in Limited(ExpiredDevices(WithoutRows(tables, rows, consents), at)) :
  \E profiles \in Limited(ExpiredProfiles(
       DropDevices(WithoutRows(tables, rows, consents), devices), at)) :
    /\ tables' = WithoutProfiles(
         DropDevices(WithoutRows(tables, rows, consents), devices), profiles, kinds)
    /\ AfterBatch(c, \/ FullBatch(Cardinality(rows)) \/ FullBatch(Cardinality(consents))
                     \/ FullBatch(Cardinality(devices)) \/ FullBatch(Cardinality(profiles))
                     \/ FullBatch(IF kinds = {} THEN 0 ELSE 1))

LEMMA CleanBatchKeeps ==
  ASSUME CloudInv, NEW c \in Crons, CleanBatch(c)
  PROVE  CloudInv' /\ Promises
<1>1. /\ cron[c].pc = "clean"
      /\ UNCHANGED <<now, schema, enabled, flow, heartbeat, faults, asked, silentGrants, lastRun>>
  BY DEF CleanBatch
<1>2. /\ cron[c].at = now /\ Scheduled(now) /\ schema \in Supported
      /\ tables.milestone["receipt"] # NoRow => cron[c].read = 6
  BY <1>1, Sweeping DEF Cleans
<1>3. PICK seen \in Nat : seen = IF cron[c].read = 6 THEN schema ELSE 5
  BY Sweeping
<1>4. tables.milestone["receipt"] # NoRow => seen = 6
  BY <1>2, <1>3, Sweeping
<1>5. Sound(tables, now) /\ now \in Nat
  BY <1>2, Sweeping DEF Sound, Supported
<1>6. PICK kinds : kinds = ExpiredMilestones(tables, now, seen)
  OBVIOUS
<1>7. PICK rows \in Limited(ExpiredRows(tables, now)),
           consents \in Limited(ExpiredConsents(tables, now)) :
        \E devices \in Limited(ExpiredDevices(WithoutRows(tables, rows, consents), now)) :
        \E profiles \in Limited(ExpiredProfiles(
             DropDevices(WithoutRows(tables, rows, consents), devices), now)) :
          /\ tables' = WithoutProfiles(
               DropDevices(WithoutRows(tables, rows, consents), devices), profiles, kinds)
          /\ AfterBatch(c, \/ FullBatch(Cardinality(rows)) \/ FullBatch(Cardinality(consents))
                           \/ FullBatch(Cardinality(devices)) \/ FullBatch(Cardinality(profiles))
                           \/ FullBatch(IF kinds = {} THEN 0 ELSE 1))
  <2>1. Sweep(c, cron[c].at,
              ExpiredMilestones(tables, cron[c].at, IF cron[c].read = 6 THEN schema ELSE 5))
    BY Zenon DEF CleanBatch, Sweep
  <2>2. Sweep(c, now, kinds)
    BY <1>2, <1>3, <1>6, <2>1
  <2>3. QED
    BY <2>2, Zenon DEF Sweep
<1>8. PICK bare : bare = WithoutRows(tables, rows, consents)
  OBVIOUS
<1>9. PICK devices \in Limited(ExpiredDevices(bare, now)) :
        \E profiles \in Limited(ExpiredProfiles(DropDevices(bare, devices), now)) :
          /\ tables' = WithoutProfiles(DropDevices(bare, devices), profiles, kinds)
          /\ AfterBatch(c, \/ FullBatch(Cardinality(rows)) \/ FullBatch(Cardinality(consents))
                           \/ FullBatch(Cardinality(devices)) \/ FullBatch(Cardinality(profiles))
                           \/ FullBatch(IF kinds = {} THEN 0 ELSE 1))
  BY <1>7, <1>8
<1>10. PICK orphaned : orphaned = DropDevices(bare, devices)
  OBVIOUS
<1>11. PICK profiles \in Limited(ExpiredProfiles(orphaned, now)) :
          /\ tables' = WithoutProfiles(orphaned, profiles, kinds)
          /\ AfterBatch(c, \/ FullBatch(Cardinality(rows)) \/ FullBatch(Cardinality(consents))
                           \/ FullBatch(Cardinality(devices)) \/ FullBatch(Cardinality(profiles))
                           \/ FullBatch(IF kinds = {} THEN 0 ELSE 1))
  BY <1>9, <1>10
<1>12. PICK some \in BOOLEAN :
          some = (\/ FullBatch(Cardinality(rows)) \/ FullBatch(Cardinality(consents))
                  \/ FullBatch(Cardinality(devices)) \/ FullBatch(Cardinality(profiles)))
  BY Zenon
<1>13. PICK more \in BOOLEAN :
          more = (\/ FullBatch(Cardinality(rows)) \/ FullBatch(Cardinality(consents))
                  \/ FullBatch(Cardinality(devices)) \/ FullBatch(Cardinality(profiles))
                  \/ FullBatch(IF kinds = {} THEN 0 ELSE 1))
  BY Zenon
<1>14. AfterBatch(c, more) /\ (more = FALSE => some = FALSE)
  <2>1. AfterBatch(c, more)
    BY <1>11, <1>13, Zenon
  <2>2. more = FALSE => some = FALSE
    BY <1>12, <1>13, Zenon
  <2>3. QED
    BY <2>1, <2>2
<1>15. PICK U : U = tables'
  OBVIOUS
<1>16. /\ Sound(U, now) /\ Evolves(tables, U, now) /\ Spares(tables, U, now)
       /\ (some = FALSE => Swept(U, now))
  <2>1. U = WithoutProfiles(orphaned, profiles, kinds)
    BY <1>11, <1>15
  <2>2. Sound(U, now) /\ Evolves(tables, U, now) /\ Spares(tables, U, now)
        /\ (~(\/ FullBatch(Cardinality(rows)) \/ FullBatch(Cardinality(consents))
              \/ FullBatch(Cardinality(devices)) \/ FullBatch(Cardinality(profiles)))
            => Swept(U, now))
    BY <1>2, <1>4, <1>5, <1>6, <1>7, <1>8, <1>9, <1>10, <1>11, <2>1, BatchIsSound
  <2>3. QED
    BY <1>12, <2>2
<1>17. PICK p, pc, n : /\ p = cron[c] /\ n = p.batches + 1
                       /\ pc = CASE ~more -> "heartbeat"
                                 [] more /\ cron[c].batches + 1 = MaxBatches -> "backlog"
                                 [] OTHER -> "marker"
  OBVIOUS
<1>18. PICK k : k = [p EXCEPT !.batches = n, !.hasMore = more, !.pc = pc]
  OBVIOUS
<1>19. /\ p \in Invocations /\ n \in Nat /\ pc \in {"marker", "backlog", "heartbeat"}
       /\ pc = "heartbeat" <=> more = FALSE
  <2>1. p \in Invocations
    BY <1>17, Sweeping
  <2>2. n \in Nat
    BY <1>17, <2>1 DEF Invocations
  <2>3. more = TRUE \/ more = FALSE
    BY <1>13
  <2>4. CASE more = FALSE
    <3>1. ~more
      BY <2>4, Zenon
    <3>2. pc = "heartbeat"
      BY <1>17, <3>1
    <3>3. QED
      BY <2>1, <2>2, <2>4, <3>2
  <2>5. CASE more = TRUE /\ cron[c].batches + 1 = MaxBatches
    BY <1>17, <2>1, <2>2, <2>5
  <2>6. CASE more = TRUE /\ cron[c].batches + 1 # MaxBatches
    BY <1>17, <2>1, <2>2, <2>6
  <2>7. QED
    BY <2>3, <2>4, <2>5, <2>6
<1>20. k \in Invocations /\ k.pc = pc /\ k.at = p.at /\ k.hasMore = more /\ k.read = p.read
  BY <1>13, <1>18, <1>19 DEF Invocations
<1>21. cron' = [cron EXCEPT ![c] = k]
  <2>1. cron' = [cron EXCEPT ![c].batches = @ + 1, ![c].hasMore = more, ![c].pc = pc]
    BY <1>14, <1>17, Zenon DEF AfterBatch
  <2>2. cron' = [cron EXCEPT ![c] = [cron[c] EXCEPT !.batches = @ + 1, !.hasMore = more, !.pc = pc]]
    BY <2>1, Sweeping
  <2>3. QED
    BY <1>17, <1>18, <2>2, Zenon
<1>22. Cleans(k, U, now, schema)
  <2>1. U.milestone["receipt"] # NoRow => tables.milestone["receipt"] # NoRow
    BY <1>16 DEF Evolves, Milestones, NoRow
  <2>2. QED
    BY <1>2, <1>14, <1>16, <1>17, <1>19, <1>20, <2>1 DEF Cleans
<1>23. Beats(heartbeat', U, now, schema)
  BY <1>1, <1>16, Sweeping, BeatsOn
<1>24. /\ StoreInv(tables', now) /\ (schema >= 4 => Profiled(tables'))
       /\ Evolves(tables, tables', now) /\ Spares(tables, tables', now)
       /\ Cleans(k, tables', now, schema) /\ Beats(heartbeat', tables', now, schema)
  BY <1>15, <1>16, <1>22, <1>23 DEF Sound
<1>25. /\ faults' \in Nat /\ faults' >= faults /\ lastRun' \in [Crons -> Nat]
       /\ heartbeat' \in [at : 0 .. MaxTime, backlog : BOOLEAN, swept : BOOLEAN]
  BY <1>1, Sweeping
<1>26. UNCHANGED <<now, schema, flow, enabled, asked, silentGrants>>
  BY <1>1
<1>27. QED
  BY <1>20, <1>21, <1>24, <1>25, <1>26, CronStep

-----------------------------------------------------------------------------
(* Migrations, the clock and the start                                     *)

LEMMA BackfillEvolves ==
  ASSUME NEW T, NEW n \in Nat, StoreInv(T, n), NEW U, U = Backfilled(T)
  PROVE  Evolves(T, U, n)
<1>1. T \in Tables /\ U.expires = T.expires /\ U.rows = T.rows /\ U.milestone = T.milestone
  BY BackfillIsSound DEF StoreInv
<1>2. ASSUME NEW p \in U.profiles PROVE p.member
  <2>1. PICK profiles : profiles = {[device |-> d, expires |-> T.expires[d], member |-> TRUE]
                                      : d \in {e \in Devices : T.expires[e] # NoRow}}
    OBVIOUS
  <2>2. U = [T EXCEPT !.profiles = profiles]
    BY <2>1 DEF Backfilled
  <2>3. U.profiles = profiles
    BY <1>1, <2>2 DEF Tables
  <2>4. QED
    BY <2>1, <2>3
<1>3. ASSUME NEW at \in Nat, Swept(T, at) PROVE Swept(U, at)
  BY <1>1, <1>2, <1>3 DEF Swept, Expired
<1>4. ASSUME NEW d \in Devices PROVE T.expires[d] \in Nat /\ ~(U.expires[d] < T.expires[d])
  BY <1>1, TableTypes
<1>5. QED
  BY <1>1, <1>3, <1>4 DEF Evolves

LEMMA MigrateKeeps ==
  ASSUME CloudInv, Migrate
  PROVE  CloudInv' /\ Promises
<1>1. /\ schema \in 3 .. 5
      /\ UNCHANGED <<now, enabled, flow, cron, faults, asked, silentGrants, lastRun>>
  BY DEF Migrate, Unmigrated
<1>2. /\ now \in Nat /\ now \in 1 .. MaxTime /\ StoreInv(tables, now) /\ tables \in Tables
      /\ heartbeat \in [at : 0 .. MaxTime, backlog : BOOLEAN, swept : BOOLEAN]
      /\ (schema >= 4 => Profiled(tables)) /\ tables.milestone["receipt"] = NoRow
      /\ Beats(heartbeat, tables, now, schema)
  BY <1>1, CloudAssumption DEF CloudInv, TypeOK, StoreInv
<1>3. PICK v \in 4 .. 6 : v = schema + 1
  BY <1>1
<1>4. schema' = v
  BY <1>3 DEF Migrate
<1>5. PICK U : U = tables'
  OBVIOUS
<1>6. /\ StoreInv(U, now) /\ Profiled(U) /\ Evolves(tables, U, now)
      /\ U.rows = tables.rows /\ U.milestone = tables.milestone
  <2>1. CASE schema = 3
    <3>1. U = Backfilled(tables)
      BY <1>5, <2>1 DEF Migrate
    <3>2. QED
      BY <1>2, <3>1, BackfillIsSound, BackfillEvolves DEF Sound
  <2>2. CASE schema # 3
    <3>1. U = tables
      BY <1>5, <2>2 DEF Migrate
    <3>2. QED
      BY <1>1, <1>2, <2>2, <3>1, StandStill
  <2>3. QED
    BY <2>1, <2>2
<1>7. schema = 5 => U = tables
  BY <1>5 DEF Migrate
<1>8. ASSUME NEW f \in Flows PROVE Asks(flow[f], now, v)
  BY <1>1, <1>3 DEF CloudInv, Asks, Supported
<1>9. ASSUME NEW c \in Crons PROVE Cleans(cron[c], U, now, v)
  <2>1. Cleans(cron[c], tables, now, schema)
    BY DEF CloudInv
  <2>2. schema \in Supported => schema = 5 /\ v \in Supported
    BY <1>1, <1>3 DEF Supported
  <2>3. U.milestone["receipt"] = NoRow
    BY <1>2, <1>6
  <2>4. QED
    BY <1>7, <2>1, <2>2, <2>3 DEF Cleans
<1>10. /\ heartbeat' \in [at : 0 .. MaxTime, backlog : BOOLEAN, swept : BOOLEAN]
       /\ Beats(heartbeat', U, now, v)
  <2>1. CASE schema = 4
    <3>1. heartbeat' = [at |-> now, backlog |-> FALSE, swept |-> FALSE]
      BY <2>1 DEF Migrate
    <3>2. now \in 0 .. MaxTime
      BY <1>2
    <3>3. heartbeat'.swept = FALSE
      BY <3>1
    <3>4. QED
      BY <3>1, <3>2, <3>3 DEF Beats
  <2>2. CASE schema # 4
    <3>1. heartbeat' = heartbeat
      BY <2>2 DEF Migrate
    <3>2. heartbeat.swept = TRUE => schema = 5
      BY <1>1, <1>2 DEF Beats, Supported
    <3>3. QED
      BY <1>2, <1>3, <1>7, <3>1, <3>2 DEF Beats, Supported
  <2>3. QED
    BY <2>1, <2>2
<1>11. TypeOK'
  BY <1>1, <1>3, <1>4, <1>5, <1>6, <1>10 DEF CloudInv, TypeOK, StoreInv
<1>12. Promises
  BY <1>1, <1>5, <1>6 DEF Promises, Stored, At
<1>13. (tables'.milestone["receipt"] # NoRow => schema' = 6)
  BY <1>2, <1>5, <1>6
<1>14. silentGrants' \in Nat /\ (faults' = 0 => silentGrants' = 0)
  BY <1>1 DEF CloudInv
<1>15. QED
  BY <1>1, <1>4, <1>5, <1>6, <1>8, <1>9, <1>10, <1>11, <1>12, <1>13, <1>14 DEF CloudInv

LEMMA TickKeeps ==
  ASSUME CloudInv, Tick
  PROVE  CloudInv' /\ Promises
<1>1. /\ now < MaxTime /\ \A c \in Crons : cron[c].pc = "rest"
      /\ \A f \in Flows : flow[f].pc \in OnDatabase => now < flow[f].time + RequestTime
      /\ UNCHANGED <<schema, tables, enabled, flow, cron, heartbeat, faults, asked,
                     silentGrants, lastRun>>
  BY DEF Tick, InService, Time
<1>2. /\ now \in Nat /\ now \in 1 .. MaxTime /\ MaxTime \in Nat /\ StoreInv(tables, now)
      /\ tables \in Tables /\ heartbeat.at \in Nat
  BY CloudAssumption DEF CloudInv, TypeOK, StoreInv
<1>3. PICK t \in Nat : t = now + 1
  BY <1>2
<1>4. now' = t /\ t \in 1 .. MaxTime /\ now < t
  BY <1>1, <1>2, <1>3 DEF Tick
<1>5. StoreInv(tables, t)
  <2>1. ASSUME NEW d \in Devices, tables.expires[d] + CronTick <= now
        PROVE  tables.expires[d] + CronTick <= t
    <3>1. tables.expires[d] \in Nat
      BY <1>2, TableTypes
    <3>2. QED
      BY <1>2, <1>4, <2>1, <3>1, Quantities
  <2>2. QED
    BY <1>2, <2>1 DEF StoreInv, Lawful
<1>6. ASSUME NEW f \in Flows PROVE Asks(flow[f], t, schema)
  <2>1. flow[f].time \in Nat /\ Asks(flow[f], now, schema)
    BY DEF CloudInv, TypeOK, Requests
  <2>2. flow[f].pc \in OnDatabase => flow[f].time <= t /\ t <= flow[f].time + RequestTime
    BY <1>1, <1>2, <1>3, <2>1, Quantities DEF Asks
  <2>3. QED
    BY <2>1, <2>2 DEF Asks
<1>7. ASSUME NEW c \in Crons PROVE Cleans(cron[c], tables, t, schema)
  BY <1>1 DEF Cleans
<1>8. Beats(heartbeat, tables, t, schema)
  BY <1>2, <1>4 DEF CloudInv, Beats
<1>9. TypeOK'
  BY <1>1, <1>4 DEF CloudInv, TypeOK
<1>10. Evolves(tables, tables', now) /\ Promises
  <2>1. Evolves(tables, tables', now)
    BY <1>1, <1>2, StandStill
  <2>2. QED
    BY <1>1, <2>1 DEF Promises, At, Stored
<1>11. QED
  BY <1>1, <1>4, <1>5, <1>6, <1>7, <1>8, <1>9, <1>10 DEF CloudInv

LEMMA OlderIsLawful ==
  ASSUME NEW d \in Devices, NEW content \in Contents, NEW T, T = Older(d, content)
  PROVE  StoreInv(T, 1) /\ T.milestone["receipt"] = NoRow
<1>1. /\ IsFiniteSet(Sessions) /\ OldSummaries \subseteq Sessions
      /\ Cardinality(OldSummaries) <= MaxActive /\ Absent \notin Contents
  BY StoreAssumption, CloudAssumption DEF Absent
<1>2. PICK day \in Nat : day = Day
  BY Quantities
<1>3. PICK rows : rows = [s \in Sessions |-> IF s \in OldSummaries THEN content ELSE Absent]
  OBVIOUS
<1>4. PICK none \in [Sessions -> Contents \cup {Absent}] : none = [s \in Sessions |-> Absent]
  OBVIOUS
<1>5. rows \in [Sessions -> Contents \cup {Absent}]
  BY <1>3
<1>6. PICK zero \in Nat : zero = NoRow
  BY DEF NoRow
<1>7. PICK expires, consent, all, milestone :
        /\ expires = [e \in Devices |-> IF e = d THEN day ELSE zero]
        /\ consent = [e \in Devices |-> IF e = d THEN "granted" ELSE "none"]
        /\ all = [e \in Devices |-> IF e = d THEN rows ELSE none]
        /\ milestone = [k \in Milestones |-> IF k = "fact" THEN day ELSE zero]
  OBVIOUS
<1>8. T = [expires |-> expires, consent |-> consent, rows |-> all, profiles |-> {},
           milestone |-> milestone]
  BY <1>2, <1>3, <1>4, <1>6, <1>7 DEF Older, NoTables, Milestones
<1>9. /\ T.expires = expires /\ T.consent = consent /\ T.rows = all /\ T.milestone = milestone
      /\ T.profiles = {}
  BY <1>8
<1>10. T \in Tables
  <2>1. expires \in [Devices -> Nat] /\ milestone \in [Milestones -> Nat]
    BY <1>2, <1>6, <1>7
  <2>2. consent \in [Devices -> {"none", "granted", "revoked"}]
    BY <1>7
  <2>3. all \in [Devices -> [Sessions -> Contents \cup {Absent}]]
    BY <1>4, <1>5, <1>7
  <2>4. QED
    BY <1>8, <2>1, <2>2, <2>3 DEF Tables
<1>11. Stored(T, d) = OldSummaries /\ \A e \in Devices : e # d => Stored(T, e) = {}
  BY <1>1, <1>3, <1>4, <1>7, <1>9 DEF Stored
<1>12. Bounded(T)
  BY <1>1, <1>11, FS_EmptySet, Quantities DEF Bounded
<1>13. Bare(T)
  <2>1. ASSUME NEW e \in Devices PROVE \E q \in Nat : T.expires[e] = Day * q
    <3>1. Day = Day * 1 /\ 0 = Day * 0
      BY Quantities
    <3>2. T.expires[e] = Day \/ T.expires[e] = 0
      BY <1>2, <1>6, <1>7, <1>9 DEF NoRow
    <3>3. QED
      BY <3>1, <3>2
  <2>2. ASSUME NEW e \in Devices, T.expires[e] = NoRow PROVE T.consent[e] = "none" /\ Stored(T, e) = {}
    BY <1>2, <1>7, <1>9, <1>11, <2>2, Quantities DEF NoRow
  <2>3. QED
    BY <2>1, <2>2 DEF Bare
<1>14. Lawful(T, 1)
  BY <1>7, <1>9, <1>11 DEF Lawful
<1>15. T.milestone["receipt"] = NoRow
  BY <1>6, <1>7, <1>9 DEF Milestones
<1>16. QED
  BY <1>10, <1>12, <1>13, <1>14, <1>15 DEF StoreInv

LEMMA FreshIsSound ==
  ASSUME NEW T, T = Fresh
  PROVE  Sound(T, 1)
<1>1. PICK none \in [Sessions -> Contents \cup {Absent}] : none = [s \in Sessions |-> Absent]
  OBVIOUS
<1>2. PICK zero \in Nat, day \in Nat : zero = NoRow /\ day = Day
  BY Quantities DEF NoRow
<1>3. PICK expires, consent, all, milestone :
        /\ expires = [e \in Devices |-> zero] /\ consent = [e \in Devices |-> "none"]
        /\ all = [e \in Devices |-> none] /\ milestone = [k \in Milestones |-> day]
  OBVIOUS
<1>4. T = [expires |-> expires, consent |-> consent, rows |-> all, profiles |-> {},
           milestone |-> milestone]
  BY <1>1, <1>2, <1>3 DEF Fresh, NoTables
<1>5. /\ T.expires = expires /\ T.consent = consent /\ T.rows = all /\ T.milestone = milestone
      /\ T.profiles = {}
  BY <1>4
<1>6. T \in Tables
  <2>1. /\ expires \in [Devices -> Nat] /\ milestone \in [Milestones -> Nat]
        /\ consent \in [Devices -> {"none", "granted", "revoked"}]
        /\ all \in [Devices -> [Sessions -> Contents \cup {Absent}]]
    BY <1>1, <1>2, <1>3
  <2>2. QED
    BY <1>4, <2>1 DEF Tables
<1>7. \A d \in Devices : Stored(T, d) = {} /\ T.expires[d] = NoRow /\ T.consent[d] = "none"
  BY <1>1, <1>2, <1>3, <1>5, StoreAssumption DEF Stored
<1>8. Bare(T)
  <2>1. NoRow = Day * 0
    BY Quantities DEF NoRow
  <2>2. QED
    BY <1>7, <2>1 DEF Bare
<1>9. Bounded(T) /\ Lawful(T, 1)
  BY <1>7, FS_EmptySet, Quantities DEF Bounded, Lawful
<1>10. Profiled(T)
  BY <1>5, <1>7, FS_EmptySet DEF Profiled, MemberProfiles
<1>11. QED
  BY <1>6, <1>8, <1>9, <1>10 DEF Sound, StoreInv

LEMMA InitCloud == Init => CloudInv
<1>1. SUFFICES ASSUME Init PROVE CloudInv
  OBVIOUS
<1>2. /\ now = 1 /\ faults = 0 /\ asked = 0 /\ silentGrants = 0
      /\ flow = [f \in Flows |-> Rest] /\ cron = [c \in Crons |-> CronRest]
      /\ lastRun = [c \in Crons |-> 0] /\ heartbeat = [at |-> 0, backlog |-> FALSE, swept |-> FALSE]
  BY <1>1 DEF Init
<1>3. /\ StoreInv(tables, now) /\ schema \in 3 .. 6 /\ (schema >= 4 => Profiled(tables))
      /\ (tables.milestone["receipt"] # NoRow => schema = 6) /\ enabled \in [Devices -> BOOLEAN]
  <2>1. ASSUME NEW d \in Devices, NEW content \in Contents, schema = 3,
               tables = Older(d, content), enabled = [e \in Devices |-> e = d]
        PROVE  StoreInv(tables, 1) /\ tables.milestone["receipt"] = NoRow
    BY <2>1, OlderIsLawful
  <2>2. ASSUME schema = 6, tables = Fresh PROVE Sound(tables, 1)
    BY <2>2, FreshIsSound
  <2>3. \/ schema = 6 /\ tables = Fresh /\ enabled = [d \in Devices |-> FALSE]
        \/ schema = 3 /\ \E d \in Devices, content \in Contents :
             tables = Older(d, content) /\ enabled = [e \in Devices |-> e = d]
    BY <1>1 DEF Init
  <2>4. CASE schema = 6 /\ tables = Fresh /\ enabled = [d \in Devices |-> FALSE]
    BY <1>2, <2>2, <2>4 DEF Sound
  <2>5. CASE schema = 3 /\ \E d \in Devices, content \in Contents :
               tables = Older(d, content) /\ enabled = [e \in Devices |-> e = d]
    <3>1. PICK d \in Devices, content \in Contents :
            tables = Older(d, content) /\ enabled = [e \in Devices |-> e = d]
      BY <2>5
    <3>2. StoreInv(tables, 1) /\ tables.milestone["receipt"] = NoRow
      BY <2>1, <2>5, <3>1
    <3>3. enabled \in [Devices -> BOOLEAN]
      BY <3>1
    <3>4. QED
      BY <1>2, <2>5, <3>2, <3>3
  <2>6. QED
    BY <2>3, <2>4, <2>5
<1>4. ASSUME NEW f \in Flows PROVE flow[f] \in Requests /\ Asks(flow[f], now, schema)
  BY <1>2, RestsType DEF Asks, OnDatabase
<1>5. ASSUME NEW c \in Crons
      PROVE  cron[c] \in Invocations /\ Cleans(cron[c], tables, now, schema)
  BY <1>2, CronRestsType
<1>6. /\ heartbeat \in [at : 0 .. MaxTime, backlog : BOOLEAN, swept : BOOLEAN]
      /\ Beats(heartbeat, tables, now, schema)
  BY <1>2, CloudAssumption DEF Beats
<1>7. TypeOK
  <2>1. now \in 1 .. MaxTime
    BY <1>2, CloudAssumption
  <2>2. flow \in [Flows -> Requests] /\ cron \in [Crons -> Invocations] /\ lastRun \in [Crons -> Nat]
    BY <1>2, <1>4, <1>5
  <2>3. QED
    BY <1>2, <1>3, <1>6, <2>1, <2>2 DEF TypeOK, StoreInv
<1>8. QED
  BY <1>2, <1>3, <1>4, <1>5, <1>6, <1>7 DEF CloudInv

LEMMA NextKeeps == CloudInv /\ Next => CloudInv' /\ Promises
<1>1. SUFFICES ASSUME CloudInv, Act PROVE CloudInv' /\ Promises
  BY DEF Next
<1>2. CASE \E f \in Flows, d \in Devices :
            \/ \E s \in Sessions, content \in Contents : AskSave(f, d, s, content)
            \/ AskList(f, d) \/ AskExport(f, d) \/ AskClear(f, d)
  BY <1>1, <1>2, AsksKeep
<1>3. CASE \E f \in Flows : ClientAnswer(f) \/ Serve(f)
  BY <1>1, <1>3, ClientAnswerKeeps, ReadExistingKeeps, ReadsKeep, SaveKeeps, TouchKeeps, ClearKeeps
     DEF Serve
<1>4. CASE \E f \in Flows, committed \in BOOLEAN : D1Fails(f, committed)
  BY <1>1, <1>4, D1FailsKeeps
<1>5. CASE \E c \in Crons : Trigger(c) \/ Clean(c) \/ CronFails(c)
  BY <1>1, <1>5, TriggerKeeps, CronFailsKeeps, ReadMarkerKeeps, CleanBatchKeeps, CheckBacklogKeeps,
     RecordHeartbeatKeeps DEF Clean
<1>6. CASE Migrate \/ Tick
  BY <1>1, <1>6, MigrateKeeps, TickKeeps
<1>7. QED
  BY <1>1, <1>2, <1>3, <1>4, <1>5, <1>6 DEF Act

LEMMA StutterKeeps == CloudInv /\ UNCHANGED vars => CloudInv'
BY DEF vars, CloudInv, TypeOK

\* The inductive invariant holds of every behaviour.
THEOREM CloudInvariant == Spec => []CloudInv
<1>1. CloudInv /\ [Next]_vars => CloudInv'
  BY NextKeeps, StutterKeeps
<1>2. QED
  BY InitCloud, <1>1, PTL DEF Spec

-----------------------------------------------------------------------------
(* What it implies                                                         *)

\* What is stored is stored lawfully: never more than the limit, only under consent unless a
\* cleanup is at it, and for each browser one profile with its lease.
THEOREM StoreLawful == Spec => []StoreIsLawful
<1>1. CloudInv => StoreIsLawful
  <2>1. SUFFICES ASSUME CloudInv PROVE StoreIsLawful
    OBVIOUS
  <2>2. TypeOK /\ StoreInv(tables, now) /\ now \in Nat /\ schema \in 3 .. 6
    BY <2>1 DEF CloudInv, TypeOK
  <2>3. QuotaHolds
    BY <2>2 DEF QuotaHolds, StoreInv, Bounded
  <2>4. SummariesNeedConsent
    <3>1. ASSUME NEW d \in Devices, tables.expires[d] + CronTick <= now
          PROVE  tables.expires[d] <= now
      <4>1. tables.expires[d] \in Nat
        BY <2>2, TableTypes DEF StoreInv
      <4>2. QED
        BY <2>2, <3>1, <4>1, Quantities
    <3>2. QED
      BY <2>2, <3>1 DEF SummariesNeedConsent, StoreInv, Lawful
  <2>5. ProfileFollowsDevice
    <3>1. SUFFICES ASSUME schema >= 4, NEW d \in Devices, tables.expires[d] # NoRow
                   PROVE  /\ Cardinality(MemberProfiles(tables, d)) = 1
                          /\ \A p \in MemberProfiles(tables, d) : p.expires = tables.expires[d]
      BY DEF ProfileFollowsDevice
    <3>2. MemberProfiles(tables, d) = {ProfileOf(d, tables.expires[d])}
      BY <2>1, <3>1 DEF CloudInv, Profiled
    <3>3. ProfileOf(d, tables.expires[d]).expires = tables.expires[d]
      BY DEF ProfileOf
    <3>4. PICK p : p = ProfileOf(d, tables.expires[d])
      OBVIOUS
    <3>5. Cardinality({p}) = 1
      BY FS_Singleton
    <3>6. QED
      BY <3>2, <3>3, <3>4, <3>5
  <2>6. QED
    BY <2>2, <2>3, <2>4, <2>5 DEF StoreIsLawful
<1>2. QED
  BY CloudInvariant, <1>1, PTL

\* What the operator reads is true: after a cleanup that reports "ready" nothing is left of
\* what was over when it was scheduled, and a consent is not granted in silence.
THEOREM OperatorTold == Spec => []OperatorIsTold
<1>1. CloudInv => OperatorIsTold
  <2>1. SUFFICES ASSUME CloudInv PROVE OperatorIsTold
    OBVIOUS
  <2>2. NoSilentGrant
    BY <2>1 DEF CloudInv, NoSilentGrant
  <2>3. ReadyMeansSwept
    <3>1. SUFFICES ASSUME schema \in Supported, CleanupStatus(heartbeat, now) = "ready",
                          heartbeat.swept
                   PROVE  ~HasExpiredData(tables, heartbeat.at, schema, schema)
      BY DEF ReadyMeansSwept
    <3>2. PICK h \in [at : 0 .. MaxTime, backlog : BOOLEAN, swept : BOOLEAN] : h = heartbeat
      BY <2>1 DEF CloudInv, TypeOK
    <3>3. h.swept = TRUE
      BY <3>1, <3>2
    <3>4. h.backlog = FALSE
      BY <3>1, <3>2 DEF CleanupStatus
    <3>5. Swept(tables, h.at)
      BY <2>1, <3>2, <3>3, <3>4 DEF CloudInv, Beats
    <3>6. tables \in Tables /\ h.at \in Nat
      BY <2>1 DEF CloudInv, TypeOK
    <3>7. ExpiredRows(tables, h.at) = {} /\ ExpiredConsents(tables, h.at) = {}
          /\ ExpiredDevices(tables, h.at) = {}
      BY <3>5 DEF Swept, ExpiredRows, ExpiredConsents, ExpiredDevices
    <3>8. ExpiredProfiles(tables, h.at) = {}
      <4>1. ASSUME NEW p \in tables.profiles, ~p.member PROVE ~(p.expires <= h.at)
        <5>1. p.expires > h.at /\ p.expires \in Nat
          BY <3>5, <3>6, <4>1 DEF Swept, Tables
        <5>2. QED
          BY <3>6, <5>1
      <4>2. QED
        BY <4>1 DEF ExpiredProfiles
    <3>9. \A v : ExpiredMilestones(tables, h.at, v) = {}
      BY <3>5 DEF Swept, ExpiredMilestones
    <3>10. QED
      BY <3>2, <3>7, <3>8, <3>9 DEF HasExpiredData
  <2>4. QED
    BY <2>2, <2>3 DEF OperatorIsTold
<1>2. QED
  BY CloudInvariant, <1>1, PTL

\* Saved means stored.
THEOREM Saved == Spec => SavedIsStored
<1>1. CloudInv /\ [Next]_vars =>
        [\A f \in Flows :
           ~At(f, "answered") /\ At(f, "answered")' /\ flow[f].kind = "save"
           => tables'.rows[Dev(f)][flow[f].id] = flow[f].content]_vars
  BY NextKeeps DEF Promises
<1>2. QED
  BY CloudInvariant, <1>1, PTL DEF Spec, SavedIsStored

\* Nobody's data ends before its time, and what is stored does not change.
THEOREM NothingEarly == Spec => NothingEndsEarly
<1>1. CloudInv /\ [Next]_vars =>
        [\A d \in Devices, s \in Sessions :
           HasActiveDevice(tables, d, now) /\ tables.rows[d][s] # Absent
           => tables'.rows[d][s] \in {tables.rows[d][s], Absent}]_vars
  BY NextKeeps DEF Promises, Evolves, HasActiveDevice
<1>2. CloudInv /\ [Next]_vars =>
        [\A d \in Devices : tables'.expires[d] < tables.expires[d] => tables.expires[d] <= now]_vars
  BY NextKeeps DEF Promises, Evolves
<1>3. CloudInv /\ [Next]_vars =>
        [\A d \in Devices : Stored(tables, d) \ Stored(tables', d) # {} =>
           \/ tables.expires[d] <= now
           \/ \E f \in Flows : At(f, "clear") /\ Dev(f) = d]_vars
  BY NextKeeps DEF Promises
<1>4. Spec => SummariesImmutable
  BY CloudInvariant, <1>1, PTL DEF Spec, SummariesImmutable
<1>5. Spec => LeaseNeverShortens
  BY CloudInvariant, <1>2, PTL DEF Spec, LeaseNeverShortens
<1>6. Spec => OnlyExpiredDataIsSwept
  BY CloudInvariant, <1>3, PTL DEF Spec, OnlyExpiredDataIsSwept
<1>7. QED
  BY <1>4, <1>5, <1>6 DEF NothingEndsEarly

-----------------------------------------------------------------------------
(* Listings                                                                *)

LEMMA Joined ==
  ASSUME NEW s \in Seq(Nat), NEW t \in Seq(Nat)
  PROVE  /\ s \o t \in Seq(Nat) /\ DOMAIN (s \o t) = 1 .. Len(s) + Len(t)
         /\ Len(s) \in Nat /\ Len(t) \in Nat /\ DOMAIN s = 1 .. Len(s) /\ DOMAIN t = 1 .. Len(t)
         /\ \A i \in 1 .. Len(s) : (s \o t)[i] = s[i]
         /\ \A i \in 1 .. Len(t) : (s \o t)[Len(s) + i] = t[i]
         /\ \A i \in 1 .. Len(s) + Len(t) :
              (s \o t)[i] = IF i <= Len(s) THEN s[i] ELSE t[i - Len(s)]
BY ConcatProperties

\* A page goes on where the pages before it have ended.
LEMMA After ==
  ASSUME NEW m \in Nat, NEW n \in Nat, NEW i \in 1 .. m + n, i > m
  PROVE  /\ i - m \in 1 .. n
         /\ \A j \in 1 .. m + n : i < j => j > m /\ j - m \in 1 .. n /\ i - m < j - m
OBVIOUS

LEMMA OnePageMore ==
  ASSUME NEW got \in Seq(Nat), NEW page \in Seq(Nat), NEW kept, NEW less \in SUBSET kept,
         less \subseteq Nat \ {0}, NEW cursor \in Nat, NEW next \in Nat,
         cursor = 0 => got = <<>>, cursor # 0 => Taken(got, kept, cursor),
         Increasing(page), \A i \in DOMAIN page : page[i] > cursor,
         next # 0 => next > cursor /\ \A i \in DOMAIN page : page[i] <= next,
         \A x \in less : x > cursor /\ (next = 0 \/ x <= next) => \E i \in DOMAIN page : page[i] = x
  PROVE  Taken(got \o page, less, next)
<1>1. PICK all \in Seq(Nat) : all = got \o page
  BY Joined
<1>2. PICK m, n \in Nat : m = Len(got) /\ n = Len(page)
  BY Joined
<1>3. /\ DOMAIN got = 1 .. m /\ DOMAIN page = 1 .. n /\ DOMAIN all = 1 .. m + n
      /\ \A i \in 1 .. m : all[i] = got[i] /\ got[i] \in Nat
      /\ \A i \in 1 .. n : all[m + i] = page[i] /\ page[i] \in Nat
      /\ \A i \in 1 .. m + n : all[i] = IF i <= m THEN got[i] ELSE page[i - m]
  <2>1. (\A i \in 1 .. Len(got) : got[i] \in Nat) /\ (\A i \in 1 .. Len(page) : page[i] \in Nat)
    BY ElementOfSeq
  <2>2. /\ DOMAIN got = 1 .. m /\ DOMAIN page = 1 .. n /\ DOMAIN all = 1 .. m + n
        /\ \A i \in 1 .. m : all[i] = got[i]
        /\ \A i \in 1 .. n : all[m + i] = page[i]
        /\ \A i \in 1 .. m + n : all[i] = IF i <= m THEN got[i] ELSE page[i - m]
    BY <1>1, <1>2, Joined
  <2>3. QED
    BY <1>2, <2>1, <2>2
<1>4. cursor = 0 => m = 0
  BY <1>2, EmptySeq
<1>5. /\ \A i, j \in 1 .. m : i < j => got[i] < got[j]
      /\ \A i \in 1 .. m : got[i] <= cursor
  <2>1. CASE cursor = 0
    <3>1. \A i \in 1 .. m : FALSE
      BY <1>4, <2>1
    <3>2. QED
      BY <3>1
  <2>2. CASE cursor # 0
    <3>1. Increasing(got) /\ \A i \in DOMAIN got : cursor # 0 => got[i] <= cursor
      BY <2>2 DEF Taken
    <3>2. QED
      BY <1>3, <2>2, <3>1 DEF Increasing
  <2>3. QED
    BY <2>1, <2>2
<1>6. Increasing(all)
  <2>1. SUFFICES ASSUME NEW i \in 1 .. m + n, NEW j \in 1 .. m + n, i < j PROVE all[i] < all[j]
    BY <1>3 DEF Increasing
  <2>2. CASE j <= m
    BY <1>2, <1>3, <1>5, <2>1, <2>2
  <2>3. CASE i > m
    <3>1. PICK k \in 1 .. n, l \in 1 .. n : k = i - m /\ l = j - m /\ k < l
      BY After, <2>1, <2>3
    <3>2. page[k] < page[l]
      BY <1>3, <3>1 DEF Increasing
    <3>3. QED
      BY <1>2, <1>3, <2>1, <2>3, <3>1, <3>2
  <2>4. CASE i <= m /\ j > m
    <3>1. PICK l \in 1 .. n : l = j - m
      BY After, <2>1, <2>4
    <3>2. i \in 1 .. m /\ all[i] = got[i] /\ all[j] = page[l]
      BY <1>2, <1>3, <2>1, <2>4, <3>1
    <3>3. got[i] <= cursor /\ page[l] > cursor /\ got[i] \in Nat /\ page[l] \in Nat
      BY <1>3, <1>5, <3>1, <3>2
    <3>4. QED
      BY <3>2, <3>3
  <2>5. QED
    BY <1>2, <2>2, <2>3, <2>4
<1>7. ASSUME next # 0, NEW i \in 1 .. m + n PROVE all[i] <= next
  <2>1. CASE i <= m
    <3>1. i \in 1 .. m /\ all[i] = got[i]
      BY <1>2, <1>3, <2>1
    <3>2. got[i] \in Nat /\ got[i] <= cursor /\ cursor < next
      BY <1>3, <1>5, <1>7, <3>1
    <3>3. QED
      BY <3>1, <3>2
  <2>2. CASE i > m
    <3>1. PICK l \in 1 .. n : l = i - m
      BY After, <2>2
    <3>2. all[i] = page[l]
      <4>1. ~(i <= m)
        BY <1>2, <2>2
      <4>2. QED
        BY <1>3, <3>1, <4>1
    <3>3. page[l] <= next
      BY <1>3, <1>7, <3>1
    <3>4. QED
      BY <3>2, <3>3
  <2>3. QED
    BY <1>2, <2>1, <2>2
<1>8. ASSUME NEW x \in less, next = 0 \/ x <= next PROVE \E i \in 1 .. m + n : all[i] = x
  <2>1. x \in Nat /\ x \in kept
    OBVIOUS
  <2>2. CASE x <= cursor /\ cursor # 0
    <3>1. PICK i \in 1 .. m : got[i] = x
      BY <1>3, <2>1, <2>2 DEF Taken
    <3>2. QED
      BY <1>2, <1>3, <3>1
  <2>3. CASE x > cursor
    <3>1. PICK i \in 1 .. n : page[i] = x
      BY <1>3, <1>8, <2>3
    <3>2. m + i \in 1 .. m + n
      BY <1>2
    <3>3. QED
      BY <1>3, <3>1, <3>2
  <2>4. QED
    BY <2>1, <2>2, <2>3
<1>9. QED
  BY <1>1, <1>3, <1>6, <1>7, <1>8 DEF Taken

\* How request r goes on to q, when the tables are T at time n.
SameList(r, q) ==
  /\ r.pc # "rest" /\ q.kind = r.kind /\ q.dev = r.dev /\ q.cursor = r.cursor /\ q.got = r.got
Asked(r, q) == r.pc = "rest" /\ q.pc # "answered" /\ q.cursor = 0 /\ q.got = <<>>
MovesOn(r, q) == SameList(r, q) /\ q.pc # "answered"
FindsNothing(r, q, T, n) ==
  /\ SameList(r, q) /\ q.page = <<>> /\ q.next = 0
  /\ T.expires[r.dev] <= n
FindsPage(r, q, T) ==
  /\ SameList(r, q)
  /\ \E after \in SUBSET Sessions, limit \in Nat \ {0} :
       /\ after = {s \in Stored(T, r.dev) : s > r.cursor} /\ q.page \in FirstOf(after, limit)
       /\ q.next = IF HasNext(after, limit) THEN q.page[limit] ELSE 0
AsksNext(r, q) ==
  /\ r.pc = "answered" /\ r.kind = "list" /\ r.next # 0 /\ q.pc # "answered"
  /\ q.dev = r.dev /\ q.cursor = r.next /\ q.got = r.got \o r.page

Goes(r, q, T, n) ==
  q.kind = "list" /\ q.pc # "rest" =>
    \/ q = r \/ Asked(r, q) \/ MovesOn(r, q) \/ FindsNothing(r, q, T, n)
    \/ FindsPage(r, q, T) \/ AsksNext(r, q)

GoesOn(f) ==
  /\ Goes(flow[f], flow'[f], tables, now)
  /\ flow'[f] # flow[f] /\ flow'[f].pc = "answered" /\ flow'[f].kind = "list"
     => tables' = tables /\ now' = now

Seen(T, d, n) == IF HasActiveDevice(T, d, n) THEN Stored(T, d) ELSE {}

\* What has been read stays all there has been all the while.
LEMMA ReadsOn ==
  ASSUME NEW r \in Requests, NEW q \in Requests, NEW T \in Tables, NEW n \in Nat,
         Goes(r, q, T, n), NEW kept, NEW seen, NEW now_seen,
         Reads(r, kept, seen), q # r /\ q.pc = "answered" => now_seen = Seen(T, q.dev, n),
         NEW left, left = IF r.pc = "rest" THEN now_seen ELSE kept \cap now_seen
  PROVE  Reads(q, left, now_seen)
<1>1. SUFFICES ASSUME q.kind = "list", q.pc # "rest" PROVE Reads(q, left, now_seen)
  BY DEF Reads
<1>2. left \subseteq now_seen /\ (r.pc # "rest" => left \subseteq kept)
  OBVIOUS
<1>3. PICK got \in Seq(Nat), page \in Seq(Nat), cursor \in Nat, next \in Nat :
        got = r.got /\ page = r.page /\ cursor = r.cursor /\ next = r.next
  BY DEF Requests
<1>4. ASSUME NEW s, NEW last, Taken(s, kept, last), r.pc # "rest" PROVE Taken(s, left, last)
  BY <1>2, <1>4 DEF Taken
<1>5. CASE q = r
  BY <1>1, <1>2, <1>4, <1>5 DEF Reads
<1>6. CASE Asked(r, q)
  BY <1>2, <1>6 DEF Reads, Asked
<1>7. CASE AsksNext(r, q)
  <2>1. /\ r.pc = "answered" /\ r.kind = "list" /\ r.next # 0 /\ r.pc # "rest"
        /\ q.pc # "answered" /\ q.cursor = r.next /\ q.got = r.got \o r.page
    BY <1>7 DEF AsksNext
  <2>2. Taken(r.got \o r.page, kept, r.next)
    BY <2>1 DEF Reads
  <2>3. Taken(q.got, left, q.cursor)
    BY <1>4, <2>1, <2>2
  <2>4. QED
    BY <1>2, <2>1, <2>3 DEF Reads
<1>8. ASSUME SameList(r, q)
      PROVE  /\ r.kind = "list" /\ r.pc # "rest" /\ q.got = got /\ q.cursor = cursor /\ q.dev = r.dev
             /\ (cursor = 0 => got = <<>>) /\ (cursor # 0 => Taken(got, kept, cursor))
             /\ (cursor # 0 => Taken(got, left, cursor))
  <2>1. r.kind = "list" /\ r.pc # "rest" /\ q.got = got /\ q.cursor = cursor /\ q.dev = r.dev
    BY <1>1, <1>3, <1>8 DEF SameList
  <2>2. (cursor = 0 => got = <<>>) /\ (cursor # 0 => Taken(got, kept, cursor))
    BY <1>3, <2>1 DEF Reads
  <2>3. QED
    BY <1>4, <2>1, <2>2
<1>9. CASE MovesOn(r, q)
  <2>1. SameList(r, q) /\ q.pc # "answered"
    BY <1>9 DEF MovesOn
  <2>2. QED
    BY <1>2, <1>8, <2>1 DEF Reads
<1>10. ASSUME SameList(r, q), q.pc = "answered", q # r, Taken(got \o q.page, left, q.next)
       PROVE  Reads(q, left, now_seen)
  BY <1>2, <1>8, <1>10 DEF Reads
<1>11. ASSUME SameList(r, q), q.pc # "answered" PROVE Reads(q, left, now_seen)
  BY <1>2, <1>8, <1>11 DEF Reads
<1>12. CASE FindsNothing(r, q, T, n) /\ q.pc = "answered" /\ q # r
  <2>1. SameList(r, q) /\ q.page = <<>> /\ q.next = 0 /\ T.expires[r.dev] <= n
    BY <1>12 DEF FindsNothing
  <2>2. r.dev \in Devices /\ q.dev = r.dev
    BY <2>1 DEF Requests, SameList
  <2>3. ~HasActiveDevice(T, q.dev, n)
    <3>1. T.expires[r.dev] \in Nat
      BY <2>2, TableTypes
    <3>2. QED
      BY <2>1, <2>2, <3>1 DEF HasActiveDevice
  <2>4. now_seen = {}
    BY <1>12, <2>3 DEF Seen
  <2>5. left = {}
    BY <1>2, <2>4
  <2>6. got \o q.page = got
    BY <2>1, ConcatEmptySeq
  <2>7. Increasing(got)
    <3>1. CASE cursor = 0
      BY <1>8, <2>1, <3>1 DEF Increasing
    <3>2. CASE cursor # 0
      BY <1>8, <2>1, <3>2 DEF Taken
    <3>3. QED
      BY <3>1, <3>2
  <2>8. Taken(got, left, 0)
    BY <2>5, <2>7 DEF Taken
  <2>9. QED
    BY <1>10, <1>12, <2>1, <2>6, <2>8
<1>13. CASE FindsPage(r, q, T) /\ q.pc = "answered" /\ q # r
  <2>1. SameList(r, q)
    BY <1>13 DEF FindsPage
  <2>2. PICK after \in SUBSET Sessions, limit \in Nat \ {0} :
          /\ after = {s \in Stored(T, r.dev) : s > r.cursor} /\ q.page \in FirstOf(after, limit)
          /\ q.next = IF HasNext(after, limit) THEN q.page[limit] ELSE 0
    BY <1>13 DEF FindsPage
  <2>3. PICK new \in Seq(Nat), to \in Nat : new = q.page /\ to = q.next
    BY DEF Requests
  <2>4. /\ Increasing(new) /\ \A i \in DOMAIN new : new[i] \in after
        /\ HasNext(after, limit) =>
             /\ limit \in DOMAIN new /\ \A i \in DOMAIN new : new[i] <= new[limit]
             /\ \A x \in after : x <= new[limit] => \E i \in DOMAIN new : new[i] = x
        /\ ~HasNext(after, limit) => \A x \in after : \E i \in DOMAIN new : new[i] = x
    <3>1. new \in FirstOf(after, limit)
      BY <2>2, <2>3
    <3>2. after \in SUBSET Sessions /\ limit \in Nat \ {0}
      BY <2>2
    <3>3. Increasing(new) /\ \A i \in DOMAIN new : new[i] \in after
      BY <3>1, <3>2, PageFacts
    <3>4. HasNext(after, limit) => EndsAt(new, after, limit)
      BY <3>1, <3>2, PageFacts
    <3>5. ~HasNext(after, limit) => HasAll(new, after)
      BY <3>1, <3>2, PageFacts
    <3>6. QED
      BY <3>3, <3>4, <3>5 DEF EndsAt, HasAll
  <2>5. \A i \in DOMAIN new : new[i] > cursor
    BY <1>3, <2>2, <2>4
  <2>6. to # 0 => HasNext(after, limit) /\ to = new[limit]
    BY <2>2, <2>3
  <2>7. to # 0 => to > cursor /\ \A i \in DOMAIN new : new[i] <= to
    BY <2>4, <2>5, <2>6
  <2>8. /\ left \subseteq Stored(T, r.dev) /\ left \subseteq Nat \ {0}
    <3>1. now_seen \subseteq Stored(T, r.dev)
      BY <1>8, <1>13, <2>1 DEF Seen
    <3>2. Stored(T, r.dev) \subseteq Sessions
      BY DEF Stored
    <3>3. QED
      BY <1>2, <3>1, <3>2, StoreAssumption
  <2>9. ASSUME NEW x \in left, x > cursor, to = 0 \/ x <= to PROVE \E i \in DOMAIN new : new[i] = x
    <3>1. x \in after
      BY <1>3, <2>2, <2>8, <2>9
    <3>2. CASE HasNext(after, limit)
      <4>1. limit \in DOMAIN new /\ new[limit] > cursor /\ to = new[limit]
        BY <2>2, <2>3, <2>4, <2>5, <3>2
      <4>2. to # 0
        BY <4>1
      <4>3. QED
        BY <2>4, <2>9, <3>1, <3>2, <4>1, <4>2
    <3>3. CASE ~HasNext(after, limit)
      BY <2>4, <3>1, <3>3
    <3>4. QED
      BY <3>2, <3>3
  <2>10. /\ left \in SUBSET kept /\ (cursor = 0 => got = <<>>)
         /\ (cursor # 0 => Taken(got, kept, cursor))
    BY <1>2, <1>8, <2>1
  <2>11. Taken(got \o new, left, to)
    BY <2>4, <2>5, <2>7, <2>8, <2>9, <2>10, OnePageMore
  <2>12. QED
    BY <1>10, <1>13, <2>1, <2>3, <2>11
<1>14. (FindsNothing(r, q, T, n) => SameList(r, q)) /\ (FindsPage(r, q, T) => SameList(r, q))
  BY DEF FindsNothing, FindsPage
<1>15. \/ q = r \/ Asked(r, q) \/ MovesOn(r, q) \/ FindsNothing(r, q, T, n)
       \/ FindsPage(r, q, T) \/ AsksNext(r, q)
  BY <1>1 DEF Goes
<1>16. QED
  BY <1>5, <1>6, <1>7, <1>9, <1>11, <1>12, <1>13, <1>14, <1>15

\* A request at rest, or of another kind, is no listing.
LEMMA NoListGoes ==
  ASSUME NEW r, NEW q, NEW T, NEW n, q.kind # "list" \/ q.pc = "rest"
  PROVE  Goes(r, q, T, n)
BY DEF Goes

\* The step of one request.
LEMMA OneGoesOn ==
  ASSUME CloudInv, NEW g \in Flows, NEW q, flow' = [flow EXCEPT ![g] = q],
         Goes(flow[g], q, tables, now),
         q.pc = "answered" /\ q.kind = "list" => tables' = tables /\ now' = now
  PROVE  \A f \in Flows : GoesOn(f)
<1>1. flow \in [Flows -> Requests]
  BY DEF CloudInv, TypeOK
<1>2. flow'[g] = q /\ \A f \in Flows \ {g} : flow'[f] = flow[f]
  BY <1>1
<1>3. \A f \in Flows \ {g} : GoesOn(f)
  BY <1>2 DEF GoesOn, Goes
<1>4. GoesOn(g)
  BY <1>2 DEF GoesOn
<1>5. QED
  BY <1>3, <1>4

LEMMA NoneGoesOn ==
  ASSUME flow' = flow
  PROVE  \A f \in Flows : GoesOn(f)
BY DEF GoesOn, Goes

LEMMA AskGoesOn ==
  ASSUME CloudInv, NEW f \in Flows, NEW d \in Devices, NEW r \in Requests,
         \/ r.pc = "batch" /\ r.kind = "save" /\ r.id \in Sessions /\ r.content \in Contents
         \/ r.pc = "active" /\ r.kind \in {"list", "clear"}
            /\ (r.kind = "list" => r.limit # 0 /\ r.cursor = 0 /\ r.got = <<>>),
         Ask(f, d, r)
  PROVE  \A g \in Flows : GoesOn(g)
<1>1. PICK q : q = Arrived(d, r)
  OBVIOUS
<1>2. q.pc # "rest" => q.pc = r.pc /\ q.kind = r.kind /\ q.cursor = r.cursor /\ q.got = r.got
  BY <1>1, ArrivedType
<1>3. flow' = [flow EXCEPT ![f] = q] /\ flow[f].pc = "rest"
  BY <1>1 DEF Ask, At
<1>4. q.pc # "answered"
  BY <1>2
<1>5. Goes(flow[f], q, tables, now)
  BY <1>2, <1>3, <1>4 DEF Goes, Asked
<1>6. QED
  BY <1>3, <1>4, <1>5, OneGoesOn

LEMMA AsksGoOn ==
  ASSUME CloudInv, NEW f \in Flows, NEW d \in Devices,
         \/ \E s \in Sessions, content \in Contents : AskSave(f, d, s, content)
         \/ AskList(f, d) \/ AskExport(f, d) \/ AskClear(f, d)
  PROVE  \A g \in Flows : GoesOn(g)
<1>1. ASSUME NEW s \in Sessions, NEW content \in Contents, AskSave(f, d, s, content)
      PROVE  \A g \in Flows : GoesOn(g)
  <2>1. PICK r : r = Saving(s, content)
    OBVIOUS
  <2>2. r \in Requests /\ r.pc = "batch" /\ r.kind = "save" /\ r.id = s /\ r.content = content
    BY <2>1, SavingType
  <2>3. Ask(f, d, r)
    BY <1>1, <2>1 DEF AskSave
  <2>4. QED
    BY <2>2, <2>3, AskGoesOn
<1>2. ASSUME NEW limit \in Nat \ {0}, NEW check \in BOOLEAN, Ask(f, d, Listing(limit, 0, <<>>, check))
      PROVE  \A g \in Flows : GoesOn(g)
  <2>1. PICK zero \in Nat, none \in Seq(Nat) : zero = 0 /\ none = <<>>
    <3>1. <<>> \in Seq(Nat) /\ 0 \in Nat
      OBVIOUS
    <3>2. QED
      BY <3>1
  <2>2. PICK r : r = Listing(limit, zero, none, check)
    OBVIOUS
  <2>3. /\ r \in Requests /\ r.pc = "active" /\ r.kind = "list" /\ r.limit # 0
        /\ r.cursor = zero /\ r.got = none
    BY <2>2, ListingType
  <2>4. Ask(f, d, r)
    BY <1>2, <2>1, <2>2
  <2>5. QED
    BY <2>1, <2>3, <2>4, AskGoesOn
<1>3. CASE AskList(f, d)
  <2>1. PageSize \in Nat \ {0} /\ (~enabled[d]) \in BOOLEAN
    BY CloudAssumption
  <2>2. PICK check \in BOOLEAN : check = ~enabled[d]
    BY <2>1
  <2>3. Ask(f, d, Listing(PageSize, 0, <<>>, check))
    BY <1>3, <2>2 DEF AskList
  <2>4. QED
    BY <1>2, <2>1, <2>3
<1>4. CASE AskExport(f, d)
  <2>1. Cardinality(Sessions) \in Nat \ {0}
    BY Quantities, StoreAssumption, FS_CardinalityType, FS_EmptySet
  <2>2. PICK limit \in Nat \ {0}, check \in BOOLEAN : limit = Cardinality(Sessions) /\ check = FALSE
    BY <2>1
  <2>3. Ask(f, d, Listing(limit, 0, <<>>, check))
    BY <1>4, <2>2 DEF AskExport
  <2>4. QED
    BY <1>2, <2>3
<1>5. CASE AskClear(f, d)
  <2>1. PICK r : r = Clearing
    OBVIOUS
  <2>2. r \in Requests /\ r.pc = "active" /\ r.kind = "clear"
    BY <2>1, ClearingType
  <2>3. Ask(f, d, r)
    BY <1>5, <2>1 DEF AskClear
  <2>4. QED
    BY <2>2, <2>3, AskGoesOn
<1>6. QED
  BY <1>1, <1>3, <1>4, <1>5

LEMMA ClientAnswerGoesOn ==
  ASSUME CloudInv, NEW f \in Flows, ClientAnswer(f)
  PROVE  \A g \in Flows : GoesOn(g)
<1>1. flow[f].pc = "answered" /\ flow[f] \in Requests
  BY Flowing DEF ClientAnswer, At
<1>2. CASE flow[f].kind = "list" /\ flow[f].next # 0
  <2>1. PICK d \in Devices, next \in Nat, got \in Seq(Nat), page \in Seq(Nat), check \in BOOLEAN :
          /\ d = Dev(f) /\ next = flow[f].next /\ got = flow[f].got /\ page = flow[f].page
          /\ check = flow[f].check
    BY <1>1 DEF Requests, Dev
  <2>2. PICK all \in Seq(Nat) : all = got \o page
    BY Joined
  <2>3. PICK r : r = Listing(PageSize, next, all, check)
    OBVIOUS
  <2>4. /\ r \in Requests /\ r.pc = "active" /\ r.kind = "list" /\ r.limit # 0
        /\ r.cursor = next /\ r.got = all
    <3>1. PageSize \in Nat \ {0}
      BY CloudAssumption
    <3>2. QED
      BY <2>3, <3>1, ListingType
  <2>5. PICK q : q = Arrived(d, r)
    OBVIOUS
  <2>6. q.pc # "rest" => q.pc = "active" /\ q.cursor = next /\ q.got = all /\ q.dev = d
    BY <2>4, <2>5, ArrivedType
  <2>7. flow' = [flow EXCEPT ![f] = q]
    BY <1>2, <2>1, <2>2, <2>3, <2>5 DEF ClientAnswer
  <2>8. q.pc # "rest" => AsksNext(flow[f], q)
    BY <1>1, <1>2, <2>1, <2>2, <2>6 DEF AsksNext, Dev
  <2>9. Goes(flow[f], q, tables, now) /\ q.pc # "answered"
    BY <2>6, <2>8 DEF Goes
  <2>10. QED
    BY <2>7, <2>9, OneGoesOn
<1>3. CASE ~(flow[f].kind = "list" /\ flow[f].next # 0)
  <2>1. PICK q : q = Rest
    OBVIOUS
  <2>2. flow' = [flow EXCEPT ![f] = q] /\ q.pc = "rest"
    BY <1>3, <2>1, RestsType DEF ClientAnswer
  <2>3. QED
    BY <2>2, NoListGoes, OneGoesOn
<1>4. QED
  BY <1>2, <1>3

LEMMA RefusedGoesOn ==
  ASSUME CloudInv, NEW f \in Flows, NEW code, Refused(f, code)
  PROVE  \A g \in Flows : GoesOn(g)
<1>1. PICK q : q = Rest
  OBVIOUS
<1>2. flow' = [flow EXCEPT ![f] = q] /\ q.pc = "rest"
  BY <1>1, RestsType DEF Refused
<1>3. QED
  BY <1>2, NoListGoes, OneGoesOn

LEMMA GotoGoesOn ==
  ASSUME CloudInv, NEW f \in Flows, NEW pc \in OnDatabase, Goto(f, pc), flow[f].pc \in OnDatabase
  PROVE  \A g \in Flows : GoesOn(g)
<1>1. PICK r : r = [flow[f] EXCEPT !.pc = pc]
  OBVIOUS
<1>2. pc \in Places /\ flow[f] \in Requests
  BY Flowing DEF Places
<1>3. /\ r.pc = pc /\ r.dev = flow[f].dev /\ r.kind = flow[f].kind /\ r.got = flow[f].got
      /\ r.cursor = flow[f].cursor
  BY <1>1, <1>2, GotoType
<1>4. flow' = [flow EXCEPT ![f] = r]
  BY <1>1, Flowing DEF Goto
<1>5. flow[f].pc # "rest" /\ r.pc # "answered"
  BY <1>3 DEF OnDatabase
<1>6. Goes(flow[f], r, tables, now)
  BY <1>3, <1>5 DEF Goes, MovesOn, SameList
<1>7. QED
  BY <1>4, <1>5, <1>6, OneGoesOn

LEMMA AnsweredGoesOn ==
  ASSUME CloudInv, NEW f \in Flows, flow[f].pc \in OnDatabase, NEW page \in Seq(Nat), NEW next \in Nat,
         Answered(f, page, next),
         flow[f].kind = "list" => tables' = tables /\ now' = now,
         flow[f].kind = "list" =>
           \/ page = <<>> /\ next = 0 /\ tables.expires[flow[f].dev] <= now
           \/ \E after \in SUBSET Sessions, limit \in Nat \ {0} :
                /\ after = {s \in Stored(tables, flow[f].dev) : s > flow[f].cursor}
                /\ page \in FirstOf(after, limit)
                /\ next = IF HasNext(after, limit) THEN page[limit] ELSE 0
  PROVE  \A g \in Flows : GoesOn(g)
<1>1. PICK pc : pc = "answered"
  OBVIOUS
<1>2. PICK p \in Requests : p = flow[f]
  BY Flowing
<1>3. PICK r : r = [p EXCEPT !.pc = pc, !.page = page, !.next = next]
  OBVIOUS
<1>4. /\ r.pc = pc /\ r.kind = p.kind /\ r.dev = p.dev /\ r.got = p.got /\ r.cursor = p.cursor
      /\ r.page = page /\ r.next = next
  BY <1>3 DEF Requests
<1>5. flow' = [flow EXCEPT ![f] = r]
  BY <1>1, <1>2, <1>3, Flowing DEF Answered
<1>6. p.pc # "rest"
  BY <1>2 DEF OnDatabase
<1>7. SameList(p, r)
  BY <1>4, <1>6 DEF SameList
<1>8. r.kind = "list" => FindsNothing(p, r, tables, now) \/ FindsPage(p, r, tables)
  BY <1>2, <1>4, <1>7 DEF FindsNothing, FindsPage
<1>9. Goes(flow[f], r, tables, now)
  BY <1>2, <1>8 DEF Goes
<1>10. QED
  BY <1>2, <1>4, <1>5, <1>9, OneGoesOn

LEMMA ServeGoesOn ==
  ASSUME CloudInv, NEW f \in Flows, Serve(f)
  PROVE  \A g \in Flows : GoesOn(g)
<1>1. PICK none \in Seq(Nat), zero \in Nat : none = <<>> /\ zero = 0
  <2>1. <<>> \in Seq(Nat) /\ 0 \in Nat
    OBVIOUS
  <2>2. QED
    BY <2>1
<1>2. CASE SaveConsented(f)
  <2>1. flow[f].pc = "batch" /\ flow[f].pc \in OnDatabase /\ flow[f].kind = "save"
    BY <1>2, Flowing DEF SaveConsented, At, OnDatabase, Asks
  <2>2. CASE Creates(tables, Dev(f), flow[f].id, Time(f))
    <3>1. Answered(f, none, zero)
      BY <1>1, <1>2, <2>2 DEF SaveConsented
    <3>2. QED
      BY <1>1, <2>1, <3>1, AnsweredGoesOn
  <2>3. CASE ~Creates(tables, Dev(f), flow[f].id, Time(f))
    <3>1. PICK grants \in BOOLEAN : grants = GrantsConsent(tables, Dev(f), Time(f))
      BY DEF GrantsConsent
    <3>2. PICK p \in Requests, pc \in Places : p = flow[f] /\ pc = "existing"
      BY Flowing DEF Places, OnDatabase
    <3>3. PICK q : q = [p EXCEPT !.pc = pc, !.consentGranted = grants]
      OBVIOUS
    <3>4. q.pc = pc /\ q.kind = p.kind
      BY <3>3 DEF Requests
    <3>5. flow' = [flow EXCEPT ![f].pc = pc, ![f].consentGranted = grants]
      BY <1>2, <2>3, <3>1, <3>2 DEF SaveConsented
    <3>6. flow' = [flow EXCEPT ![f] = q]
      BY <3>2, <3>3, <3>5, Flowing
    <3>7. Goes(flow[f], q, tables, now) /\ q.pc # "answered"
      BY <2>1, <3>2, <3>4, NoListGoes
    <3>8. QED
      BY <3>6, <3>7, OneGoesOn
  <2>4. QED
    BY <2>2, <2>3
<1>3. CASE ReadExisting(f)
  <2>1. flow[f].pc = "existing" /\ flow[f].pc \in OnDatabase /\ flow[f].kind = "save"
    BY <1>3, Flowing DEF ReadExisting, At, OnDatabase, Asks
  <2>2. \/ Goto(f, "consent") \/ Refused(f, "conflict") \/ Answered(f, none, zero)
    BY <1>1, <1>3 DEF ReadExisting
  <2>3. "consent" \in OnDatabase
    BY DEF OnDatabase
  <2>4. QED
    BY <2>1, <2>2, <2>3, GotoGoesOn, RefusedGoesOn, AnsweredGoesOn
<1>4. CASE RequireConsent(f)
  <2>1. flow[f].pc \in OnDatabase /\ (Goto(f, "count") \/ Refused(f, "consent-required"))
    BY <1>4 DEF RequireConsent, At, OnDatabase
  <2>2. "count" \in OnDatabase
    BY DEF OnDatabase
  <2>3. QED
    BY <2>1, <2>2, GotoGoesOn, RefusedGoesOn
<1>5. CASE CountActive(f)
  <2>1. PICK code : Refused(f, code)
    BY <1>5 DEF CountActive
  <2>2. QED
    BY <2>1, RefusedGoesOn
<1>6. CASE ReadActive(f)
  <2>1. flow[f].pc \in OnDatabase /\ tables' = tables /\ now' = now
    BY <1>6 DEF ReadActive, At, OnDatabase
  <2>2. "touch" \in OnDatabase
    BY DEF OnDatabase
  <2>3. CASE HasActiveDevice(tables, Dev(f), Time(f))
    <3>1. Goto(f, "touch")
      BY <1>6, <2>3 DEF ReadActive
    <3>2. QED
      BY <2>1, <2>2, <3>1, GotoGoesOn
  <2>4. CASE ~HasActiveDevice(tables, Dev(f), Time(f))
    <3>1. Answered(f, none, zero)
      BY <1>1, <1>6, <2>4 DEF ReadActive
    <3>2. tables.expires[Dev(f)] \in Nat /\ Time(f) \in Nat /\ Time(f) <= now /\ now \in Nat
      BY <2>1, Flowing, Serving, TableTypes
    <3>3. tables.expires[Dev(f)] <= now
      BY <2>4, <3>2 DEF HasActiveDevice
    <3>4. tables.expires[flow[f].dev] <= now
      BY <3>3 DEF Dev
    <3>5. QED
      BY <1>1, <2>1, <3>1, <3>4, AnsweredGoesOn
  <2>5. QED
    BY <2>3, <2>4
<1>7. CASE TouchIdentity(f)
  <2>1. flow[f].pc = "touch" /\ flow[f].pc \in OnDatabase /\ Goto(f, flow[f].kind)
    BY <1>7 DEF TouchIdentity, At, OnDatabase
  <2>2. flow[f].kind \in OnDatabase
    BY <2>1, Flowing DEF Asks, OnDatabase
  <2>3. QED
    BY <2>1, <2>2, GotoGoesOn
<1>8. CASE ListPage(f)
  <2>1. flow[f].pc \in OnDatabase /\ tables' = tables /\ now' = now
    BY <1>8 DEF ListPage, At, OnDatabase
  <2>2. PICK after \in SUBSET Sessions, limit \in Nat \ {0} :
          /\ after = {s \in Stored(tables, Dev(f)) : s > flow[f].cursor} /\ limit = flow[f].limit
          /\ \E page \in FirstOf(after, limit), next \in Nat :
                /\ Answered(f, page, next) /\ page \in Seq(Nat)
                /\ next = IF HasNext(after, limit) THEN page[limit] ELSE 0
    BY <1>8, ListPageAnswers
  <2>3. PICK page \in FirstOf(after, limit), next \in Nat :
          /\ Answered(f, page, next) /\ page \in Seq(Nat)
          /\ next = IF HasNext(after, limit) THEN page[limit] ELSE 0
    BY <2>2
  <2>4. after = {s \in Stored(tables, flow[f].dev) : s > flow[f].cursor}
    BY <2>2 DEF Dev
  <2>5. \E set \in SUBSET Sessions, lim \in Nat \ {0} :
          /\ set = {s \in Stored(tables, flow[f].dev) : s > flow[f].cursor}
          /\ page \in FirstOf(set, lim)
          /\ next = IF HasNext(set, lim) THEN page[lim] ELSE 0
    BY <2>2, <2>3, <2>4
  <2>6. page \in Seq(Nat) /\ next \in Nat /\ Answered(f, page, next)
    BY <2>3
  <2>7. QED
    BY <2>1, <2>5, <2>6, AnsweredGoesOn
<1>9. CASE ClearSummaries(f)
  <2>1. flow[f].pc = "clear" /\ flow[f].pc \in OnDatabase /\ flow[f].kind = "clear"
    BY <1>9, Flowing DEF ClearSummaries, At, OnDatabase, Asks
  <2>2. Answered(f, none, zero)
    BY <1>1, <1>9 DEF ClearSummaries
  <2>3. QED
    BY <2>1, <2>2, AnsweredGoesOn
<1>10. QED
  BY <1>2, <1>3, <1>4, <1>5, <1>6, <1>7, <1>8, <1>9 DEF Serve

LEMMA ActGoesOn == CloudInv /\ Act => \A f \in Flows : GoesOn(f)
<1>1. SUFFICES ASSUME CloudInv, Act PROVE \A f \in Flows : GoesOn(f)
  OBVIOUS
<1>2. CASE \E f \in Flows, d \in Devices :
            \/ \E s \in Sessions, content \in Contents : AskSave(f, d, s, content)
            \/ AskList(f, d) \/ AskExport(f, d) \/ AskClear(f, d)
  BY <1>1, <1>2, AsksGoOn
<1>3. CASE \E f \in Flows : ClientAnswer(f) \/ Serve(f)
  BY <1>1, <1>3, ClientAnswerGoesOn, ServeGoesOn
<1>4. CASE \E f \in Flows, committed \in BOOLEAN : D1Fails(f, committed)
  <2>1. PICK f \in Flows, committed \in BOOLEAN : Refused(f, "unavailable")
    BY <1>4 DEF D1Fails
  <2>2. QED
    BY <1>1, <2>1, RefusedGoesOn
<1>5. CASE (\E c \in Crons : Trigger(c) \/ Clean(c) \/ CronFails(c)) \/ Migrate \/ Tick
  <2>1. flow' = flow
    BY <1>5 DEF Trigger, Clean, ReadMarker, CleanBatch, CheckBacklog, RecordHeartbeat, CronFails,
               Migrate, Tick
  <2>2. QED
    BY <2>1, NoneGoesOn
<1>6. QED
  BY <1>1, <1>2, <1>3, <1>4, <1>5 DEF Act

LEMMA InitList == Init => ListInv
<1>1. SUFFICES ASSUME Init, NEW f \in Flows PROVE flow[f].pc = "rest"
  BY DEF ListInv, Reads
<1>2. QED
  BY <1>1, RestsType DEF Init

LEMMA ListsGoOn == CloudInv /\ CloudInv' /\ ListInv /\ Next => ListInv'
<1>1. SUFFICES ASSUME CloudInv, CloudInv', ListInv, Next, NEW f \in Flows
               PROVE  Reads(flow'[f], lasting'[f], Visible(flow[f].dev)')
  BY DEF ListInv
<1>2. PICK r \in Requests, q \in Requests : r = flow[f] /\ q = flow'[f]
  BY <1>1 DEF CloudInv, TypeOK
<1>3. PICK seen : seen = Visible(flow[f].dev)'
  OBVIOUS
<1>4. seen = Seen(tables', q.dev, now')
  BY <1>2, <1>3 DEF Visible, Seen
<1>5. GoesOn(f)
  BY <1>1, ActGoesOn DEF Next
<1>6. Goes(r, q, tables, now)
  BY <1>2, <1>5 DEF GoesOn
<1>7. CASE q.kind = "list" /\ q.pc # "rest"
  <2>1. q # r /\ q.pc = "answered" => seen = Seen(tables, q.dev, now)
    BY <1>2, <1>4, <1>5, <1>7 DEF GoesOn
  <2>2. lasting'[f] = IF r.pc = "rest" THEN seen ELSE lasting[f] \cap seen
    <3>1. lasting'[f] = Lasting(f)
      BY <1>1 DEF Next
    <3>2. QED
      BY <1>2, <1>3, <1>7, <3>1 DEF Lasting, At
  <2>3. Reads(r, lasting[f], Visible(flow[f].dev))
    BY <1>1, <1>2 DEF ListInv
  <2>4. tables \in Tables /\ now \in Nat
    BY <1>1, Flowing
  <2>5. PICK kept, left : kept = lasting[f] /\ left = lasting'[f]
    OBVIOUS
  <2>6. Reads(q, left, seen)
    BY <1>6, <2>1, <2>2, <2>3, <2>4, <2>5, ReadsOn
  <2>7. QED
    BY <1>2, <1>3, <2>5, <2>6
<1>8. CASE ~(q.kind = "list" /\ q.pc # "rest")
  BY <1>2, <1>8 DEF Reads
<1>9. QED
  BY <1>7, <1>8

\* A browser that pages through its history gets each summary stored all the while, in order.
THEOREM ListComplete == Spec => []ListIsComplete
<1>1. CloudInv /\ ListInv /\ [Next]_vars => CloudInv' /\ ListInv'
  <2>1. CloudInv /\ ListInv /\ Next => CloudInv' /\ ListInv'
    BY NextKeeps, ListsGoOn
  <2>2. ListInv /\ UNCHANGED vars => ListInv'
    BY DEF vars, ListInv, Visible
  <2>3. QED
    BY <2>1, <2>2, StutterKeeps
<1>2. ListInv => ListIsComplete
  <2>1. SUFFICES ASSUME ListInv, NEW f \in Flows, At(f, "answered"), flow[f].kind = "list",
                        flow[f].next = 0
                 PROVE  LET all == flow[f].got \o flow[f].page
                        IN  /\ lasting[f] \subseteq {all[i] : i \in DOMAIN all}
                            /\ \A i, j \in DOMAIN all : i < j => all[i] < all[j]
    BY DEF ListIsComplete
  <2>2. PICK all : all = flow[f].got \o flow[f].page
    OBVIOUS
  <2>3. Taken(all, lasting[f], 0)
    BY <2>1, <2>2 DEF ListInv, Reads, At
  <2>4. QED
    BY <2>2, <2>3 DEF Taken, Increasing
<1>3. QED
  BY InitCloud, InitList, <1>1, <1>2, PTL DEF Spec

=============================================================================
