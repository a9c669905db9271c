----------------------------- MODULE PageProofs -----------------------------
(***************************************************************************)
(* Theorems about the two pages of an administrator and what they ask of   *)
(* the gateway: KeyAdmin, for any number of creations and faults, and      *)
(* Health, for any number of overlapping checks, changes of the stores,    *)
(* breaks and visits.                                                      *)
(***************************************************************************)
EXTENDS KeyAdmin, Health, FiniteSetTheorems, SequenceTheorems, TLAPS

(***************************************************************************)
(* KeyAdmin.  Only a reply brings a raw key to the page, and the page      *)
(* waits for a reply only while it shows none, since a new key hides the   *)
(* form.  So a raw key is never overwritten by another, and one is taken   *)
(* away only by closing the modal, which must be open for that, or by      *)
(* leaving the page.  And the gateway replies with a key only after both   *)
(* of its stores have it.                                                  *)
(***************************************************************************)

\* While the page waits for a creation, it shows no new key.
WaitsForOne == creating => newKey = None

\* What the gateway has done for a creation by the time it has come so far.
\* A creation that was not sent has nothing.
StoresInOrder ==
    /\ \A k \in Key : creation[k] = "saved" => k \in rows
    /\ \A k \in Key : creation[k] = "created" => k \in rows \cap counters
    /\ disclosed \subseteq rows \cap counters

KeyInv ==
    /\ creation \in [Key -> Stages]
    /\ rows \subseteq Key /\ counters \subseteq Key
    /\ sent \in 0..MaxCreates
    /\ newKey \in Key \cup {Demo, None}
    /\ reloads \in Nat
    /\ creating => sent \in Key
    /\ WaitsForOne
    /\ StoresInOrder
-----------------------------------------------------------------------------
LEMMA KeyInit == Init => KeyInv
BY BoundAssumption DEF Init, KeyInv, Stages, WaitsForOne, StoresInOrder, Key

\* Every step keeps the invariant.
LEMMA KeyStep == KeyInv /\ [Next]_vars => KeyInv'
<1> SUFFICES ASSUME KeyInv, [Next]_vars PROVE KeyInv'
  OBVIOUS
<1> USE DEF KeyInv, Stages, WaitsForOne, StoresInOrder, serverVars, modalVars, listVars, visitVars
<1>1. ASSUME NEW k \in Key, Gateway(k) PROVE KeyInv'
  <2> USE DEF Enter, GatewayOnly
  <2>1. CASE Refuse(k)
    BY <2>1 DEF Refuse
  <2>2. CASE Save(k)
    BY <2>2 DEF Save
  <2>3. CASE Seed(k)
    BY <2>3 DEF Seed
  <2>4. CASE CreationFails(k)
    BY <2>4 DEF CreationFails
  <2> QED
    BY <1>1, <2>1, <2>2, <2>3, <2>4 DEF Gateway
<1>2. CASE ReadList \/ ListArrives \/ ListFails \/ OpenModal \/ Incomplete
  BY <1>2 DEF ReadList, ListArrives, ListFails, OpenModal, Incomplete, FormShown
<1>3. CASE CloseModal
  BY <1>3 DEF CloseModal
<1>4. CASE Create
  <2>1. sent + 1 \in Key /\ sent' = sent + 1
    BY <1>4, BoundAssumption DEF Create, Key
  <2>2. sent' \in 0..MaxCreates
    BY <2>1 DEF Key
  <2> QED
    BY <1>4, <2>1, <2>2 DEF Create, Enter, FormShown
<1>5. CASE Created
  BY <1>5 DEF Created
<1>6. CASE CreateError \/ RouteError \/ CreateDemo
  BY <1>6 DEF CreateError, RouteError, ShowError, CreateDemo
<1>7. CASE Remount
  BY <1>7 DEF Remount
<1>8. CASE UNCHANGED vars
  BY <1>8 DEF vars
<1> QED
  BY <1>1, <1>2, <1>3, <1>4, <1>5, <1>6, <1>7, <1>8 DEF Next, Page

LEMMA KeyAlways == Spec => []KeyInv
<1>1. QED
  BY KeyInit, KeyStep, PTL DEF Spec

\* A raw key that reached the page leaves it only with the modal that shows
\* it, or with the page: no reply and no list takes its place.
THEOREM NoKeyUnseen == Spec => RawKeySeen
<1>1. KeyInv /\ [Next]_vars =>
          [(newKey \in Key /\ newKey' # newKey) => KeyShown \/ reloads' # reloads]_vars
  <2> SUFFICES ASSUME KeyInv, [Next]_vars, newKey \in Key, newKey' # newKey, ~KeyShown
               PROVE  reloads' # reloads
    OBVIOUS
  <2>1. ~creating
    BY NameAssumption DEF KeyInv, WaitsForOne, Key
  <2>2. ASSUME NEW k \in Key, Gateway(k) PROVE FALSE
    BY <2>2 DEF Gateway, Refuse, Save, Seed, CreationFails, GatewayOnly, modalVars
  <2>3. CASE ReadList
    BY <2>3 DEF ReadList, modalVars
  <2>4. CASE Remount
    BY <2>4 DEF Remount, KeyInv
  <2>5. CASE Page /\ ~Remount
    BY <2>1, <2>5, NameAssumption
    DEF Page, ListArrives, ListFails, OpenModal, CloseModal, Incomplete, Create, Created,
        CreateError, RouteError, ShowError, CreateDemo, KeyShown, Key, modalVars
  <2>6. CASE UNCHANGED vars
    BY <2>6 DEF vars, modalVars
  <2> QED
    BY <2>2, <2>3, <2>4, <2>5, <2>6 DEF Next
<1>2. QED
  BY <1>1, KeyAlways, PTL DEF Spec, RawKeySeen

\* A raw key that reached the page is in Postgres and has its counter.
THEOREM DisclosedUsable == Spec => [](disclosed \subseteq rows \cap counters)
<1>1. KeyInv => disclosed \subseteq rows \cap counters
  BY DEF KeyInv, StoresInOrder
<1>2. QED
  BY <1>1, KeyAlways, PTL
-----------------------------------------------------------------------------
(***************************************************************************)
(* Types, and the list.  What was disclosed on an earlier visit is in      *)
(* Postgres when this visit asks for the list, so that the list has it     *)
(* once; and what the page adds afterwards is a key of this visit.         *)
(***************************************************************************)
Flags ==
    /\ authorized \in BOOLEAN /\ creating \in BOOLEAN /\ showModal \in BOOLEAN
    /\ formError \in BOOLEAN

ListTypes ==
    /\ list \in Seq(Key \cup {Demo, Mock})
    /\ listing \in {"sent", "read", "done"}
    /\ snapshot \in Seq(Key) \cup {None}
    /\ disclosed \subseteq Key /\ known \subseteq Key /\ abandoned \subseteq Key
    /\ reloads \in 0..MaxReloads
    /\ faults \in 0..MaxFaults

LEMMA TypeParts == TypeOK <=> (Flags /\ ListTypes /\ creation \in [Key -> Stages]
                               /\ rows \subseteq Key /\ counters \subseteq Key
                               /\ sent \in 0..MaxCreates /\ newKey \in Key \cup {Demo, None})
BY Zenon DEF TypeOK, Flags, ListTypes

LEMMA TypeInit == Init => TypeOK
<1> SUFFICES ASSUME Init PROVE TypeOK
  OBVIOUS
<1>1. Flags
  BY Zenon DEF Init, Flags
<1>2. ListTypes
  <2>1. <<>> \in Seq(Key \cup {Demo, Mock}) /\ <<>> \in Seq(Key)
    OBVIOUS
  <2>2. 0 \in 0..MaxFaults /\ 0 \in 0..MaxReloads
    BY BoundAssumption
  <2> QED
    BY <2>1, <2>2, Zenon DEF Init, ListTypes
<1>3. KeyInv
  BY KeyInit
<1> QED
  BY <1>1, <1>2, <1>3, TypeParts DEF KeyInv

LEMMA FlagsStep == Flags /\ [Next]_vars => Flags'
<1> SUFFICES ASSUME Flags, [Next]_vars PROVE Flags'
  OBVIOUS
<1> USE DEF Flags
<1>1. ASSUME NEW k \in Key, Gateway(k) PROVE Flags'
  BY <1>1, Zenon DEF Gateway, GatewayOnly, Refuse, Save, Seed, CreationFails, modalVars
<1>2. CASE ReadList \/ ListArrives \/ ListFails
  BY <1>2, Zenon DEF ReadList, ListArrives, ListFails, modalVars
<1>3. CASE OpenModal \/ CloseModal \/ Incomplete
  BY <1>3, Zenon DEF OpenModal, CloseModal, Incomplete
<1>4. CASE Create
  BY <1>4, Zenon DEF Create
<1>5. CASE Created \/ CreateError \/ RouteError \/ CreateDemo
  BY <1>5, Zenon DEF Created, CreateError, RouteError, ShowError, CreateDemo
<1>6. CASE Remount
  BY <1>6, Zenon DEF Remount
<1>7. CASE UNCHANGED vars
  BY <1>7, Zenon DEF vars, modalVars
<1> QED
  BY <1>1, <1>2, <1>3, <1>4, <1>5, <1>6, <1>7 DEF Next, Page

LEMMA ListTypesStep == ListTypes /\ KeyInv /\ [Next]_vars => ListTypes'
<1> SUFFICES ASSUME ListTypes, KeyInv, [Next]_vars PROVE ListTypes'
  OBVIOUS
<1> USE DEF ListTypes, modalVars, listVars, visitVars, Fault
<1>0. Key \in SUBSET Key /\ IsFiniteSet(Key)
  BY FS_Interval, BoundAssumption DEF Key
<1>1. ASSUME NEW k \in Key, Gateway(k) PROVE ListTypes'
  BY <1>1, BoundAssumption DEF Gateway, GatewayOnly, Refuse, Save, Seed, CreationFails
<1>2. CASE ReadList
  <2>1. Cardinality(rows) \in Nat
    BY <1>0, FS_Subset, FS_CardinalityType DEF KeyInv
  <2>2. ASSUME NEW s \in Listings PROVE s \in Seq(Key)
    BY <2>1, <2>2 DEF Listings, Bijection, Injection, KeyInv
  <2> QED
    BY <1>2, <2>2 DEF ReadList
<1>3. CASE ListArrives
  <2>1. <<Mock>> \in Seq(Key \cup {Demo, Mock})
    OBVIOUS
  <2>2. snapshot \in Seq(Key) => snapshot \in Seq(Key \cup {Demo, Mock})
    OBVIOUS
  <2>3. list' \in Seq(Key \cup {Demo, Mock})
    BY <1>3, <2>1, <2>2 DEF ListArrives
  <2>4. <<>> \in Seq(Key)
    OBVIOUS
  <2> QED
    BY <1>3, <2>3, <2>4 DEF ListArrives
<1>4. CASE ListFails
  <2>1. <<Mock>> \in Seq(Key \cup {Demo, Mock}) /\ <<>> \in Seq(Key)
    OBVIOUS
  <2>2. faults' \in 0..MaxFaults
    BY <1>4, BoundAssumption DEF ListFails
  <2> QED
    BY <1>4, <2>1, <2>2 DEF ListFails
<1>5. CASE OpenModal \/ CloseModal \/ Incomplete \/ Create
  BY <1>5 DEF OpenModal, CloseModal, Incomplete, Create
<1>6. ASSUME NEW x \in Key \cup {Demo}, list' = <<x>> \o list
      PROVE  list' \in Seq(Key \cup {Demo, Mock})
  BY <1>6
<1>7. CASE Created
  <2>1. sent \in Key
    BY <1>7 DEF Created, KeyInv
  <2> QED
    BY <1>6, <1>7, <2>1 DEF Created
<1>8. CASE CreateDemo
  BY <1>6, <1>8, BoundAssumption DEF CreateDemo
<1>9. CASE CreateError \/ RouteError
  BY <1>9, BoundAssumption DEF CreateError, RouteError, ShowError
<1>10. CASE Remount
  <2>1. <<>> \in Seq(Key) /\ <<>> \in Seq(Key \cup {Demo, Mock})
    OBVIOUS
  <2>2. reloads' \in 0..MaxReloads /\ abandoned' \subseteq Key
    BY <1>10, BoundAssumption DEF Remount, KeyInv
  <2> QED
    BY <1>10, <2>1, <2>2 DEF Remount
<1>11. CASE UNCHANGED vars
  BY <1>11 DEF vars
<1> QED
  BY <1>1, <1>2, <1>3, <1>4, <1>5, <1>7, <1>8, <1>9, <1>10, <1>11 DEF Next, Page

LEMMA TypeStep == TypeOK /\ KeyInv /\ [Next]_vars => TypeOK'
<1> SUFFICES ASSUME TypeOK, KeyInv, [Next]_vars PROVE TypeOK'
  OBVIOUS
<1>1. Flags' /\ ListTypes' /\ KeyInv'
  BY TypeParts, FlagsStep, ListTypesStep, KeyStep
<1>2. (Flags /\ ListTypes /\ KeyInv => TypeOK)'
  BY Zenon DEF TypeOK, Flags, ListTypes, KeyInv
<1> QED
  BY <1>1, <1>2

\* Type correctness of the page, the route and the gateway.
THEOREM TypeCorrect == Spec => []TypeOK
<1>1. QED
  BY TypeInit, TypeStep, KeyAlways, PTL DEF Spec

\* A creation that was not sent has left nothing, ...
OnlySent ==
    \A k \in Key : k > sent => creation[k] = "none" /\ k \notin rows /\ k \notin disclosed

\* ... and one the page still waits for is not disclosed.
NotYet == creating => sent \notin disclosed

Places(s, k) == {n \in DOMAIN s : s[n] = k}
Once(s, k)   == \E n \in DOMAIN s : Places(s, k) = {n}

\* The page shows a list of the gateway.
Genuine == listing = "done" /\ \A n \in DOMAIN list : list[n] # Mock

KnownFits ==
    /\ known \subseteq disclosed
    /\ listing = "read" /\ snapshot # None => \A k \in known : Once(snapshot, k)
    /\ Genuine => \A k \in known : Once(list, k)

ListInv == TypeOK /\ KeyInv /\ OnlySent /\ NotYet /\ KnownFits

LEMMA ListInit == Init => ListInv
<1> SUFFICES ASSUME Init PROVE ListInv
  OBVIOUS
<1>1. TypeOK /\ KeyInv
  BY TypeInit, KeyInit
<1> QED
  BY <1>1 DEF Init, ListInv, OnlySent, NotYet, KnownFits

LEMMA SentStep == ListInv /\ [Next]_vars => OnlySent' /\ NotYet'
<1> SUFFICES ASSUME ListInv, [Next]_vars PROVE OnlySent' /\ NotYet'
  OBVIOUS
<1> USE DEF ListInv, TypeOK, Stages, OnlySent, NotYet, serverVars, modalVars, listVars, Enter
<1>1. ASSUME NEW k \in Key, Gateway(k) PROVE OnlySent' /\ NotYet'
  BY <1>1 DEF Gateway, GatewayOnly, Refuse, Save, Seed, CreationFails
<1>2. CASE ReadList \/ ListArrives \/ ListFails \/ OpenModal \/ CloseModal \/ Incomplete
  BY <1>2 DEF ReadList, ListArrives, ListFails, OpenModal, CloseModal, Incomplete
<1>3. CASE Create
  BY <1>3, BoundAssumption DEF Create, Key
<1>4. CASE Created
  BY <1>4, BoundAssumption DEF Created, Key, KeyInv
<1>5. CASE CreateError \/ RouteError \/ CreateDemo
  BY <1>5 DEF CreateError, RouteError, ShowError, CreateDemo
<1>6. CASE Remount
  BY <1>6 DEF Remount
<1>7. CASE UNCHANGED vars
  BY <1>7 DEF vars
<1> QED
  BY <1>1, <1>2, <1>3, <1>4, <1>5, <1>6, <1>7 DEF Next, Page

\* An entry put in front of the list leaves the other keys where they are.
LEMMA Pushed ==
    ASSUME NEW S, NEW s \in Seq(S), NEW x \in S, NEW k, k # x, Once(s, k)
    PROVE  Once(<<x>> \o s, k)
<1> DEFINE t == <<x>> \o s
<1>1. /\ DOMAIN t = 1..(Len(s) + 1) /\ DOMAIN s = 1..Len(s) /\ Len(s) \in Nat
      /\ t[1] = x
      /\ \A n \in 1..Len(s) : t[n + 1] = s[n]
      /\ \A n \in 1..(Len(s) + 1) : n # 1 => n - 1 \in 1..Len(s) /\ t[n] = s[n - 1]
  OBVIOUS
<1>2. PICK n \in DOMAIN s : Places(s, k) = {n}
  BY DEF Once
<1> HIDE DEF t
<1>3. n + 1 \in DOMAIN t /\ t[n + 1] = k
  BY <1>1, <1>2 DEF Places
<1>4. ASSUME NEW m \in DOMAIN t, t[m] = k PROVE m = n + 1
  <2>1. m - 1 \in DOMAIN s /\ s[m - 1] = k
    BY <1>1, <1>4
  <2>2. m - 1 = n
    BY <1>2, <2>1 DEF Places
  <2> QED
    BY <1>1, <1>4, <2>2
<1>5. Places(t, k) = {n + 1}
  BY <1>3, <1>4 DEF Places
<1> QED
  BY <1>3, <1>5 DEF Once, t

\* The gateway lists a row once.
LEMMA Listed ==
    ASSUME NEW s \in Listings, NEW k \in rows
    PROVE  Once(s, k)
<1>1. s \in [1..Cardinality(rows) -> rows]
  BY DEF Listings, Bijection, Injection
<1>2. PICK n \in 1..Cardinality(rows) : s[n] = k
  BY DEF Listings, Bijection, Surjection
<1>3. \A m \in 1..Cardinality(rows) : s[m] = s[n] => m = n
  BY <1>1 DEF Listings, Bijection, Injection, IsInjective
<1> QED
  BY <1>1, <1>2, <1>3 DEF Once, Places

LEMMA KnownStep == ListInv /\ [Next]_vars => KnownFits'
<1> SUFFICES ASSUME ListInv, [Next]_vars PROVE KnownFits'
  OBVIOUS
<1> USE DEF ListInv, serverVars, modalVars, listVars, visitVars
\* Nothing happens to the list, ...
<1>1. ASSUME UNCHANGED <<listVars, disclosed, known>> PROVE KnownFits'
  BY <1>1 DEF KnownFits, Genuine, Once, Places
\* ... it is read in Postgres, where the known keys are, ...
<1>2. CASE ReadList
  <2>1. known \subseteq rows
    BY DEF KnownFits, KeyInv, StoresInOrder
  <2>2. snapshot' # None => \A k \in known : Once(snapshot', k)
    BY <1>2, <2>1, Listed DEF ReadList
  <2>3. known' = known /\ disclosed' = disclosed /\ listing' = "read"
    BY <1>2 DEF ReadList
  <2> HIDE DEF ListInv
  <2> QED
    BY <2>2, <2>3 DEF KnownFits, Genuine, ListInv, Once, Places
\* ... it arrives, or the page makes one up, ...
<1>3. CASE ListArrives
  <2>1. /\ known' = known /\ disclosed' = disclosed /\ listing' = "done"
        /\ snapshot # None => list' = snapshot
        /\ snapshot = None => list' = <<Mock>>
    BY <1>3 DEF ListArrives
  <2>2. CASE snapshot = None
    <3>1. ~Genuine'
      BY <2>1, <2>2 DEF Genuine
    <3> QED
      BY <2>1, <3>1 DEF KnownFits
  <2>3. CASE snapshot # None
    <3>1. \A k \in known : Once(snapshot, k)
      BY <1>3, <2>3 DEF KnownFits, ListArrives
    <3> QED
      BY <2>1, <2>3, <3>1 DEF KnownFits, Once, Places
  <2> QED
    BY <2>2, <2>3
<1>4. CASE ListFails
  <2>1. known' = known /\ disclosed' = disclosed /\ listing' = "done" /\ list' = <<Mock>>
    BY <1>4 DEF ListFails
  <2>2. ~Genuine'
    BY <2>1 DEF Genuine
  <2> QED
    BY <2>1, <2>2 DEF KnownFits
\* ... or an entry is put in front of it.
<1>5. ASSUME NEW x \in Key \cup {Demo}, x \notin known, list' = <<x>> \o list,
             UNCHANGED <<listing, snapshot, known>>, disclosed \subseteq disclosed'
      PROVE  KnownFits'
  <2>1. list \in Seq(Key \cup {Demo, Mock})
    BY DEF TypeOK
  <2>2. ASSUME Genuine' PROVE Genuine
    <3>1. \A n \in DOMAIN list : n + 1 \in DOMAIN list' /\ list'[n + 1] = list[n]
      BY <1>5, <2>1
    <3> QED
      BY <1>5, <2>2, <3>1 DEF Genuine
  <2>3. Genuine' => \A k \in known : Once(list', k)
    BY <1>5, <2>1, <2>2, Pushed DEF KnownFits
  <2>4. KnownFits /\ known' = known /\ listing' = listing /\ snapshot' = snapshot
    BY <1>5
  <2>5. known' \subseteq disclosed'
    BY <1>5, <2>4 DEF KnownFits
  <2> HIDE DEF ListInv
  <2> QED
    BY <2>3, <2>4, <2>5 DEF KnownFits
<1>6. CASE Created
  <2>1. sent \in Key /\ sent \notin known
    BY <1>6 DEF Created, NotYet, KnownFits, KeyInv
  <2> QED
    BY <1>5, <1>6, <2>1 DEF Created
<1>7. CASE CreateDemo
  <2>1. Demo \notin known
    BY NameAssumption DEF TypeOK, Key
  <2> QED
    BY <1>5, <1>7, <2>1 DEF CreateDemo
<1>8. CASE CreateError \/ RouteError \/ OpenModal \/ CloseModal \/ Incomplete \/ Create
  BY <1>1, <1>8 DEF CreateError, RouteError, ShowError, OpenModal, CloseModal, Incomplete, Create
<1>9. ASSUME NEW k \in Key, Gateway(k) PROVE KnownFits'
  BY <1>1, <1>9 DEF Gateway, GatewayOnly, Refuse, Save, Seed, CreationFails
<1>10. CASE Remount
  BY <1>10 DEF Remount, KnownFits, Genuine
<1>11. CASE UNCHANGED vars
  BY <1>1, <1>11 DEF vars
<1> QED
  BY <1>2, <1>3, <1>4, <1>6, <1>7, <1>8, <1>9, <1>10, <1>11 DEF Next, Page

\* Mounting the page again repairs its list, for any number of creations,
\* visits, faults and late replies: the gateway's list has every key disclosed
\* before once, and the page keeps it so.
THEOREM RemountRepairs == Spec => []ListRepaired
<1>1. ListInv /\ [Next]_vars => ListInv'
  BY TypeStep, KeyStep, SentStep, KnownStep DEF ListInv
<1>2. ListInv => ListRepaired
  <2> SUFFICES ASSUME ListInv, Genuine, NEW k \in known PROVE Occurrences(k) = 1
    BY DEF ListRepaired, Genuine
  <2>1. PICK n \in DOMAIN list : Places(list, k) = {n}
    BY DEF ListInv, KnownFits, Once
  <2>2. Cardinality({n}) = 1
    BY FS_Singleton
  <2> QED
    BY <2>1, <2>2 DEF Occurrences, Places
<1>3. QED
  BY <1>1, <1>2, ListInit, PTL DEF Spec
-----------------------------------------------------------------------------
(***************************************************************************)
(* Keys nobody knows.  A creation is given up only by a fault or by        *)
(* leaving the page, and then its key may be in the gateway already or     *)
(* still get there.                                                        *)
(***************************************************************************)
Unsaved == \A k \in Key : creation[k] \in {"none", "called"} => k \notin rows

\* Creations a fault hides from the page, and that left or may leave a key.
GivenUp ==
    {k \in Key : /\ k \notin disclosed /\ k \notin abandoned
                 /\ creation[k] # "none"
                 /\ creation[k] = "failed" => k \in rows
                 /\ creation[k] # "failed" => ~(k = sent /\ creating)}

LostInv ==
    /\ KeyInv /\ OnlySent /\ Unsaved
    /\ faults \in Nat
    /\ Cardinality(GivenUp) <= faults

LEMMA GivenUpFinite == IsFiniteSet(GivenUp) /\ Cardinality(GivenUp) \in Nat
<1>1. IsFiniteSet(Key)
  BY FS_Interval, BoundAssumption DEF Key
<1>2. GivenUp \subseteq Key
  BY DEF GivenUp
<1> QED
  BY <1>1, <1>2, FS_Subset, FS_CardinalityType

\* A set that does not grow, or grows by one.
LEMMA OneMore ==
    ASSUME NEW S, NEW T, IsFiniteSet(S), NEW m \in Nat, NEW n \in Nat, Cardinality(S) <= m,
           \/ T \subseteq S /\ m <= n
           \/ (\E x : T \subseteq S \cup {x}) /\ n = m + 1
    PROVE  Cardinality(T) <= n
<1>1. Cardinality(S) \in Nat
  BY FS_CardinalityType
<1>2. CASE T \subseteq S /\ m <= n
  <2>1. IsFiniteSet(T) /\ Cardinality(T) <= Cardinality(S)
    BY <1>2, FS_Subset
  <2>2. Cardinality(T) \in Nat
    BY <2>1, FS_CardinalityType
  <2> QED
    BY <1>1, <1>2, <2>1, <2>2
<1>3. ASSUME NEW x, T \subseteq S \cup {x}, n = m + 1 PROVE Cardinality(T) <= n
  <2>1. IsFiniteSet(S \cup {x})
    BY FS_AddElement
  <2>2. Cardinality(S \cup {x}) = Cardinality(S) \/ Cardinality(S \cup {x}) = Cardinality(S) + 1
    BY FS_AddElement
  <2>3. IsFiniteSet(T) /\ Cardinality(T) <= Cardinality(S \cup {x})
    BY <1>3, <2>1, FS_Subset
  <2>4. Cardinality(T) \in Nat
    BY <2>3, FS_CardinalityType
  <2> QED
    BY <1>1, <1>3, <2>2, <2>3, <2>4
<1> QED
  BY <1>2, <1>3

LEMMA LostInit == Init => LostInv
<1> SUFFICES ASSUME Init PROVE LostInv
  OBVIOUS
<1>1. GivenUp = {}
  BY DEF Init, GivenUp
<1>2. Cardinality(GivenUp) = 0
  BY <1>1, FS_EmptySet
<1> QED
  BY <1>2, KeyInit DEF Init, LostInv, OnlySent, Unsaved

LEMMA UnsavedStep == LostInv /\ [Next]_vars => OnlySent' /\ Unsaved'
<1> SUFFICES ASSUME LostInv, [Next]_vars PROVE OnlySent' /\ Unsaved'
  OBVIOUS
<1> USE DEF LostInv, KeyInv, Stages, OnlySent, Unsaved, serverVars, modalVars, listVars, visitVars,
            Enter
<1>1. ASSUME NEW k \in Key, Gateway(k) PROVE OnlySent' /\ Unsaved'
  BY <1>1, BoundAssumption DEF Gateway, GatewayOnly, Refuse, Save, Seed, CreationFails, Key
<1>2. CASE ReadList \/ ListArrives \/ ListFails \/ OpenModal \/ CloseModal \/ Incomplete
  BY <1>2 DEF ReadList, ListArrives, ListFails, OpenModal, CloseModal, Incomplete
<1>3. CASE Create
  BY <1>3, BoundAssumption DEF Create, Key
<1>4. CASE Created
  BY <1>4, BoundAssumption DEF Created, Key
<1>5. CASE CreateError \/ RouteError \/ CreateDemo
  BY <1>5 DEF CreateError, RouteError, ShowError, CreateDemo
<1>6. CASE Remount
  BY <1>6 DEF Remount
<1>7. CASE UNCHANGED vars
  BY <1>7 DEF vars
<1> QED
  BY <1>1, <1>2, <1>3, <1>4, <1>5, <1>6, <1>7 DEF Next, Page

LEMMA LostStep == LostInv /\ [Next]_vars => LostInv'
<1> SUFFICES ASSUME LostInv, [Next]_vars PROVE LostInv'
  OBVIOUS
<1>0. KeyInv' /\ OnlySent' /\ Unsaved'
  BY KeyStep, UnsavedStep DEF LostInv
<1>1. faults' \in Nat /\ faults <= faults'
  BY DEF LostInv, Next, Page, Gateway, GatewayOnly, Refuse, Save, Seed, CreationFails, Fault,
         ReadList, ListArrives, ListFails, OpenModal, CloseModal, Incomplete, Create, Created,
         CreateError, RouteError, ShowError, CreateDemo, Remount, vars
<1> USE DEF LostInv, KeyInv, Stages, GivenUp, serverVars, modalVars, listVars, visitVars, Enter
<1>2. \/ GivenUp' \subseteq GivenUp
      \/ (\E k \in Key : GivenUp' \subseteq GivenUp \cup {k}) /\ faults' = faults + 1
  <2>1. ASSUME NEW k \in Key, Refuse(k) \/ Save(k) \/ Seed(k) PROVE GivenUp' \subseteq GivenUp
    BY <2>1 DEF GatewayOnly, Refuse, Save, Seed, Unsaved
  <2>2. ASSUME NEW k \in Key, CreationFails(k)
        PROVE  GivenUp' \subseteq GivenUp \cup {k} /\ faults' = faults + 1
    BY <2>2 DEF GatewayOnly, CreationFails, Fault
  <2>3. CASE ReadList \/ ListArrives \/ ListFails \/ OpenModal \/ CloseModal \/ Incomplete
    BY <2>3 DEF ReadList, ListArrives, ListFails, OpenModal, CloseModal, Incomplete
  <2>4. CASE Create
    BY <2>4, BoundAssumption DEF Create, OnlySent, Key
  <2>5. CASE Created \/ CreateError
    BY <2>5 DEF Created, CreateError, ShowError
  <2>6. CASE RouteError \/ CreateDemo
    <3>1. sent \in Key /\ faults' = faults + 1
      BY <2>6 DEF RouteError, CreateDemo, ShowError, Fault
    <3>2. GivenUp' \subseteq GivenUp \cup {sent}
      BY <2>6 DEF RouteError, CreateDemo, ShowError
    <3> QED
      BY <3>1, <3>2
  <2>7. CASE Remount
    BY <2>7 DEF Remount
  <2>8. CASE UNCHANGED vars
    BY <2>8 DEF vars
  <2> QED
    BY <2>1, <2>2, <2>3, <2>4, <2>5, <2>6, <2>7, <2>8 DEF Next, Page, Gateway
<1>3. Cardinality(GivenUp') <= faults'
  <2> HIDE DEF GivenUp
  <2> QED
    BY <1>1, <1>2, GivenUpFinite, OneMore
<1> QED
  BY <1>0, <1>1, <1>3 DEF LostInv

\* A key nobody knows costs a fault or a visit to the page, and what is
\* disclosed can be used, for any number of creations, visits, faults and late
\* replies.
THEOREM Accounted == Spec => []KeysAccounted
<1>1. LostInv => KeysAccounted
  <2> SUFFICES ASSUME LostInv PROVE KeysAccounted
    OBVIOUS
  <2> DEFINE Hidden == {k \in rows \ (disclosed \cup abandoned) :
                           ~(k = sent /\ creating /\ creation[k] \in {"saved", "created"})}
  <2>1. Hidden \subseteq GivenUp
    BY DEF LostInv, KeyInv, Unsaved, GivenUp, Stages
  <2>2. Cardinality(Hidden) <= Cardinality(GivenUp) /\ Cardinality(Hidden) \in Nat
    BY <2>1, GivenUpFinite, FS_Subset, FS_CardinalityType
  <2>3. disclosed \subseteq rows \cap counters
    BY DEF LostInv, KeyInv, StoresInOrder
  <2> QED
    BY <2>2, <2>3, GivenUpFinite DEF KeysAccounted, LostInv
<1>2. QED
  BY <1>1, LostInit, LostStep, PTL DEF Spec
-----------------------------------------------------------------------------
(***************************************************************************)
(* Health.  Only a check that is being served has pings, and each of them  *)
(* waits in the queue of Redis at most once, so what a ping finds is found *)
(* while its check is under way, and what the store is then has been seen  *)
(* by the check.                                                           *)
(***************************************************************************)

Answered == Status \cup {"away"}

Shapes ==
    /\ store \in [Store -> Answered] /\ store["postgres"] # "away"
    /\ request \in [Check -> {"none", "sent", "pinging", "broken"}]
    /\ ping \in [Check -> [Store -> Status \cup {"none", "waiting"}]]
    /\ queue \in Seq(Check)
    /\ seen \in [Check -> [Store -> SUBSET Answered]]

\* The commands in the queue are those of checks being served, one for each.
QueueFits ==
    /\ \A n \in DOMAIN queue : request[queue[n]] = "pinging" /\ ping[queue[n]]["redis"] = "waiting"
    /\ \A m, n \in DOMAIN queue : queue[m] = queue[n] => m = n
    /\ \A c \in Check : \A s \in Store : ping[c][s] # "none" => request[c] = "pinging"

\* A check has seen what the stores are, and what its pings have found.
SeenFits ==
    \A c \in Check : \A s \in Store :
        /\ request[c] \in {"sent", "pinging"} => store[s] \in seen[c][s]
        /\ ping[c][s] \in Status => ping[c][s] \in seen[c][s]

HealthInv == Shapes /\ QueueFits /\ SeenFits /\ ReportIsReal
-----------------------------------------------------------------------------
LEMMA HealthInvInit == HealthInit => HealthInv
<1> SUFFICES ASSUME HealthInit PROVE HealthInv
  OBVIOUS
<1>1. Shapes
  BY DEF HealthInit, Shapes, Answered, NoPings, Nothing, Store
<1>2. QueueFits /\ SeenFits
  BY DEF HealthInit, QueueFits, SeenFits, NoPings, Status
<1>3. ReportIsReal
  BY DEF HealthInit, ReportIsReal, NoHealth
<1> QED
  BY <1>1, <1>2, <1>3 DEF HealthInv

\* A request that goes out.
LEMMA SendStep == ASSUME HealthInv, NEW c \in Check, Send(c), UNCHANGED health PROVE HealthInv'
<1> USE DEF HealthInv
<1>1. Shapes'
  BY DEF Send, Shapes, Answered
<1>2. QueueFits'
  BY DEF Send, QueueFits, Shapes
<1>3. SeenFits'
  BY DEF Send, SeenFits, Shapes, QueueFits, Status
<1>4. ReportIsReal'
  BY DEF Send, ReportIsReal
<1> QED
  BY <1>1, <1>2, <1>3, <1>4

\* A check that ends, with a report that was seen or the mock.
LEMMA ShowStep ==
    ASSUME HealthInv, NEW c \in Check, NEW h, Show(c, h), queue' \in Seq(Check),
           \A n \in DOMAIN queue' : queue'[n] # c /\ \E m \in DOMAIN queue : queue'[n] = queue[m],
           \A m, n \in DOMAIN queue' : queue'[m] = queue'[n] => m = n,
           h.from = "gateway" => \A s \in Store : h[s] \in seen[c][s]
    PROVE  HealthInv'
<1> USE DEF HealthInv
<1>1. Shapes'
  BY DEF Show, Shapes, NoPings, Nothing
<1>2. QueueFits'
  BY DEF Show, QueueFits, Shapes, NoPings
<1>3. SeenFits'
  BY DEF Show, SeenFits, Shapes, NoPings, Status
<1>4. ReportIsReal'
  BY DEF Show, ReportIsReal, Shapes
<1> QED
  BY <1>1, <1>2, <1>3, <1>4

\* Taking one command out of the queue leaves the others, in their order.
LEMMA Withdrawn ==
    ASSUME Shapes, QueueFits, NEW c \in Check, Withdraw(c)
    PROVE  /\ queue' \in Seq(Check)
           /\ \A n \in DOMAIN queue' : queue'[n] # c /\ \E m \in DOMAIN queue : queue'[n] = queue[m]
           /\ \A m, n \in DOMAIN queue' : queue'[m] = queue'[n] => m = n
<1>1. CASE c \notin Range(queue) /\ UNCHANGED queue
  BY <1>1 DEF Range, Shapes, QueueFits
<1>2. ASSUME NEW n \in DOMAIN queue, queue[n] = c, queue' = RemoveAt(queue, n)
      PROVE  /\ queue' \in Seq(Check)
             /\ DOMAIN queue' = 1..(Len(queue) - 1)
             /\ \A i \in DOMAIN queue' : queue'[i] = IF i < n THEN queue[i] ELSE queue[i + 1]
  <2>1. queue \in Seq(Check) /\ n \in 1..Len(queue)
    BY DEF Shapes
  <2> DEFINE a == SubSeq(queue, 1, n - 1)
             b == SubSeq(queue, n + 1, Len(queue))
  <2>2. a \in Seq(Check) /\ Len(a) = n - 1 /\ \A i \in 1..(n - 1) : a[i] = queue[i]
    BY <2>1
  <2>3. b \in Seq(Check) /\ Len(b) = Len(queue) - n /\ \A i \in 1..(Len(queue) - n) : b[i] = queue[i + n]
    BY <2>1
  <2>4. queue' = a \o b
    BY <1>2 DEF RemoveAt
  <2> HIDE DEF a, b
  <2>5. /\ a \o b \in Seq(Check) /\ Len(a \o b) = Len(a) + Len(b)
        /\ \A i \in 1..Len(a) + Len(b) : (a \o b)[i] = IF i <= Len(a) THEN a[i] ELSE b[i - Len(a)]
    BY <2>2, <2>3, ConcatProperties
  <2>6. queue' \in Seq(Check) /\ DOMAIN queue' = 1..(Len(queue) - 1)
    <3>1. Len(a) + Len(b) = Len(queue) - 1
      BY <2>1, <2>2, <2>3
    <3> QED
      BY <2>4, <2>5, <3>1
  <2>7. ASSUME NEW i \in 1..(Len(queue) - 1)
        PROVE  queue'[i] = IF i < n THEN queue[i] ELSE queue[i + 1]
    <3>1. Len(queue) \in Nat /\ Len(a) + Len(b) = Len(queue) - 1
      BY <2>1, <2>2, <2>3
    <3>2. CASE i < n
      <4>1. queue'[i] = a[i] /\ i \in 1..(n - 1)
        BY <2>1, <2>2, <2>4, <2>5, <3>1, <3>2
      <4> QED
        BY <2>2, <3>2, <4>1
    <3>3. CASE ~(i < n)
      <4>0. i \in 1..(Len(a) + Len(b)) /\ ~(i <= Len(a)) /\ Len(a) = n - 1
        BY <2>1, <2>2, <3>1, <3>3
      <4>1. queue'[i] = b[i - (n - 1)] /\ i - (n - 1) \in 1..(Len(queue) - n)
        <5>1. (a \o b)[i] = b[i - Len(a)]
          BY <2>5, <4>0
        <5>2. i - (n - 1) \in 1..(Len(queue) - n)
          BY <2>1, <3>1, <3>3
        <5> QED
          BY <2>4, <4>0, <5>1, <5>2
      <4>2. b[i - (n - 1)] = queue[(i - (n - 1)) + n]
        BY <2>3, <4>1
      <4>3. (i - (n - 1)) + n = i + 1
        BY <2>1
      <4> QED
        BY <3>3, <4>1, <4>2, <4>3
    <3> QED
      BY <3>2, <3>3
  <2> QED
    BY <2>6, <2>7
<1>3. CASE \E n \in DOMAIN queue : queue[n] = c /\ queue' = RemoveAt(queue, n)
  <2>1. PICK n \in DOMAIN queue : queue[n] = c /\ queue' = RemoveAt(queue, n)
    BY <1>3
  <2>2. n \in 1..Len(queue) /\ Len(queue) \in Nat /\ DOMAIN queue = 1..Len(queue)
    BY DEF Shapes
  <2>3. /\ queue' \in Seq(Check) /\ DOMAIN queue' = 1..(Len(queue) - 1)
        /\ \A i \in DOMAIN queue' : queue'[i] = IF i < n THEN queue[i] ELSE queue[i + 1]
    BY <1>2, <2>1
  <2>4. ASSUME NEW i \in DOMAIN queue'
        PROVE  queue'[i] # c /\ \E m \in DOMAIN queue : queue'[i] = queue[m]
    BY <2>1, <2>2, <2>3 DEF QueueFits
  <2>5. ASSUME NEW i \in DOMAIN queue', NEW j \in DOMAIN queue', queue'[i] = queue'[j]
        PROVE  i = j
    <3> DEFINE at(x) == IF x < n THEN x ELSE x + 1
    <3>1. queue'[i] = queue[at(i)] /\ queue'[j] = queue[at(j)]
      BY <2>3
    <3>2. at(i) \in DOMAIN queue /\ at(j) \in DOMAIN queue
      BY <2>2, <2>3
    <3>3. at(i) = at(j)
      BY <2>5, <3>1, <3>2 DEF QueueFits
    <3> QED
      BY <2>2, <2>3, <3>3
  <2> QED
    BY <2>3, <2>4, <2>5
<1> QED
  BY <1>1, <1>3 DEF Withdraw

\* The gateway and the stores leave the page alone.
LEMMA ServeStep ==
    ASSUME HealthInv,
           CheckRedis \/ (\E c \in Check : Handle(c) \/ CheckPostgres(c)) \/ GatewayCrash
               \/ \E s \in Store : \E a \in Answers(s) : StoreChanges(s, a)
    PROVE  HealthInv'
<1> USE DEF HealthInv
<1>1. ReportIsReal'
  BY DEF ReportIsReal, CheckRedis, Handle, CheckPostgres, GatewayCrash, StoreChanges, stillVars,
         pageVars
<1>2. ASSUME NEW c \in Check, Handle(c) PROVE HealthInv'
  <2>1. Shapes'
    BY <1>2 DEF Handle, Shapes, stillVars
  <2>2. QueueFits'
    <3>1. \A n \in DOMAIN queue : queue[n] # c
      BY <1>2 DEF Handle, QueueFits
    <3>2. /\ DOMAIN queue' = 1..(Len(queue) + 1) /\ queue'[Len(queue) + 1] = c
          /\ Len(queue) \in Nat /\ DOMAIN queue = 1..Len(queue)
          /\ \A n \in DOMAIN queue : queue'[n] = queue[n]
      BY <1>2 DEF Handle, Shapes
    <3>3. request' = [request EXCEPT ![c] = "pinging"]
      BY <1>2 DEF Handle
    <3>4. \A n \in DOMAIN queue' : request'[queue'[n]] = "pinging" /\ ping'[queue'[n]]["redis"] = "waiting"
      <4>1. /\ request'[c] = "pinging" /\ ping'[c]["redis"] = "waiting"
            /\ \A d \in Check : d # c => request'[d] = request[d] /\ ping'[d] = ping[d]
        BY <1>2, <3>3 DEF Handle, Shapes, Store
      <4>2. \A n \in DOMAIN queue : queue[n] \in Check
        BY DEF Shapes
      <4> QED
        BY <3>1, <3>2, <4>1, <4>2 DEF QueueFits
    <3>5. \A m, n \in DOMAIN queue' : queue'[m] = queue'[n] => m = n
      BY <3>1, <3>2 DEF QueueFits
    <3>6. \A d \in Check : \A s \in Store : ping'[d][s] # "none" => request'[d] = "pinging"
      BY <1>2, <3>3 DEF Handle, QueueFits, Shapes
    <3> QED
      BY <3>4, <3>5, <3>6 DEF QueueFits
  <2>3. SeenFits'
    BY <1>2 DEF Handle, SeenFits, Shapes, Status, stillVars
  <2> QED
    BY <1>1, <2>1, <2>2, <2>3
<1>3. ASSUME NEW c \in Check, CheckPostgres(c) PROVE HealthInv'
  <2>1. "postgres" \in Store /\ store["postgres"] \in Status /\ store["postgres"] \in seen[c]["postgres"]
    BY <1>3 DEF CheckPostgres, Shapes, Answered, Status, Store, QueueFits, SeenFits
  <2>2. ping' = [ping EXCEPT ![c] = [ping[c] EXCEPT !["postgres"] = store["postgres"]]]
    BY <1>3 DEF CheckPostgres
  <2>3. Shapes'
    BY <1>3, <2>1, <2>2 DEF CheckPostgres, Shapes, stillVars
  <2>4. QueueFits'
    BY <1>3, <2>1, <2>2 DEF CheckPostgres, QueueFits, Shapes
  <2>5. SeenFits'
    BY <1>3, <2>1, <2>2 DEF CheckPostgres, SeenFits, Shapes, stillVars
  <2> QED
    BY <1>1, <2>3, <2>4, <2>5
<1>4. CASE CheckRedis
  <2> DEFINE c == Head(queue)
  <2>1. c \in Check /\ request[c] = "pinging" /\ c = queue[1]
    BY <1>4 DEF CheckRedis, Shapes, QueueFits
  <2>2. "redis" \in Store /\ store["redis"] \in Status /\ store["redis"] \in seen[c]["redis"]
    BY <1>4, <2>1 DEF CheckRedis, Shapes, Answered, Status, Store, SeenFits
  <2>3. ping' = [ping EXCEPT ![c] = [ping[c] EXCEPT !["redis"] = store["redis"]]]
    BY <1>4 DEF CheckRedis
  <2>4. /\ queue' \in Seq(Check) /\ DOMAIN queue' = 1..(Len(queue) - 1)
        /\ \A n \in DOMAIN queue' : queue'[n] = queue[n + 1] /\ n + 1 \in DOMAIN queue
    BY <1>4 DEF CheckRedis, Shapes
  <2> HIDE DEF c
  <2>5. UNCHANGED <<store, request, seen>>
    BY <1>4 DEF CheckRedis, stillVars
  <2>6. Shapes'
    BY <2>1, <2>2, <2>3, <2>4, <2>5 DEF Shapes
  <2>7. QueueFits'
    BY <2>1, <2>2, <2>3, <2>4, <2>5 DEF QueueFits, Shapes
  <2>8. SeenFits'
    BY <2>1, <2>2, <2>3, <2>5 DEF SeenFits, Shapes
  <2> QED
    BY <1>1, <2>6, <2>7, <2>8
<1>5. CASE GatewayCrash
  <2>1. Shapes'
    BY <1>5 DEF GatewayCrash, Shapes, NoPings
  <2>2. QueueFits'
    BY <1>5 DEF GatewayCrash, QueueFits, NoPings
  <2>3. SeenFits'
    BY <1>5 DEF GatewayCrash, SeenFits, Shapes, NoPings, Status
  <2> QED
    BY <1>1, <2>1, <2>2, <2>3
<1>6. ASSUME NEW s \in Store, NEW a \in Answers(s), StoreChanges(s, a) PROVE HealthInv'
  <2>1. a \in Answered /\ (s = "postgres" => a # "away")
    BY DEF Answers, Answered, Status
  <2>2. /\ store' = [store EXCEPT ![s] = a] /\ UNCHANGED <<request, ping, queue>>
        /\ seen' = [c \in Check |-> IF request[c] \in {"sent", "pinging"}
                                    THEN [seen[c] EXCEPT ![s] = seen[c][s] \cup {a}] ELSE seen[c]]
    BY <1>6 DEF StoreChanges, gatewayVars
  <2>3. Shapes'
    BY <2>1, <2>2 DEF Shapes, Store
  <2>4. QueueFits'
    BY <2>2 DEF QueueFits
  <2>5. SeenFits'
    BY <2>1, <2>2 DEF SeenFits, Shapes
  <2> QED
    BY <1>1, <2>3, <2>4, <2>5
<1> QED
  BY <1>2, <1>3, <1>4, <1>5, <1>6

LEMMA HealthStep == HealthInv /\ [HealthNext]_healthVars => HealthInv'
<1> SUFFICES ASSUME HealthInv, [HealthNext]_healthVars PROVE HealthInv'
  OBVIOUS
<1>1. ASSUME NEW c \in Check, Open(c) \/ Poll(c) \/ Refresh(c) PROVE HealthInv'
  BY <1>1, SendStep DEF Open, Poll, Refresh
<1>2. CASE Leave
  BY <1>2 DEF Leave, HealthInv, Shapes, QueueFits, SeenFits, ReportIsReal, NoPings, Nothing,
              NoHealth, Status
<1>3. ASSUME NEW c \in Check, Arrive(c) PROVE HealthInv'
  <2> DEFINE h == [from |-> "gateway", postgres |-> ping[c].postgres, redis |-> ping[c].redis]
  <2>1. \A s \in Store : ping[c][s] \in Status
    BY <1>3 DEF Arrive, BothAnswered
  <2>2. \A s \in Store : h[s] \in seen[c][s]
    BY <2>1 DEF HealthInv, SeenFits, Store
  <2>3. \A n \in DOMAIN queue : queue[n] # c
    BY <2>1 DEF HealthInv, QueueFits, Status, Store
  <2>4. queue' = queue /\ queue \in Seq(Check) /\ \A m, n \in DOMAIN queue : queue[m] = queue[n] => m = n
    BY <1>3 DEF Arrive, HealthInv, Shapes, QueueFits
  <2>5. h.from = "gateway" /\ Show(c, h)
    BY <1>3 DEF Arrive
  <2> HIDE DEF h
  <2> QED
    BY <2>2, <2>3, <2>4, <2>5, ShowStep
<1>4. ASSUME NEW c \in Check, FetchFails(c) PROVE HealthInv'
  <2>1. MockHealth.from # "gateway"
    BY DEF MockHealth
  <2> QED
    BY <1>4, <2>1, Withdrawn, ShowStep DEF FetchFails, HealthInv
<1>5. ASSUME NEW c \in Check, CrashIsSeen(c) PROVE HealthInv'
  <2>1. MockHealth.from # "gateway"
    BY DEF MockHealth
  <2>2. \A n \in DOMAIN queue : queue[n] # c
    BY <1>5 DEF CrashIsSeen, HealthInv, QueueFits
  <2> QED
    BY <1>5, <2>1, <2>2, ShowStep DEF CrashIsSeen, HealthInv, Shapes, QueueFits
<1>6. CASE UNCHANGED healthVars
  BY <1>6 DEF healthVars, gatewayVars, pageVars, HealthInv, Shapes, QueueFits, SeenFits,
              ReportIsReal
<1> QED
  BY <1>1, <1>2, <1>3, <1>4, <1>5, <1>6, ServeStep DEF HealthNext, User, CheckStep, Faults

\* However many checks overlap, in whatever order they end, the page never shows
\* of a store what it has not been since the check was sent.
THEOREM ReportsAreReal == HealthSpec => []ReportIsReal
<1>1. HealthInv => ReportIsReal
  BY DEF HealthInv
<1>2. QED
  BY <1>1, HealthInvInit, HealthStep, PTL DEF HealthSpec
-----------------------------------------------------------------------------
\* Type correctness: what is left of it is the page's own state and the bounds.
Reports == [from : {"nobody", "mock", "gateway"}, postgres : Status, redis : Status]

PageTypes ==
    /\ mounted \in BOOLEAN /\ loading \in BOOLEAN
    /\ health \in Reports
    /\ shown \in [Store -> SUBSET Answered]
    /\ changes \in 0..MaxChanges /\ breaks \in 0..MaxBreaks /\ visits \in 0..MaxVisits

LEMMA OwnReports == NoHealth \in Reports /\ MockHealth \in Reports /\ Nothing \in [Store -> SUBSET Answered]
BY DEF NoHealth, MockHealth, Nothing, Reports, Status

LEMMA PageTypesStep == HealthInv /\ PageTypes /\ [HealthNext]_healthVars => PageTypes'
<1> SUFFICES ASSUME HealthInv, PageTypes, [HealthNext]_healthVars PROVE PageTypes'
  OBVIOUS
<1> USE HealthAssumption DEF PageTypes
<1>1. ASSUME NEW c \in Check, Open(c) \/ Poll(c) \/ Refresh(c) PROVE PageTypes'
  <2>1. changes' \in 0..MaxChanges /\ breaks' \in 0..MaxBreaks /\ visits' \in 0..MaxVisits
    BY <1>1 DEF Open, Poll, Refresh, Send
  <2>2. mounted' \in BOOLEAN /\ loading' \in BOOLEAN
    BY <1>1 DEF Open, Poll, Refresh, Send
  <2>3. UNCHANGED <<health, shown>>
    BY <1>1 DEF Open, Poll, Refresh, Send
  <2> QED
    BY <2>1, <2>2, <2>3
<1>2. CASE Leave
  <2>1. health' = NoHealth /\ shown' = Nothing
    BY <1>2 DEF Leave
  <2>2. health' \in Reports /\ shown' \in [Store -> SUBSET Answered]
    BY <2>1, OwnReports
  <2>3. mounted' \in BOOLEAN /\ loading' \in BOOLEAN /\ UNCHANGED <<visits, changes, breaks>>
    BY <1>2 DEF Leave
  <2> QED
    BY <2>2, <2>3
<1>3. ASSUME NEW c \in Check, Arrive(c) PROVE PageTypes'
  <2>1. ping[c].postgres \in Status /\ ping[c].redis \in Status /\ seen[c] \in [Store -> SUBSET Answered]
    BY <1>3 DEF Arrive, BothAnswered, Store, HealthInv, Shapes
  <2> QED
    BY <1>3, <2>1 DEF Arrive, Show, Reports
<1>4. ASSUME NEW c \in Check, FetchFails(c) \/ CrashIsSeen(c) PROVE PageTypes'
  <2>1. seen[c] \in [Store -> SUBSET Answered]
    BY DEF HealthInv, Shapes
  <2> QED
    <3>1. health' \in Reports
      BY <1>4, OwnReports DEF FetchFails, CrashIsSeen, Show
    <3>2. changes' \in 0..MaxChanges /\ breaks' \in 0..MaxBreaks /\ visits' \in 0..MaxVisits
      BY <1>4 DEF FetchFails, CrashIsSeen, Show
    <3>3. mounted' \in BOOLEAN /\ loading' \in BOOLEAN /\ shown' \in [Store -> SUBSET Answered]
      BY <1>4, <2>1 DEF FetchFails, CrashIsSeen, Show
    <3> QED
      BY <3>1, <3>2, <3>3
<1>5. CASE CheckRedis \/ (\E c \in Check : Handle(c) \/ CheckPostgres(c)) \/ GatewayCrash
  BY <1>5 DEF CheckRedis, Handle, CheckPostgres, GatewayCrash, stillVars, pageVars
<1>6. ASSUME NEW s \in Store, NEW a \in Answers(s), StoreChanges(s, a) PROVE PageTypes'
  BY <1>6 DEF StoreChanges, pageVars
<1>7. CASE UNCHANGED healthVars
  BY <1>7 DEF healthVars, pageVars
<1> QED
  BY <1>1, <1>2, <1>3, <1>4, <1>5, <1>6, <1>7 DEF HealthNext, User, CheckStep, Faults

THEOREM HealthTypeCorrect == HealthSpec => []HealthTypeOK
<1>1. HealthInit => PageTypes
  <2> SUFFICES ASSUME HealthInit PROVE PageTypes
    OBVIOUS
  <2>1. health \in Reports /\ shown \in [Store -> SUBSET Answered]
    <3>1. health = NoHealth /\ shown = Nothing
      BY DEF HealthInit
    <3> QED
      BY <3>1, OwnReports
  <2>2. changes \in 0..MaxChanges /\ breaks \in 0..MaxBreaks /\ visits \in 0..MaxVisits
    BY HealthAssumption DEF HealthInit
  <2>3. mounted \in BOOLEAN /\ loading \in BOOLEAN
    BY DEF HealthInit
  <2> QED
    BY <2>1, <2>2, <2>3 DEF PageTypes
<1>2. HealthInv /\ PageTypes => HealthTypeOK
  BY DEF HealthInv, Shapes, PageTypes, Reports, HealthTypeOK, Answered
<1>3. QED
  BY <1>1, <1>2, PageTypesStep, HealthInvInit, HealthStep, PTL DEF HealthSpec
=============================================================================
