------------------------------ MODULE KeyAdmin ------------------------------
(***************************************************************************)
(* Creating and listing virtual keys: the page app/keys in a browser, the  *)
(* route api/admin/keys of the frontend's server, which adds the admin     *)
(* token, and AdminController behind AdminGuard in the gateway, which      *)
(* saves the key's row in Postgres, sets its counter in Redis and returns  *)
(* the raw key, the only time anybody sees it.                             *)
(*                                                                         *)
(* A creation that the route or the browser has given up goes on in the    *)
(* gateway, also when the page is left or loaded again, which forgets all  *)
(* the page holds.  Keys are named by the creation that makes them.        *)
(***************************************************************************)
EXTENDS Integers, FiniteSetsExt, SequencesExt

CONSTANTS
    MaxCreates, \* bound: creations
    MaxFaults,  \* bound: failing statements, crashes and lost replies
    MaxReloads, \* bound: how often the page is left and mounted again
    Demo,       \* a raw key the page makes up, and its entry in the list
    Mock,       \* an entry of MOCK_KEYS
    None

ASSUME BoundAssumption == MaxCreates \in Nat /\ MaxFaults \in Nat /\ MaxReloads \in Nat
ASSUME NameAssumption  == /\ {Demo, Mock, None} \cap (1..MaxCreates) = {}
                          /\ Cardinality({Demo, Mock, None}) = 3

VARIABLES
    authorized, \* does the route's ADMIN_TOKEN satisfy AdminGuard?
    creation,   \* how far each creation is in the gateway
    rows,       \* the keys in virtual_keys
    counters,   \* the keys with a counter in Redis
    sent,       \* how many creations the page has sent
    creating,   \* does it wait for the last one?
    showModal, newKey, formError,
    list,       \* the keys the page shows
    listing,    \* its request for the list: "sent", "read" or "done"
    snapshot,   \* what the gateway answered it
    disclosed,  \* history: the raw keys that reached the page
    known,      \* history: those that reached it before it was last mounted
    abandoned,  \* history: the creations it was waiting for when it was left
    reloads,    \* how often it was mounted again
    faults      \* faults so far

serverVars == <<creation, rows, counters>>
modalVars  == <<showModal, newKey, formError>>
listVars   == <<list, listing, snapshot>>
visitVars == <<known, abandoned, reloads>>
vars == <<authorized, serverVars, sent, creating, modalVars, listVars, disclosed, visitVars, faults>>

Key    == 1..MaxCreates
Stages == {"none", "called", "saved", "created", "failed"}

TypeOK ==
    /\ authorized \in BOOLEAN
    /\ creation \in [Key -> Stages]
    /\ rows \subseteq Key
    /\ counters \subseteq Key
    /\ sent \in 0..MaxCreates
    /\ creating \in BOOLEAN
    /\ showModal \in BOOLEAN
    /\ newKey \in Key \cup {Demo, None}
    /\ formError \in BOOLEAN
    /\ list \in Seq(Key \cup {Demo, Mock})
    /\ listing \in {"sent", "read", "done"}
    /\ snapshot \in Seq(Key) \cup {None}
    /\ disclosed \subseteq Key
    /\ known \subseteq Key
    /\ abandoned \subseteq Key
    /\ reloads \in 0..MaxReloads
    /\ faults \in 0..MaxFaults

Init ==
    /\ authorized \in BOOLEAN
    /\ creation = [k \in Key |-> "none"]
    /\ rows = {}
    /\ counters = {}
    /\ sent = 0
    /\ creating = FALSE
    /\ showModal = FALSE
    /\ newKey = None
    /\ formError = FALSE
    /\ list = <<>>
    /\ listing = "sent"
    /\ snapshot = <<>>
    /\ disclosed = {}
    /\ known = {}
    /\ abandoned = {}
    /\ reloads = 0
    /\ faults = 0
-----------------------------------------------------------------------------
Fault == faults < MaxFaults /\ faults' = faults + 1

Enter(k, s) == creation' = [creation EXCEPT ![k] = s]

(***************************************************************************)
(* The gateway.                                                            *)
(***************************************************************************)
GatewayOnly == UNCHANGED <<authorized, sent, creating, modalVars, listVars, disclosed, visitVars>>

\* AdminGuard refuses the token, or the body is not a CreateKeyDto.
Refuse(k) ==
    /\ creation[k] = "called"
    /\ Enter(k, "failed")
    /\ GatewayOnly
    /\ UNCHANGED <<rows, counters, faults>>

\* virtualKeyRepo.save(entity)
Save(k) ==
    /\ creation[k] = "called"
    /\ authorized
    /\ Enter(k, "saved")
    /\ rows' = rows \cup {k}
    /\ GatewayOnly
    /\ UNCHANGED <<counters, faults>>

\* Mutant: the reply does not wait for the counter.
SeedLater(k) ==
    /\ creation[k] = "saved"
    /\ Enter(k, "created")
    /\ GatewayOnly
    /\ UNCHANGED <<rows, counters, faults>>

\* redis.set(`budget:${saved.id}`, '0'), and the reply with the raw key.
Seed(k) ==
    /\ creation[k] = "saved"
    /\ Enter(k, "created")
    /\ counters' = counters \cup {k}
    /\ GatewayOnly
    /\ UNCHANGED <<rows, faults>>

\* A statement fails, before or after it took effect, or the gateway dies.
CreationFails(k) ==
    /\ Fault
    /\ creation[k] \in {"called", "saved"}
    /\ \/ UNCHANGED <<rows, counters>>
       \/ creation[k] = "called" /\ authorized /\ rows' = rows \cup {k} /\ UNCHANGED counters
       \/ creation[k] = "saved" /\ counters' = counters \cup {k} /\ UNCHANGED rows
    /\ Enter(k, "failed")
    /\ GatewayOnly

\* Mutant: a list cached before some of the rows were saved.
ListingsCached == UNION {Bijection(1..Cardinality(S), S) : S \in SUBSET rows}

\* Every row once, in the order of their times of creation, which need not be
\* the order in which the page sent them.
Listings == Bijection(1..Cardinality(rows), rows)

\* listKeys, or the guard's refusal, which is not an array.
ReadList ==
    /\ listing = "sent"
    /\ listing' = "read"
    /\ snapshot' \in IF authorized THEN Listings ELSE {None}
    /\ UNCHANGED <<authorized, serverVars, sent, creating, modalVars, list, disclosed, visitVars, faults>>

(***************************************************************************)
(* The page.                                                               *)
(***************************************************************************)
\* What arrives replaces whatever the page shows, by MOCK_KEYS if it is no list.
ListArrives ==
    /\ listing = "read"
    /\ listing' = "done"
    /\ list' = IF snapshot = None THEN <<Mock>> ELSE snapshot
    /\ snapshot' = <<>>
    /\ UNCHANGED <<authorized, serverVars, sent, creating, modalVars, disclosed, visitVars, faults>>

\* The route loses the gateway, or the browser the route: MOCK_KEYS again.
ListFails ==
    /\ Fault
    /\ listing # "done"
    /\ listing' = "done"
    /\ list' = <<Mock>>
    /\ snapshot' = <<>>
    /\ UNCHANGED <<authorized, serverVars, sent, creating, modalVars, disclosed, visitVars>>

\* The modal shows the form, or the new key in its place.
FormShown == showModal /\ newKey = None
KeyShown  == showModal /\ newKey # None

\* Mutant: "+ Create Key" starts with an empty form, and no new key.
OpenModalFresh ==
    /\ ~showModal
    /\ showModal' = TRUE
    /\ newKey' = None
    /\ UNCHANGED <<authorized, serverVars, sent, creating, formError, listVars, disclosed, visitVars, faults>>

OpenModal ==
    /\ ~showModal
    /\ showModal' = TRUE
    /\ UNCHANGED <<authorized, serverVars, sent, creating, newKey, formError, listVars, disclosed, visitVars, faults>>

\* Cancel, Done, or a click beside the modal, also while a creation is under way.
CloseModal ==
    /\ showModal
    /\ showModal' = FALSE
    /\ newKey' = None
    /\ formError' = FALSE
    /\ UNCHANGED <<authorized, serverVars, sent, creating, listVars, disclosed, visitVars, faults>>

\* createKey, whose button is disabled while creating, with an incomplete form ...
Incomplete ==
    /\ FormShown /\ ~creating
    /\ formError' = TRUE
    /\ UNCHANGED <<authorized, serverVars, sent, creating, showModal, newKey, listVars, disclosed, visitVars, faults>>

\* ... and with a complete one.
Create ==
    /\ FormShown /\ ~creating
    /\ sent < MaxCreates
    /\ sent' = sent + 1
    /\ creating' = TRUE
    /\ formError' = FALSE
    /\ Enter(sent + 1, "called")
    /\ UNCHANGED <<authorized, rows, counters, showModal, newKey, listVars, disclosed, visitVars, faults>>

\* The raw key arrives.
Created ==
    /\ creating
    /\ creation[sent] = "created"
    /\ newKey' = sent
    /\ list' = <<sent>> \o list
    /\ disclosed' = disclosed \cup {sent}
    /\ creating' = FALSE
    /\ UNCHANGED <<authorized, serverVars, sent, showModal, formError, listing, snapshot, visitVars, faults>>

ShowError ==
    /\ creating
    /\ formError' = TRUE
    /\ creating' = FALSE
    /\ UNCHANGED <<authorized, serverVars, sent, showModal, newKey, listVars, disclosed, visitVars>>

\* An error of the gateway arrives ...
CreateError == ShowError /\ creation[sent] = "failed" /\ UNCHANGED faults

\* ... or the 502 of the route, which lost the gateway.
RouteError == ShowError /\ Fault

\* The browser lost the route: the page makes a key up.
CreateDemo ==
    /\ creating
    /\ Fault
    /\ newKey' = Demo
    /\ list' = <<Demo>> \o list
    /\ creating' = FALSE
    /\ UNCHANGED <<authorized, serverVars, sent, showModal, formError, listing, snapshot, disclosed, visitVars>>

\* The page is left and mounted again, or loaded again: it starts afresh, and
\* replies to what it had asked for do not reach it any more.
Remount ==
    /\ reloads < MaxReloads
    /\ reloads' = reloads + 1
    /\ known' = disclosed
    /\ abandoned' = IF creating THEN abandoned \cup {sent} ELSE abandoned
    /\ creating' = FALSE
    /\ showModal' = FALSE
    /\ newKey' = None
    /\ formError' = FALSE
    /\ list' = <<>>
    /\ listing' = "sent"
    /\ snapshot' = <<>>
    /\ UNCHANGED <<authorized, serverVars, sent, disclosed, faults>>
-----------------------------------------------------------------------------
Gateway(k) ==
    \/ Refuse(k)
    \/ Save(k)
    \/ Seed(k)
    \/ CreationFails(k)

Page ==
    \/ ListArrives
    \/ ListFails
    \/ OpenModal
    \/ CloseModal
    \/ Incomplete
    \/ Create
    \/ Created
    \/ CreateError
    \/ RouteError
    \/ CreateDemo
    \/ Remount

Next ==
    \/ \E k \in Key : Gateway(k)
    \/ ReadList
    \/ Page

Spec == Init /\ [][Next]_vars
-----------------------------------------------------------------------------
(***************************************************************************)
(* Properties.                                                             *)
(***************************************************************************)

\* A raw key that reaches the page can be used at once, with its counter set
\* (so that its first checks need not seed it); and a key nobody knows is
\* there only because of a fault, one key for each, or because the page was
\* left while it waited for that key.
KeysAccounted ==
    /\ disclosed \subseteq rows \cap counters
    /\ Cardinality({k \in rows \ (disclosed \cup abandoned) :
                        ~(k = sent /\ creating /\ creation[k] \in {"saved", "created"})}) <= faults

\* "The raw key will be shown exactly once": it is taken away only by closing
\* the modal that shows it, also if it arrives while the modal is closed, or
\* by leaving the page.
RawKeySeen ==
    [][(newKey \in Key /\ newKey' # newKey) => KeyShown \/ reloads' # reloads]_vars

Occurrences(k) == Cardinality({n \in DOMAIN list : list[n] = k})

\* Whatever the race of the list with a creation (page.tsx:79 replaces what
\* :107 has added) and late replies have done to the page, a key missing or
\* shown twice, mounting the page again repairs it: once the gateway's list is
\* shown, every key disclosed on an earlier visit is in it once, for as long as
\* the visit lasts.
ListRepaired ==
    listing = "done" /\ (\A n \in DOMAIN list : list[n] # Mock) =>
        \A k \in known : Occurrences(k) = 1
=============================================================================
