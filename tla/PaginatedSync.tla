--------------------------- MODULE PaginatedSync ---------------------------
(***************************************************************************)
(* execute_paginated_capability (connectors/contract/executor.py) of one   *)
(* job: each page is fetched, landed as an immutable object with a row in  *)
(* raw_landings (raw_landing.py), and then the checkpoint is saved         *)
(* (checkpoint_store.py).  The worker may die between any two of these     *)
(* steps, and the job may be called again with the same job_id; nothing in *)
(* the repository but its tests does that, so nothing here relies on it.   *)
(* The database errors of the two repositories are swallowed               *)
(* (REQUIRE_REALDB is set in CI only).                                     *)
(*                                                                         *)
(* A page is its number and the version of its contents; a continuation    *)
(* token stands for the page it leads to, and every page counts as one     *)
(* record.  max_pages, which ends a call after a checkpoint, has the same  *)
(* effect on the stored state as a death at that point.                    *)
(***************************************************************************)
EXTENDS Naturals

CONSTANTS
  Pages,        \* number of pages the provider has
  MaxVersion,   \* bound: versions of a page's contents
  MaxKills,     \* bound: deaths of the worker
  MaxFaults,    \* bound: database calls that raise
  MaxFailures   \* bound: page fetches that fail for good or are repeated

ASSUME PagesAssumption ==
  /\ Pages \in Nat \ {0}
  /\ MaxVersion \in Nat \ {0}
  /\ MaxKills \in Nat
  /\ MaxFaults \in Nat
  /\ MaxFailures \in Nat

VARIABLES
  version,    \* version of each page the provider serves
  objects,    \* version of each page in the object store; 0: none
  landings,   \* raw_landings rows of each page
  chk,        \* the job's row in connector_checkpoints
  place,      \* where the call is
  page,       \* current_page
  records,    \* records_so_far
  got,        \* version of the page that was fetched
  kills,      \* deaths of the worker
  lost,       \* history: those after a page was landed and before its checkpoint counted
  faults,     \* database calls that have raised
  failures    \* fetches that have failed or are repeated

stored == <<objects, landings, chk>>
counts == <<kills, lost, faults, failures>>
pagedVars == <<version, stored, place, page, records, got, counts>>

PageNumbers == 1..Pages

PagedTypeOK ==
  /\ version \in [PageNumbers -> 1..MaxVersion]
  /\ objects \in [PageNumbers -> 0..MaxVersion]
  /\ landings \in [PageNumbers -> Nat]
  /\ chk \in [page : 0..Pages, records : 0..Pages, status : {"NONE", "IN_PROGRESS", "COMPLETED"}]
  /\ place \in {"idle", "fetch", "land", "record", "save", "return", "returned"}
  /\ page \in PageNumbers
  /\ records \in 0..Pages
  /\ got \in 0..MaxVersion
  /\ kills \in Nat /\ lost \in Nat /\ faults \in Nat /\ failures \in Nat

PagedInit ==
  /\ version = [p \in PageNumbers |-> 1]
  /\ objects = [p \in PageNumbers |-> 0]
  /\ landings = [p \in PageNumbers |-> 0]
  /\ chk = [page |-> 0, records |-> 0, status |-> "NONE"]
  /\ place = "idle"
  /\ page = 1 /\ records = 0 /\ got = 0
  /\ kills = 0 /\ lost = 0 /\ faults = 0 /\ failures = 0

\* A database call raises.
Fault == faults < MaxFaults /\ faults' = faults + 1

\* The call ends, or its process dies, and its variables are gone.
Leave(l) == place' = l /\ page' = 1 /\ records' = 0 /\ got' = 0

-----------------------------------------------------------------------------
\* Mutant of Resume: the records counted before the interruption are forgotten.
ResumeUncounted == page' = chk.page + 1 /\ records' = 0

\* The page after the checkpoint's, with the records counted so far.
Resume == page' = chk.page + 1 /\ records' = chk.records

\* Mutant of Start: every call begins with page 1.
StartOver ==
  /\ place = "idle" /\ place' = "fetch" /\ page' = 1 /\ records' = 0
  /\ UNCHANGED <<version, stored, got, counts>>

\* The lookup of the checkpoint: a job in progress is resumed, any other one, and
\* one whose checkpoint cannot be read, begins with page 1.
Start ==
  /\ place = "idle" /\ place' = "fetch"
  /\ \/ chk.status = "IN_PROGRESS" /\ Resume /\ UNCHANGED faults
     \/ chk.status # "IN_PROGRESS" /\ page' = 1 /\ records' = 0 /\ UNCHANGED faults
     \/ page' = 1 /\ records' = 0 /\ Fault
  /\ UNCHANGED <<version, stored, got, kills, lost, failures>>

\* Mutant of Fetch: the page is not landed.
FetchOnly ==
  /\ place = "fetch" /\ place' = "save"
  /\ UNCHANGED <<version, stored, page, records, got, counts>>

\* execute_capability fetches the page, or gives up and raises.
Fetch ==
  /\ place = "fetch"
  /\ \/ place' = "land" /\ got' = version[page] /\ UNCHANGED <<page, records, failures>>
     \/ failures < MaxFailures /\ failures' = failures + 1 /\ Leave("idle")
  /\ UNCHANGED <<version, stored, kills, lost, faults>>

\* land_raw_payload: an object with other contents is left alone and the landing
\* raises; otherwise it is written, again if it is there.  execute_capability passes
\* the exception on, or takes it for throttling, because the name of the object in
\* its text holds "429", and fetches the page again.
Put ==
  /\ place = "land"
  /\ \/ /\ objects[page] \in {0, got}
        /\ objects' = [objects EXCEPT ![page] = got]
        /\ place' = "record" /\ UNCHANGED <<page, records, got, failures>>
     \/ objects[page] \notin {0, got} /\ UNCHANGED <<objects, failures>> /\ Leave("idle")
     \/ /\ objects[page] \notin {0, got} /\ UNCHANGED objects
        /\ failures < MaxFailures /\ failures' = failures + 1
        /\ place' = "fetch" /\ got' = 0 /\ UNCHANGED <<page, records>>
  /\ UNCHANGED <<version, landings, chk, kills, lost, faults>>

\* The row of raw_landings, under a new identifier every time.
Record ==
  /\ place = "record" /\ place' = "save"
  /\ \/ landings' = [landings EXCEPT ![page] = @ + 1] /\ UNCHANGED faults
     \/ landings' \in {landings, [landings EXCEPT ![page] = @ + 1]} /\ Fault
  /\ UNCHANGED <<version, objects, chk, page, records, got, kills, lost, failures>>

\* Mutant of Checkpoint: it is saved with the numbers of the page before.
CheckpointBehind ==
  [page |-> page - 1, records |-> records,
   status |-> IF page < Pages THEN "IN_PROGRESS" ELSE "COMPLETED"]

\* The checkpoint of the page just landed.
Checkpoint ==
  [page |-> page, records |-> records + 1,
   status |-> IF page < Pages THEN "IN_PROGRESS" ELSE "COMPLETED"]

\* save_checkpoint, and on to the next page if there is one.
Save ==
  /\ place = "save"
  /\ \/ chk' = Checkpoint /\ UNCHANGED faults
     \/ chk' \in {chk, Checkpoint} /\ Fault
  /\ records' = records + 1 /\ got' = 0
  /\ \/ page < Pages /\ page' = page + 1 /\ place' = "fetch"
     \/ page = Pages /\ UNCHANGED page /\ place' = "return"
  /\ UNCHANGED <<version, objects, landings, kills, lost, failures>>

Return ==
  /\ place = "return" /\ Leave("returned")
  /\ UNCHANGED <<version, stored, counts>>

-----------------------------------------------------------------------------
Kill ==
  /\ place \notin {"idle", "returned"} /\ kills < MaxKills
  /\ kills' = kills + 1
  /\ lost' = IF place \in {"record", "save", "return"} THEN lost + 1 ELSE lost
  /\ Leave("idle")
  /\ UNCHANGED <<version, stored, faults, failures>>

\* The provider's data change under the job.
Change(p) ==
  /\ version[p] < MaxVersion
  /\ version' = [version EXCEPT ![p] = @ + 1]
  /\ UNCHANGED <<stored, place, page, records, got, counts>>

Step == Start \/ Fetch \/ Put \/ Record \/ Save \/ Return

PagedNext == Step \/ Kill \/ \E p \in PageNumbers : Change(p)

PagedSpec == PagedInit /\ [][PagedNext]_pagedVars

-----------------------------------------------------------------------------
\* Zero lost records: the checkpoint never runs ahead of the landed pages, so a job
\* that resumes after it, or is COMPLETED, has skipped nothing.
CheckpointIsBacked ==
  /\ \A p \in PageNumbers : p <= chk.page => objects[p] # 0
  /\ chk.status = "COMPLETED" => chk.page = Pages

\* records_ingested counts every page up to the checkpoint once, also after
\* interruptions and restarts.
RecordsCountedOnce == chk.records = chk.page

\* Landings cannot be overwritten, by a repeated call either.
LandingsImmutable ==
  [][\A p \in PageNumbers : objects[p] # 0 => objects'[p] = objects[p]]_pagedVars

\* Zero duplicate records, as far as it holds: while the database answers, a page is
\* recorded a second time only for a worker that died between the landing of a page
\* and the return of its checkpoint.
DuplicatesNeedCrash ==
  faults = 0 => \A p \in PageNumbers : landings[p] <= 1 + lost

\* Resumption "without restarting from page 1" (checkpoint_store.py): while the
\* database answers, the checkpoint of a job that is not COMPLETED goes forward, a
\* page at a time, over deaths, failed fetches and repeated calls.
CheckpointAdvances ==
  [][(faults' = 0 /\ chk' # chk /\ chk.status # "COMPLETED") => chk'.page = chk.page + 1]_pagedVars

\* "Guaranteed resumption of interrupted/killed sync jobs" (checkpoint_store.py), as
\* far as it holds: a page whose contents have changed is refused by an immutable
\* landing of the job's own, but while the database answers only after a worker died
\* between the landing of a page and the return of its checkpoint; failed fetches and
\* other deaths leave nothing in the way of the next call.
RefusalNeedsCrash ==
  (faults = 0 /\ lost = 0 /\ place = "land") => objects[page] \in {0, got}

=============================================================================
