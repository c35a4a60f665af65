---------------------------- MODULE ImageLibrary ----------------------------
(***************************************************************************)
(* The image library of the playground: kernels and filesystems in an      *)
(* IndexedDB database (images/store.ts), the list of them the page shows   *)
(* (components/ImageLibrary.tsx), and the two images the form has picked   *)
(* (app/page.tsx).                                                         *)
(*                                                                         *)
(* Every change is asynchronous, and several may be under way at once: the *)
(* button that removes an image is never disabled.  Each is a job: work on *)
(* the database, then a refresh of the list.  A transaction of the         *)
(* database takes effect and is answered as a whole, and answers come in   *)
(* the order of the transactions, so that a refresh is one step.           *)
(*                                                                         *)
(* Image i is the i-th that was ever stored; an id is never used again.    *)
(***************************************************************************)
EXTENDS Naturals

CONSTANTS
    MaxImages,  \* bound: how many images are ever stored
    MaxJobs     \* bound: how many jobs are under way at once

ASSUME LibraryAssumption == MaxImages \in Nat /\ MaxJobs \in Nat \ {0}

Images == 1..MaxImages
Jobs == 1..MaxJobs
None == 0

Slots == {"kernel", "rootfs"}

VARIABLES
    stored,     \* how many images were ever stored
    library,    \* the images in the database
    images,     \* the images the page lists
    picked,     \* the image in each slot of the form, or None
    jobs,       \* what is under way
    busy,       \* does the page show that it is working?
    problem     \* does the page show an error?

vars == <<stored, library, images, picked, jobs, busy, problem>>

Idle == [kind |-> "idle"]
List == [kind |-> "list"]
Add(files) == [kind |-> "add", files |-> files]
Refresh == [kind |-> "refresh"]

(* unpick: the slots that held the image when its button was drawn.        *)
Removal(image, unpick) == [kind |-> "remove", image |-> image, unpick |-> unpick]
Removed(job) == [job EXCEPT !.kind = "removed"]

JobStates ==
    {Idle, List, Refresh} \cup {Add(files) : files \in 1..2}
    \cup [kind : {"remove", "removed"}, image : Images, unpick : SUBSET Slots]

TypeOK ==
    /\ stored \in 0..MaxImages
    /\ library \subseteq 1..stored /\ images \subseteq 1..stored
    /\ picked \in [Slots -> 0..stored]
    /\ jobs \in [Jobs -> JobStates]
    /\ busy \in BOOLEAN /\ problem \in BOOLEAN

(* The page is loaded over whatever earlier visits left in the database    *)
(* and in the saved form, which may name images that are gone.             *)
Init ==
    /\ stored \in 0..MaxImages
    /\ library \in SUBSET (1..stored)
    /\ images = {}
    /\ picked \in [Slots -> 0..stored]
    /\ jobs = [j \in Jobs |-> IF j = 1 THEN List ELSE Idle]
    /\ busy = FALSE /\ problem = FALSE

---------------------------------------------------------------------------
(* What the user asks for.                                                 *)

(* An image that sits in a slot is taken out of it by a second click.      *)
Pick(slot, image) ==
    /\ image \in images
    /\ picked' = [picked EXCEPT ![slot] = IF @ = image THEN None ELSE image]
    /\ UNCHANGED <<stored, library, images, jobs, busy, problem>>

Begin(j, job) ==
    /\ jobs[j] = Idle
    /\ jobs' = [jobs EXCEPT ![j] = job]
    /\ busy' = TRUE /\ problem' = FALSE
    /\ UNCHANGED <<stored, library, images, picked>>

BeginAdd(j) ==
    /\ ~busy
    /\ \E files \in 1..2 : Begin(j, Add(files))

BeginRemove(j) ==
    \E image \in images :
        Begin(j, Removal(image, {slot \in Slots : picked[slot] = image}))

---------------------------------------------------------------------------
(* What becomes of it.                                                     *)

(* One file is put into the database under a new id.                       *)
Put(j) ==
    /\ jobs[j].kind = "add"
    /\ stored < MaxImages
    /\ stored' = stored + 1
    /\ library' = library \cup {stored + 1}
    /\ jobs' = [jobs EXCEPT ![j] = IF @.files = 1 THEN Refresh
                                                  ELSE Add(@.files - 1)]
    /\ UNCHANGED <<images, picked, busy, problem>>

Delete(j) ==
    /\ jobs[j].kind = "remove"
    /\ library' = library \ {jobs[j].image}
    /\ jobs' = [jobs EXCEPT ![j] = Removed(@)]
    /\ UNCHANGED <<stored, images, picked, busy, problem>>

(* The page hears that the image is gone, and takes it out of the slots it *)
(* saw it in.                                                              *)
Unpick(j) ==
    /\ jobs[j].kind = "removed"
    /\ picked' = [slot \in Slots |-> IF slot \in jobs[j].unpick THEN None
                                                       ELSE picked[slot]]
    /\ jobs' = [jobs EXCEPT ![j] = Refresh]
    /\ UNCHANGED <<stored, library, images, busy, problem>>

(* busy is one flag: whoever ends clears it, also for the others.          *)
Relist(j) ==
    /\ jobs[j].kind \in {"list", "refresh"}
    /\ images' = library
    /\ busy' = (busy /\ jobs[j] = List)
    /\ jobs' = [jobs EXCEPT ![j] = Idle]
    /\ UNCHANGED <<stored, library, picked, problem>>

(* Seeded fault: an error ends the job and is not shown.                   *)
FailsSilently(j) ==
    /\ jobs[j].kind \notin {"idle", "removed"}
    /\ busy' = (busy /\ jobs[j] = List)
    /\ jobs' = [jobs EXCEPT ![j] = Idle]
    /\ UNCHANGED <<stored, library, images, picked, problem>>

(* A download, a transaction or the refresh fails: what was done before it *)
(* stays done, and the refresh does not happen.                            *)
Fails(j) ==
    /\ jobs[j].kind \notin {"idle", "removed"}
    /\ problem' = TRUE
    /\ busy' = (busy /\ jobs[j] = List)
    /\ jobs' = [jobs EXCEPT ![j] = Idle]
    /\ UNCHANGED <<stored, library, images, picked>>

Next ==
    \/ \E slot \in Slots, image \in images : Pick(slot, image)
    \/ \E j \in Jobs : \/ BeginAdd(j) \/ BeginRemove(j)
                       \/ Put(j) \/ Delete(j) \/ Unpick(j)
                       \/ Relist(j) \/ Fails(j)

Spec == Init /\ [][Next]_vars

---------------------------------------------------------------------------
(* The images a boot asks for.                                             *)

(* Seeded fault: the form's picks are taken as they are.                   *)
SettledAsPicked == picked

(* What the form has picked and the page still lists.                      *)
Settled ==
    [slot \in Slots |-> IF picked[slot] \in images THEN picked[slot] ELSE None]

Needs == {Settled[slot] : slot \in Slots} \ {None}

AtRest == \A j \in Jobs : jobs[j] = Idle

(***************************************************************************)
(* A list that differs from the database while nothing is under way is     *)
(* announced by an error.  Jobs overlap, clear each other's error and each *)
(* other's busy flag, may fail after they changed the database, and skip   *)
(* the refresh when they do (ImageLibrary.tsx run).                        *)
(***************************************************************************)
StaleListIsAnnounced == AtRest /\ images # library => problem

(***************************************************************************)
(* A boot asked for while the library is at rest and shows no error names  *)
(* only images that are in the database, although the form may still pick  *)
(* images that are gone: it was saved by an earlier visit, or the image    *)
(* was picked after the click that removed it (page.tsx:92-113,            *)
(* ImageLibrary.tsx:237-245).                                              *)
(***************************************************************************)
BootsAreStocked == AtRest /\ ~problem => Needs \subseteq library
=============================================================================
