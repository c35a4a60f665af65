---------------------------- MODULE Page_proofs -----------------------------
(***************************************************************************)
(* Theorems about ImageLibrary and ConfigForm: for any number of images    *)
(* and of jobs under way at once; and for any changes of the form and any  *)
(* forms that were saved before.                                           *)
(***************************************************************************)
EXTENDS ImageLibrary, ConfigForm, SequenceTheorems, TLAPS
LOCAL INSTANCE SequencesExt
WF == INSTANCE WellFoundedInduction

-----------------------------------------------------------------------------
(* The image library.                                                      *)

(* The variables have their types initially.                               *)
LEMMA TypeInit ==
    ASSUME Init
    PROVE  TypeOK
<1> USE LibraryAssumption DEF Init, TypeOK, JobStates
<1>1. jobs \in [Jobs -> JobStates] BY DEF JobStates
<1>2. images \subseteq 1 .. stored OBVIOUS
<1>3. QED BY <1>1, <1>2

(* Every step keeps the types: in particular an image that is listed, is   *)
(* in the database or sits in a slot is one that was stored.               *)
LEMMA TypeStep ==
    ASSUME TypeOK, [Next]_vars
    PROVE  TypeOK'
<1> USE LibraryAssumption DEF TypeOK, Images
<1>1. ASSUME NEW slot \in Slots, NEW image \in images, Pick(slot, image)
      PROVE  TypeOK'
  <2>1. picked' \in [Slots -> 0 .. stored] BY <1>1 DEF Pick, None
  <2>2. QED BY <1>1, <2>1 DEF Pick
<1>2. ASSUME NEW j \in Jobs, BeginAdd(j)
      PROVE  TypeOK'
  <2>1. PICK files \in 1 .. 2 : Begin(j, Add(files)) BY <1>2 DEF BeginAdd
  <2>2. Add(files) \in JobStates BY DEF JobStates
  <2>3. QED BY <2>1, <2>2 DEF Begin
<1>3. ASSUME NEW j \in Jobs, BeginRemove(j)
      PROVE  TypeOK'
  <2>1. PICK image \in images :
            Begin(j, Removal(image, {slot \in Slots : picked[slot] = image}))
    BY <1>3 DEF BeginRemove
  <2>2. image \in Images OBVIOUS
  <2>3. {slot \in Slots : picked[slot] = image} \in SUBSET Slots OBVIOUS
  <2>4. Removal(image, {slot \in Slots : picked[slot] = image}) \in JobStates
    BY <2>2, <2>3 DEF JobStates, Removal
  <2>5. QED BY <2>1, <2>4 DEF Begin
<1>4. ASSUME NEW j \in Jobs, Put(j)
      PROVE  TypeOK'
  <2>1. stored' \in 0 .. MaxImages /\ 1 .. stored \subseteq 1 .. stored' /\ stored' \in 1 .. stored'
    BY <1>4 DEF Put
  <2>2. \A i \in 0 .. stored : i \in 0 .. stored' BY <1>4 DEF Put
  <2>3. jobs[j] \in JobStates OBVIOUS
  <2>4. \E files \in 1 .. 2 : jobs[j] = Add(files)
    BY <1>4, <2>3 DEF Put, JobStates, Idle, List, Refresh, Add
  <2>5. PICK files \in 1 .. 2 : jobs[j] = Add(files) BY <2>4
  <2>6. jobs[j].files = files BY <2>5 DEF Add
  <2>7. Refresh \in JobStates /\ (files # 1 => Add(files - 1) \in JobStates)
    <3>1. files # 1 => files - 1 \in 1 .. 2 OBVIOUS
    <3>2. QED BY <3>1 DEF JobStates
  <2>8. jobs' \in [Jobs -> JobStates] BY <1>4, <2>6, <2>7 DEF Put
  <2>9. library' \subseteq 1 .. stored' BY <1>4, <2>1 DEF Put
  <2>10. picked' \in [Slots -> 0 .. stored'] BY <1>4, <2>2 DEF Put
  <2>11. images' \subseteq 1 .. stored' BY <1>4, <2>1 DEF Put
  <2>12. QED BY <1>4, <2>1, <2>8, <2>9, <2>10, <2>11 DEF Put
<1>5. ASSUME NEW j \in Jobs, Delete(j)
      PROVE  TypeOK'
  <2>1. jobs[j] \in [kind : {"remove", "removed"}, image : Images, unpick : SUBSET Slots]
    BY <1>5 DEF Delete, JobStates, Idle, List, Refresh, Add
  <2>2. Removed(jobs[j]) \in JobStates BY <2>1 DEF Removed, JobStates
  <2>3. jobs' \in [Jobs -> JobStates] BY <1>5, <2>2 DEF Delete
  <2>4. QED BY <1>5, <2>3 DEF Delete
<1>6. ASSUME NEW j \in Jobs, Unpick(j)
      PROVE  TypeOK'
  <2>1. picked' \in [Slots -> 0 .. stored] BY <1>6 DEF Unpick, None
  <2>2. jobs' \in [Jobs -> JobStates] BY <1>6 DEF Unpick, JobStates
  <2>3. QED BY <1>6, <2>1, <2>2 DEF Unpick
<1>7. ASSUME NEW j \in Jobs, Relist(j) \/ Fails(j)
      PROVE  TypeOK'
  <2>1. jobs' \in [Jobs -> JobStates] BY <1>7 DEF Relist, Fails, JobStates
  <2>2. (busy /\ jobs[j] = List) \in BOOLEAN OBVIOUS
  <2>3. QED BY <1>7, <2>1, <2>2 DEF Relist, Fails
<1>8. CASE UNCHANGED vars BY <1>8 DEF vars
<1>9. QED BY <1>1, <1>2, <1>3, <1>4, <1>5, <1>6, <1>7, <1>8 DEF Next

-----------------------------------------------------------------------------
(* The only ways to come to rest are a refresh, which makes the list that  *)
(* of the database, and an error, which is shown: a difference is shown or *)
(* some job has still to end.                                              *)
StaleIsPending == images # library => problem \/ \E j \in Jobs : jobs[j] # Idle

(* StaleIsPending holds initially: the first job is the first listing.     *)
LEMMA StaleInit ==
    ASSUME Init
    PROVE  StaleIsPending
BY LibraryAssumption DEF Init, StaleIsPending, Jobs, List, Idle

(* Every step keeps it: a job that begins clears the error of an earlier   *)
(* one, but has its own end before it.                                     *)
LEMMA StaleStep ==
    ASSUME TypeOK, StaleIsPending, [Next]_vars
    PROVE  StaleIsPending'
<1> USE DEF StaleIsPending, TypeOK
<1>1. ASSUME NEW slot \in Slots, NEW image \in images, Pick(slot, image)
      PROVE  StaleIsPending'
  BY <1>1 DEF Pick
<1>2. ASSUME NEW j \in Jobs, NEW job, job # Idle, Begin(j, job)
      PROVE  StaleIsPending'
  BY <1>2 DEF Begin
<1>3. ASSUME NEW j \in Jobs, BeginAdd(j) \/ BeginRemove(j)
      PROVE  StaleIsPending'
  <2>1. \A files : Add(files) # Idle BY DEF Add, Idle
  <2>2. \A image, unpick : Removal(image, unpick) # Idle BY DEF Removal, Idle
  <2>3. QED BY <1>2, <1>3, <2>1, <2>2 DEF BeginAdd, BeginRemove
<1>4. ASSUME NEW j \in Jobs, Put(j)
      PROVE  StaleIsPending'
  BY <1>4 DEF Put, Refresh, Add, Idle
<1>5. ASSUME NEW j \in Jobs, Delete(j)
      PROVE  StaleIsPending'
  <2>1. Removed(jobs[j]) # Idle
    <3>1. jobs[j] \in [kind : {"remove", "removed"}, image : Images, unpick : SUBSET Slots]
      BY <1>5 DEF Delete, JobStates, Idle, List, Refresh, Add
    <3>2. Removed(jobs[j]).kind = "removed" BY <3>1 DEF Removed
    <3>3. QED BY <3>2 DEF Idle
  <2>2. QED BY <1>5, <2>1 DEF Delete
<1>6. ASSUME NEW j \in Jobs, Unpick(j)
      PROVE  StaleIsPending'
  BY <1>6 DEF Unpick, Refresh, Idle
<1>7. ASSUME NEW j \in Jobs, Relist(j) \/ Fails(j)
      PROVE  StaleIsPending'
  BY <1>7 DEF Relist, Fails
<1>8. CASE UNCHANGED vars BY <1>8 DEF vars
<1>9. QED BY <1>1, <1>3, <1>4, <1>5, <1>6, <1>7, <1>8 DEF Next

(* A boot names only what the page lists.                                  *)
LEMMA NeedsAreListed ==
    ASSUME TypeOK
    PROVE  Needs \subseteq images
BY DEF TypeOK, Needs, Settled

-----------------------------------------------------------------------------
(* What is listed, stored and picked was stored once, and every job is one *)
(* of those that the page starts.                                          *)
THEOREM TypeCorrect == Spec => []TypeOK
BY TypeInit, TypeStep, PTL DEF Spec

(* A list that is not that of the database while nothing is under way is   *)
(* announced.                                                              *)
THEOREM StaleListsAreAnnounced == Spec => []StaleListIsAnnounced
<1>1. StaleIsPending => StaleListIsAnnounced BY DEF StaleIsPending, StaleListIsAnnounced, AtRest
<1>2. Init => TypeOK /\ StaleIsPending BY TypeInit, StaleInit
<1>3. TypeOK /\ StaleIsPending /\ [Next]_vars => (TypeOK /\ StaleIsPending)'
  BY TypeStep, StaleStep
<1>4. QED BY <1>1, <1>2, <1>3, PTL DEF Spec

(* A boot at rest without an error on show finds every image it names.     *)
THEOREM BootsFindTheirImages == Spec => []BootsAreStocked
<1>1. TypeOK /\ StaleIsPending => BootsAreStocked
  BY NeedsAreListed DEF StaleIsPending, BootsAreStocked, AtRest
<1>2. Init => TypeOK /\ StaleIsPending BY TypeInit, StaleInit
<1>3. TypeOK /\ StaleIsPending /\ [Next]_vars => (TypeOK /\ StaleIsPending)'
  BY TypeStep, StaleStep
<1>4. QED BY <1>1, <1>2, <1>3, PTL DEF Spec

-----------------------------------------------------------------------------
(* The form.                                                               *)

(* What is nothing but its fields, or the entries of a list.               *)
Plain(item) == item = [f \in DOMAIN item |-> item[f]]

(* A record is spread over another field by field.                         *)
LEMMA Spread ==
    ASSUME NEW item, NEW change
    PROVE  /\ DOMAIN Merged(item, change) = DOMAIN item \cup DOMAIN change
           /\ Plain(Merged(item, change))
           /\ \A f \in DOMAIN change : Merged(item, change)[f] = change[f]
           /\ \A f \in DOMAIN item \ DOMAIN change : Merged(item, change)[f] = item[f]
BY DEF Merged, Plain

(* What every drive, NVRAM and variable has.                               *)
Fields(list) ==
    CASE list = "drives" -> DOMAIN newDrive(0)
      [] list = "nvrams" -> DOMAIN newNvram(0)
      [] list = "env" -> DOMAIN newEnvVar(0)

(* A record with these fields at least, and a list of such.                *)
IsRecord(item, fields) ==
    fields \subseteq DOMAIN item /\ Plain(item)

IsList(list, fields) ==
    /\ list \in Seq({list[i] : i \in DOMAIN list})
    /\ \A i \in DOMAIN list : IsRecord(list[i], fields)

(* A form with nothing missing.                                            *)
IsWhole(form) ==
    /\ IsRecord(form, DOMAIN defaultConfig)
    /\ form.console \in Consoles
    /\ \A list \in Lists : IsList(form[list], Fields(list))

(* Entries of one kind have the same fields, wherever they are added.      *)
LEMMA NewFields ==
    ASSUME NEW i
    PROVE  /\ IsRecord(newDrive(i), Fields("drives")) /\ DOMAIN newDrive(i) = Fields("drives")
           /\ IsRecord(newNvram(i), Fields("nvrams")) /\ DOMAIN newNvram(i) = Fields("nvrams")
           /\ IsRecord(newEnvVar(i), Fields("env")) /\ DOMAIN newEnvVar(i) = Fields("env")
           /\ "imageId" \in Fields("drives") /\ "imageId" \in Fields("nvrams")
<1> DEFINE own(n) ==
        [mount |-> "auto", mountPoint |-> Nowhere, format |-> "auto",
         label |-> <<"drive", n + 1>>]
<1>1. \A n : newDrive(n) = Merged(newNvram(n), own(n)) BY DEF newDrive
<1>2. DOMAIN own(i) = DOMAIN own(0) OBVIOUS
<1>3. DOMAIN newNvram(i) = DOMAIN newNvram(0) /\ Plain(newNvram(i))
  BY DEF newNvram, Plain
<1>4. DOMAIN newEnvVar(i) = DOMAIN newEnvVar(0) /\ Plain(newEnvVar(i))
  BY DEF newEnvVar, Plain
<1> HIDE DEF own
<1>5. DOMAIN newDrive(i) = DOMAIN newDrive(0) /\ Plain(newDrive(i))
  <2>1. /\ DOMAIN newDrive(i) = DOMAIN newNvram(i) \cup DOMAIN own(i)
        /\ DOMAIN newDrive(0) = DOMAIN newNvram(0) \cup DOMAIN own(0)
    BY <1>1, Spread
  <2>2. Plain(newDrive(i)) BY <1>1, Spread
  <2>3. QED BY <1>2, <1>3, <2>1, <2>2
<1>6. "imageId" \in DOMAIN newNvram(0) BY DEF newNvram
<1>7. "imageId" \in DOMAIN newDrive(0) BY <1>1, <1>6, Spread
<1>8. QED BY <1>3, <1>4, <1>5, <1>6, <1>7 DEF IsRecord, Fields

(* A record spread over another has the fields of both.                    *)
LEMMA Spreading ==
    ASSUME NEW item, NEW change, NEW fields,
           fields \subseteq DOMAIN item \/ fields \subseteq DOMAIN change
    PROVE  IsRecord(Merged(item, change), fields)
BY Spread DEF IsRecord

(* Spread over a record with no other fields it stays as it is.            *)
LEMMA SpreadOver ==
    ASSUME NEW item, NEW change, IsRecord(change, DOMAIN item)
    PROVE  Merged(item, change) = change
<1>1. DOMAIN item \cup DOMAIN change = DOMAIN change BY DEF IsRecord
<1>2. Merged(item, change) = [f \in DOMAIN change |-> change[f]]
  BY <1>1 DEF Merged
<1>3. QED BY <1>2 DEF IsRecord, Plain

(* The form has its lists, empty at first, and one of the two consoles.    *)
LEMMA DefaultFields ==
    /\ Lists \subseteq DOMAIN defaultConfig /\ "console" \in DOMAIN defaultConfig
    /\ defaultConfig["console"] \in Consoles
    /\ Plain(defaultConfig)
    /\ \A list \in Lists : defaultConfig[list] = << >>
BY DEF defaultConfig, Lists, Consoles, Plain

(* A sequence is one of its own elements.                                  *)
LEMMA SequencesAre ==
    ASSUME NEW S, NEW s \in Seq(S)
    PROVE  /\ s \in Seq({s[i] : i \in DOMAIN s})
           /\ DOMAIN s = 1..Len(s) /\ Len(s) \in Nat
           /\ s = [i \in 1..Len(s) |-> s[i]]
<1>1. Len(s) \in Nat /\ DOMAIN s = 1..Len(s) /\ s \in [1..Len(s) -> S]
  BY LenProperties
<1> DEFINE T == {s[i] : i \in DOMAIN s}
<1>2. s = [i \in 1..Len(s) |-> s[i]] BY <1>1
<1>3. \A i \in 1..Len(s) : s[i] \in T BY <1>1
<1>4. s \in [1..Len(s) -> T] BY <1>2, <1>3
<1>5. s \in Seq(T) BY <1>1, <1>4, SeqDef
<1>6. QED BY <1>1, <1>2, <1>5

(* Nothing is missing in the form the page starts with.                    *)
LEMMA DefaultIsWhole == IsWhole(defaultConfig)
<1>1. << >> \in Seq({<< >>[i] : i \in DOMAIN << >>}) BY EmptySeq
<1>2. DOMAIN << >> = {} OBVIOUS
<1>3. \A fields : IsList(<< >>, fields) BY <1>1, <1>2 DEF IsList
<1> HIDE DEF defaultConfig
<1>4. QED BY <1>3, DefaultFields DEF IsWhole, IsRecord

(* Filling in keeps what is a list one, and of whole entries.              *)
LEMMA FilledLists ==
    ASSUME NEW list, list \in Seq({list[i] : i \in DOMAIN list})
    PROVE  /\ IsList(Filled(list, newDrive), Fields("drives"))
           /\ IsList(Filled(list, newNvram), Fields("nvrams"))
           /\ IsList(Filled(list, newEnvVar), Fields("env"))
<1>1. DOMAIN list = 1..Len(list) /\ Len(list) \in Nat BY SequencesAre
<1>2. ASSUME NEW new, new = [i \in 1..Len(list) |-> new[i]]
      PROVE  new \in Seq({new[i] : i \in DOMAIN new})
  <2> DEFINE T == {new[i] : i \in DOMAIN new}
  <2>1. DOMAIN new = 1..Len(list) BY <1>2
  <2>2. \A i \in 1..Len(list) : new[i] \in T BY <2>1
  <2> HIDE DEF T
  <2>3. new \in [1..Len(list) -> T] BY <1>2, <2>2
  <2>4. new \in Seq(T) BY <1>1, <2>3, SeqDef
  <2>5. QED BY <2>4 DEF T
<1>3. IsList(Filled(list, newDrive), Fields("drives"))
  <2> DEFINE new == Filled(list, newDrive)
  <2>1. new = [i \in 1..Len(list) |-> Merged(newDrive(i - 1), list[i])] BY <1>1 DEF Filled
  <2>2. \A i \in 1..Len(list) : IsRecord(new[i], Fields("drives"))
    <3>1. TAKE i \in 1..Len(list)
    <3>2. Fields("drives") \subseteq DOMAIN newDrive(i - 1) BY NewFields DEF IsRecord
    <3>3. QED BY <2>1, <3>2, Spreading
  <2>3. QED BY <1>2, <2>1, <2>2 DEF IsList
<1>4. IsList(Filled(list, newNvram), Fields("nvrams"))
  <2> DEFINE new == Filled(list, newNvram)
  <2>1. new = [i \in 1..Len(list) |-> Merged(newNvram(i - 1), list[i])] BY <1>1 DEF Filled
  <2>2. \A i \in 1..Len(list) : IsRecord(new[i], Fields("nvrams"))
    <3>1. TAKE i \in 1..Len(list)
    <3>2. Fields("nvrams") \subseteq DOMAIN newNvram(i - 1) BY NewFields DEF IsRecord
    <3>3. QED BY <2>1, <3>2, Spreading
  <2>3. QED BY <1>2, <2>1, <2>2 DEF IsList
<1>5. IsList(Filled(list, newEnvVar), Fields("env"))
  <2> DEFINE new == Filled(list, newEnvVar)
  <2>1. new = [i \in 1..Len(list) |-> Merged(newEnvVar(i - 1), list[i])] BY <1>1 DEF Filled
  <2>2. \A i \in 1..Len(list) : IsRecord(new[i], Fields("env"))
    <3>1. TAKE i \in 1..Len(list)
    <3>2. Fields("env") \subseteq DOMAIN newEnvVar(i - 1) BY NewFields DEF IsRecord
    <3>3. QED BY <2>1, <3>2, Spreading
  <2>3. QED BY <1>2, <2>1, <2>2 DEF IsList
<1>6. QED BY <1>3, <1>4, <1>5

(* What storage holds of a whole form is that form.                        *)
LEMMA RestoredIsSame ==
    ASSUME NEW form, IsWhole(form)
    PROVE  restoreConfig(form) = form
<1> HIDE DEF defaultConfig
<1>1. Merged(defaultConfig, form) = form BY SpreadOver DEF IsWhole
<1>3. Filled(form.drives, newDrive) = form.drives
  <2> DEFINE list == form.drives
  <2>1. IsList(list, Fields("drives")) BY DEF IsWhole, Lists
  <2>2. Plain(list) BY <2>1, SequencesAre DEF IsList, Plain
  <2>3. \A i \in DOMAIN list : Merged(newDrive(i - 1), list[i]) = list[i]
    <3>1. TAKE i \in DOMAIN list
    <3>2. DOMAIN newDrive(i - 1) = Fields("drives") BY NewFields
    <3>3. QED BY <2>1, <3>2, SpreadOver DEF IsList
  <2>4. QED BY <2>2, <2>3 DEF Filled, Plain
<1>4. Filled(form.nvrams, newNvram) = form.nvrams
  <2> DEFINE list == form.nvrams
  <2>1. IsList(list, Fields("nvrams")) BY DEF IsWhole, Lists
  <2>2. Plain(list) BY <2>1, SequencesAre DEF IsList, Plain
  <2>3. \A i \in DOMAIN list : Merged(newNvram(i - 1), list[i]) = list[i]
    <3>1. TAKE i \in DOMAIN list
    <3>2. DOMAIN newNvram(i - 1) = Fields("nvrams") BY NewFields
    <3>3. QED BY <2>1, <3>2, SpreadOver DEF IsList
  <2>4. QED BY <2>2, <2>3 DEF Filled, Plain
<1>5. Filled(form.env, newEnvVar) = form.env
  <2> DEFINE list == form.env
  <2>1. IsList(list, Fields("env")) BY DEF IsWhole, Lists
  <2>2. Plain(list) BY <2>1, SequencesAre DEF IsList, Plain
  <2>3. \A i \in DOMAIN list : Merged(newEnvVar(i - 1), list[i]) = list[i]
    <3>1. TAKE i \in DOMAIN list
    <3>2. DOMAIN newEnvVar(i - 1) = Fields("env") BY NewFields
    <3>3. QED BY <2>1, <3>2, SpreadOver DEF IsList
  <2>4. QED BY <2>2, <2>3 DEF Filled, Plain
<1>6. Plain(form) BY DEF IsWhole, IsRecord
<1>7. QED BY <1>1, <1>3, <1>4, <1>5, <1>6 DEF restoreConfig, Plain

(* So is what storage held before, once what it lacks is filled in.        *)
LEMMA RestoredIsWhole ==
    ASSUME NEW form \in OlderForms
    PROVE  IsWhole(restoreConfig(form))
<1> DEFINE whole == Merged(defaultConfig, form)
           new == restoreConfig(form)
<1>1. Plain(whole) /\ DOMAIN defaultConfig \subseteq DOMAIN whole BY Spread
<1>2. \A list \in Lists : whole[list] \in Seq({whole[list][i] : i \in DOMAIN whole[list]})
  <2>1. TAKE list \in Lists
  <2>2. CASE list \in DOMAIN form
    <3>1. whole[list] = form[list] BY <2>2 DEF Merged
    <3>2. form[list] \in Seq({form[list][i] : i \in DOMAIN form[list]})
      BY <2>2, FormAssumption
    <3>3. QED BY <3>1, <3>2
  <2>3. CASE list \notin DOMAIN form
    <3>1. whole[list] = << >>
      <4>1. whole[list] = defaultConfig[list] BY <2>3, DefaultFields DEF Merged
      <4>2. QED BY <4>1, DefaultFields
    <3>2. << >> \in Seq({<< >>[i] : i \in DOMAIN << >>}) BY EmptySeq
    <3>3. QED BY <3>1, <3>2
  <2>4. QED BY <2>2, <2>3
<1>3. \A list \in Lists : list \in DOMAIN whole BY <1>1, DefaultFields
<1>4. new = [whole EXCEPT !.drives = Filled(@, newDrive), !.nvrams = Filled(@, newNvram),
                          !.env = Filled(@, newEnvVar)]
  BY DEF restoreConfig
<1> HIDE DEF whole, new
<1>5. /\ Plain(new) /\ DOMAIN new = DOMAIN whole
      /\ new["drives"] = Filled(whole.drives, newDrive)
      /\ new["nvrams"] = Filled(whole.nvrams, newNvram)
      /\ new["env"] = Filled(whole.env, newEnvVar)
  BY <1>1, <1>3, <1>4 DEF Plain, Lists
<1>6. /\ IsList(new["drives"], Fields("drives"))
      /\ IsList(new["nvrams"], Fields("nvrams"))
      /\ IsList(new["env"], Fields("env"))
  BY <1>2, <1>5, FilledLists DEF Lists
<1>7. IsRecord(new, DOMAIN defaultConfig) BY <1>1, <1>5 DEF IsRecord
<1>a. new["console"] \in Consoles
  <2>1. whole["console"] \in Consoles BY FormAssumption, DefaultFields DEF whole, Merged
  <2>2. new["console"] = whole["console"]
    BY <1>1, <1>4, DefaultFields DEF Plain, Lists
  <2>3. QED BY <2>1, <2>2
<1>8. IsWhole(new) BY <1>6, <1>7, <1>a DEF IsWhole, Lists
<1>9. QED BY <1>8 DEF new

(* A sequence of records is a list of them.                                *)
LEMMA ListOf ==
    ASSUME NEW S, NEW l \in Seq(S), NEW fields, \A s \in S : IsRecord(s, fields)
    PROVE  IsList(l, fields)
<1>1. \A i \in DOMAIN l : l[i] \in S BY LenProperties
<1>2. QED BY <1>1, SequencesAre DEF IsList

(* Each change of a list leaves one.                                       *)
LEMMA ListChangesKeep ==
    ASSUME NEW fields, NEW l, IsList(l, fields)
    PROVE  /\ \A item : IsRecord(item, fields) => IsList(Append(l, item), fields)
           /\ \A i \in DOMAIN l : IsList(RemoveAt(l, i), fields)
           /\ \A i \in DOMAIN l : \A change :
                IsList([l EXCEPT ![i] = Merged(l[i], change)], fields)
<1> DEFINE S == {l[i] : i \in DOMAIN l}
<1>1. l \in Seq(S) /\ \A s \in S : IsRecord(s, fields) BY DEF IsList
<1>2. DOMAIN l = 1..Len(l) /\ Len(l) \in Nat BY <1>1, LenProperties
<1> HIDE DEF S
<1>3. ASSUME NEW item, IsRecord(item, fields)
      PROVE  IsList(Append(l, item), fields)
  <2>1. l \in Seq(S \cup {item})
    <3>1. Seq(S) \subseteq Seq(S \cup {item}) BY SeqDef
    <3>2. QED BY <1>1
  <2>2. Append(l, item) \in Seq(S \cup {item}) BY <2>1, AppendProperties
  <2>3. QED BY <1>1, <1>3, <2>2, ListOf
<1>4. ASSUME NEW i \in DOMAIN l
      PROVE  IsList(RemoveAt(l, i), fields)
  <2>1. RemoveAt(l, i) \in Seq(S) BY <1>1, <1>2 DEF RemoveAt
  <2>2. QED BY <1>1, <2>1, ListOf
<1>5. ASSUME NEW i \in DOMAIN l, NEW change
      PROVE  IsList([l EXCEPT ![i] = Merged(l[i], change)], fields)
  <2> DEFINE item == Merged(l[i], change)
  <2>1. l[i] \in S BY DEF S
  <2>2. IsRecord(item, fields) BY <1>1, <2>1, Spreading DEF IsRecord
  <2> HIDE DEF item
  <2>3. l \in Seq(S \cup {item})
    <3>1. Seq(S) \subseteq Seq(S \cup {item}) BY SeqDef
    <3>2. QED BY <1>1
  <2>4. [l EXCEPT ![i] = item] \in Seq(S \cup {item}) BY <1>2, <2>3
  <2>5. IsList([l EXCEPT ![i] = item], fields) BY <1>1, <2>2, <2>4, ListOf
  <2>6. QED BY <2>5 DEF item
<1>6. QED BY <1>3, <1>4, <1>5

(* And each change of a form a whole one.                                  *)
LEMMA FormChangesKeep ==
    ASSUME NEW form, IsWhole(form)
    PROVE  /\ \A change \in Changes : IsWhole(Merged(form, change))
           /\ \A list \in Lists : \A new :
                IsList(new, Fields(list)) => IsWhole([form EXCEPT ![list] = new])
<1> HIDE DEF defaultConfig
<1>1. Plain(form) /\ DOMAIN defaultConfig \subseteq DOMAIN form
  BY DEF IsWhole, IsRecord
<1>2. Lists \subseteq DOMAIN form BY <1>1, DefaultFields
<1>3. ASSUME NEW change \in Changes
      PROVE  IsWhole(Merged(form, change))
  <2>1. \A list \in Lists : Merged(form, change)[list] = form[list]
    BY <1>2, FormAssumption DEF Merged
  <2>2. Merged(form, change)["console"] \in Consoles
    BY <1>1, FormAssumption, DefaultFields DEF Merged, IsWhole
  <2>3. QED BY <1>1, <2>1, <2>2, Spreading DEF IsWhole
<1>4. ASSUME NEW list \in Lists, NEW new, IsList(new, Fields(list))
      PROVE  IsWhole([form EXCEPT ![list] = new])
  <2> DEFINE other == [form EXCEPT ![list] = new]
  <2>1. Plain(other) /\ DOMAIN other = DOMAIN form BY <1>1 DEF Plain
  <2>2. other[list] = new /\ \A l \in Lists \ {list} : other[l] = form[l]
    BY <1>1, <1>2 DEF Plain
  <2>a. other["console"] = form["console"] BY <1>1, DefaultFields DEF Plain, Lists
  <2> HIDE DEF other
  <2>3. \A l \in Lists : IsList(other[l], Fields(l))
    BY <1>4, <2>2 DEF IsWhole
  <2>4. IsWhole(other) BY <1>1, <2>1, <2>3, <2>a DEF IsWhole, IsRecord
  <2>5. QED BY <2>4 DEF other
<1>5. QED BY <1>3, <1>4

---------------------------------------------------------------------------
(* The form and the one in storage are whole, once what an older page did  *)
(* not save is filled in; what the page shows was made last or was found   *)
(* in storage; and if nothing is to be saved, storage has it.              *)
FormInv ==
    /\ IsWhole(config)
    /\ saved \in InitialSaves \/ IsWhole(saved)
    /\ restored => config = latest \/ config = Stored
    /\ restored /\ ~due => Stored = config

(* Storage never holds anything but a form, or none.                       *)
LEMMA StoredIsWhole ==
    ASSUME saved \in InitialSaves \/ IsWhole(saved)
    PROVE  IsWhole(Stored)
<1>1. CASE saved \in {Nothing, Unreadable} BY <1>1, DefaultIsWhole DEF Stored
<1>2. CASE saved \notin {Nothing, Unreadable}
  <2>1. saved \in OlderForms \/ (IsWhole(saved) /\ restoreConfig(saved) = saved)
    BY <1>2, RestoredIsSame DEF OlderForms
  <2>2. QED BY <1>2, <2>1, RestoredIsWhole DEF Stored
<1>3. QED BY <1>1, <1>2

(* A form is never mistaken for none.                                      *)
LEMMA WholeIsSomething ==
    ASSUME NEW form, IsWhole(form)
    PROVE  form \notin {Nothing, Unreadable}
<1>1. "drives" \in DOMAIN form BY DefaultFields DEF IsWhole, IsRecord, Lists
<1>2. DOMAIN Nothing = {"state"} /\ DOMAIN Unreadable = {"state"}
  BY DEF Nothing, Unreadable
<1>3. QED BY <1>1, <1>2

(* What is set of the form leaves a whole one, which is the latest.        *)
LEMMA UpdateStep ==
    ASSUME FormInv, NEW form, IsWhole(form), update(form)
    PROVE  FormInv'
<1>1. IsWhole(config') BY DEF update
<1>2. QED BY <1>1 DEF update, FormInv, Stored

(* Each step of the page or the user keeps the invariant.                  *)
LEMMA FormStep ==
    ASSUME FormInv, [FormNext]_formVars
    PROVE  FormInv'
<1>1. CASE Mount
  <2>1. IsWhole(Stored) BY StoredIsWhole DEF FormInv
  <2>2. QED BY <1>1, <2>1 DEF Mount, FormInv, Stored
<1>2. CASE Save
  <2>1. Stored' = config
    BY <1>2, WholeIsSomething, RestoredIsSame DEF Save, FormInv, Stored
  <2>2. QED BY <1>2, <2>1 DEF Save, FormInv
<1>3. CASE Reload
  BY <1>3, DefaultIsWhole DEF Reload, FormInv, Stored
<1>4. CASE ListChanges
  BY <1>4 DEF ListChanges, FormInv, Stored
<1>5. CASE SetForm
  <2>1. PICK change \in Changes : update(Merged(config, change)) BY <1>5 DEF SetForm
  <2>2. IsWhole(Merged(config, change)) BY FormChangesKeep DEF FormInv
  <2>3. QED BY <2>1, <2>2, UpdateStep
<1>6. CASE AddItem
  <2>1. ASSUME NEW list \in Lists, NEW item, IsRecord(item, Fields(list)),
               update([config EXCEPT ![list] = Append(config[list], item)])
        PROVE  FormInv'
    <3>1. IsList(config[list], Fields(list)) BY DEF FormInv, IsWhole
    <3>2. IsList(Append(config[list], item), Fields(list))
      BY <2>1, <3>1, ListChangesKeep
    <3>3. IsWhole([config EXCEPT ![list] = Append(config[list], item)])
      BY <3>2, FormChangesKeep DEF FormInv
    <3>4. QED BY <2>1, <3>3, UpdateStep
  <2>2. CASE AppendTo("drives", newDrive)
    <3>1. update([config EXCEPT !["drives"] =
                    Append(config["drives"], newDrive(Len(config["drives"])))])
      BY <2>2 DEF AppendTo
    <3>2. IsRecord(newDrive(Len(config["drives"])), Fields("drives")) BY NewFields
    <3>3. "drives" \in Lists BY DEF Lists
    <3>4. QED BY <2>1, <3>1, <3>2, <3>3
  <2>3. CASE AppendTo("nvrams", newNvram)
    <3>1. update([config EXCEPT !["nvrams"] =
                    Append(config["nvrams"], newNvram(Len(config["nvrams"])))])
      BY <2>3 DEF AppendTo
    <3>2. IsRecord(newNvram(Len(config["nvrams"])), Fields("nvrams")) BY NewFields
    <3>3. "nvrams" \in Lists BY DEF Lists
    <3>4. QED BY <2>1, <3>1, <3>2, <3>3
  <2>4. CASE AppendTo("env", newEnvVar)
    <3>1. update([config EXCEPT !["env"] =
                    Append(config["env"], newEnvVar(Len(config["env"])))])
      BY <2>4 DEF AppendTo
    <3>2. IsRecord(newEnvVar(Len(config["env"])), Fields("env")) BY NewFields
    <3>3. "env" \in Lists BY DEF Lists
    <3>4. QED BY <2>1, <3>1, <3>2, <3>3
  <2>5. QED BY <1>6, <2>2, <2>3, <2>4 DEF AddItem
<1>7. CASE RemoveItem
  <2>1. PICK list \in Lists : \E i \in DOMAIN config[list] :
            update([config EXCEPT ![list] = RemoveAt(@, i)])
    BY <1>7 DEF RemoveItem
  <2>2. PICK i \in DOMAIN config[list] :
            update([config EXCEPT ![list] = RemoveAt(config[list], i)])
    BY <2>1
  <2>3. IsList(config[list], Fields(list)) BY DEF FormInv, IsWhole
  <2>4. IsList(RemoveAt(config[list], i), Fields(list)) BY <2>3, ListChangesKeep
  <2>5. IsWhole([config EXCEPT ![list] = RemoveAt(config[list], i)])
    BY <2>4, FormChangesKeep DEF FormInv
  <2>6. QED BY <2>2, <2>5, UpdateStep
<1>8. CASE SetItem
  <2>1. PICK list \in Lists : \E i \in DOMAIN config[list], change \in ItemChanges[list] :
            update([config EXCEPT ![list] =
                [@ EXCEPT ![i] = Merged(config[list][i], change)]])
    BY <1>8 DEF SetItem
  <2>a. PICK i \in DOMAIN config[list] : \E change \in ItemChanges[list] :
            update([config EXCEPT ![list] =
                [config[list] EXCEPT ![i] = Merged(config[list][i], change)]])
    BY <2>1
  <2>b. PICK change \in ItemChanges[list] :
            update([config EXCEPT ![list] =
                [config[list] EXCEPT ![i] = Merged(config[list][i], change)]])
    BY <2>a
  <2> DEFINE new == [config[list] EXCEPT ![i] = Merged(config[list][i], change)]
  <2>2. IsList(config[list], Fields(list)) BY DEF FormInv, IsWhole
  <2>3. IsList(new, Fields(list)) BY <2>2, ListChangesKeep
  <2> HIDE DEF new
  <2>4. IsWhole([config EXCEPT ![list] = new]) BY <2>3, FormChangesKeep DEF FormInv
  <2>5. QED BY <2>b, <2>4, UpdateStep DEF new
<1>9. CASE UNCHANGED formVars
  BY <1>9 DEF formVars, FormInv, Stored
<1>10. QED BY <1>1, <1>2, <1>3, <1>4, <1>5, <1>6, <1>7, <1>8, <1>9 DEF FormNext

(* The invariant of the form and of what is stored of it.                  *)
LEMMA FormInvariant == FormSpec => []FormInv
<1>1. FormInit => FormInv
  BY DefaultIsWhole DEF FormInit, FormInv
<1>2. FormInv /\ [FormNext]_formVars => FormInv' BY FormStep
<1>3. QED BY <1>1, <1>2, PTL DEF FormSpec

(* What a visit would find only becomes what was made last.                *)
LEMMA OnlyTheLatestIsSaved ==
    ASSUME FormInv, [FormNext]_formVars
    PROVE  Stored' # Stored => Stored' = latest'
<1>1. ASSUME saved' = saved PROVE Stored' = Stored BY <1>1 DEF Stored
<1>2. CASE Save
  <2>1. Stored' = config /\ latest' = latest /\ restored
    BY <1>2, WholeIsSomething, RestoredIsSame DEF Save, FormInv, Stored
  <2>2. QED BY <2>1 DEF FormInv
<1>3. CASE ~Save
  <2>1. saved' = saved
    BY <1>3 DEF FormNext, Mount, Reload, ListChanges, SetForm, AddItem, AppendTo,
       RemoveItem, SetItem, update, formVars
  <2>2. QED BY <1>1, <2>1
<1>4. QED BY <1>2, <1>3

(* However a form is changed and whenever the page is left: what is saved  *)
(* gives way to nothing but what the user made last, and what the page     *)
(* shows is saved once nothing is due (page.tsx:54-85).                    *)
THEOREM FormIsKept == FormSpec => FormSurvives
<1>1. FormInv /\ FormInv' /\ [FormNext]_formVars
        => [ /\ Stored' # Stored => Stored' = latest'
             /\ restored' /\ ~due' => Stored' = config' ]_formVars
  BY OnlyTheLatestIsSaved DEF FormInv
<1>2. QED BY <1>1, FormInvariant, PTL DEF FormSpec, FormSurvives

---------------------------------------------------------------------------
(* What is booted is the form but for the images that are gone.            *)
LEMMA WantedImages ==
    ASSUME IsWhole(config)
    PROVE  /\ {wanted.kernelId, wanted.rootfsId} \subseteq listed \cup {Null}
           /\ wanted.drives \in Seq({wanted.drives[i] : i \in DOMAIN wanted.drives})
           /\ ImagesOf(wanted.drives) \subseteq listed \cup {Null}
           /\ wanted.nvrams \in Seq({wanted.nvrams[i] : i \in DOMAIN wanted.nvrams})
           /\ ImagesOf(wanted.nvrams) \subseteq listed \cup {Null}
           /\ wanted.console \in Consoles
<1> DEFINE kept(id) == IF id \in listed THEN id ELSE Null
           Kept(list) == [i \in DOMAIN list |-> [list[i] EXCEPT !.imageId = kept(@)]]
           form == wanted
<1>1. form = [config EXCEPT !.kernelId = kept(@), !.rootfsId = kept(@),
                            !.drives = Kept(@), !.nvrams = Kept(@), !.tty = "100x30"]
  BY DEF wanted, settled
<1>2. \A id : kept(id) \in listed \cup {Null} OBVIOUS
<1>3. {"kernelId", "rootfsId", "drives", "nvrams", "tty"} \subseteq DOMAIN config
  <2>1. {"kernelId", "rootfsId", "drives", "nvrams", "tty"} \subseteq DOMAIN defaultConfig
    BY DEF defaultConfig
  <2>2. QED BY <2>1 DEF IsWhole, IsRecord
<1>4. ASSUME NEW list, NEW fields, IsList(list, fields), "imageId" \in fields
      PROVE  /\ Kept(list) \in Seq({Kept(list)[i] : i \in DOMAIN Kept(list)})
             /\ ImagesOf(Kept(list)) \subseteq listed \cup {Null}
  <2>1. DOMAIN list = 1..Len(list) /\ Len(list) \in Nat
    BY <1>4, SequencesAre DEF IsList
  <2>2. \A i \in DOMAIN list : Kept(list)[i].imageId = kept(list[i].imageId)
    BY <1>4 DEF IsList, IsRecord
  <2> DEFINE new == Kept(list)
             T == {new[i] : i \in DOMAIN new}
  <2>3. DOMAIN new = 1..Len(list) /\ new = [i \in 1..Len(list) |-> new[i]] BY <2>1
  <2>4. \A i \in DOMAIN new : new[i].imageId \in listed \cup {Null} BY <1>2, <2>2
  <2> HIDE DEF new
  <2>5. \A i \in 1..Len(list) : new[i] \in T BY <2>3
  <2> HIDE DEF T
  <2>6. new \in [1..Len(list) -> T] BY <2>3, <2>5
  <2>7. new \in Seq(T) BY <2>1, <2>6, SeqDef
  <2>8. ImagesOf(new) \subseteq listed \cup {Null} BY <2>4 DEF ImagesOf
  <2>9. QED BY <2>7, <2>8 DEF new, T
<1>6. IsList(config.drives, Fields("drives")) /\ IsList(config.nvrams, Fields("nvrams"))
  BY DEF IsWhole, Lists
<1> HIDE DEF kept, Kept
<1>7. /\ form.kernelId = kept(config.kernelId) /\ form.rootfsId = kept(config.rootfsId)
      /\ form.drives = Kept(config.drives) /\ form.nvrams = Kept(config.nvrams)
      /\ form.console = config.console
  BY <1>1, <1>3
<1>8. form.console \in Consoles BY <1>7 DEF IsWhole
<1>9. /\ form.drives \in Seq({form.drives[i] : i \in DOMAIN form.drives})
      /\ ImagesOf(form.drives) \subseteq listed \cup {Null}
  <2>1. /\ Kept(config.drives) \in
                Seq({Kept(config.drives)[i] : i \in DOMAIN Kept(config.drives)})
        /\ ImagesOf(Kept(config.drives)) \subseteq listed \cup {Null}
    BY <1>4, <1>6, NewFields
  <2>2. QED BY <1>7, <2>1
<1>10. /\ form.nvrams \in Seq({form.nvrams[i] : i \in DOMAIN form.nvrams})
       /\ ImagesOf(form.nvrams) \subseteq listed \cup {Null}
  <2>1. /\ Kept(config.nvrams) \in
                Seq({Kept(config.nvrams)[i] : i \in DOMAIN Kept(config.nvrams)})
        /\ ImagesOf(Kept(config.nvrams)) \subseteq listed \cup {Null}
    BY <1>4, <1>6, NewFields
  <2>2. QED BY <1>7, <2>1
<1>11. {form.kernelId, form.rootfsId} \subseteq listed \cup {Null} BY <1>2, <1>7
<1>12. QED BY <1>8, <1>9, <1>10, <1>11

(* The images behind ranges of the machine.                                *)
ImagesIn(ranges) == {ranges[i].image : i \in DOMAIN ranges}

(* The images behind two lists of ranges are those behind either.          *)
LEMMA ImagesInBoth ==
    ASSUME NEW S, NEW T, NEW s \in Seq(S), NEW t \in Seq(T)
    PROVE  ImagesIn(s \o t) = ImagesIn(s) \cup ImagesIn(t)
<1>1. /\ Len(s) \in Nat /\ Len(t) \in Nat /\ DOMAIN s = 1..Len(s) /\ DOMAIN t = 1..Len(t)
      /\ DOMAIN (s \o t) = 1..(Len(s) + Len(t))
      /\ \A i \in 1..(Len(s) + Len(t)) :
            (s \o t)[i] = IF i <= Len(s) THEN s[i] ELSE t[i - Len(s)]
  <2>1. s \in Seq(S \cup T) /\ t \in Seq(S \cup T)
    <3>1. Seq(S) \subseteq Seq(S \cup T) /\ Seq(T) \subseteq Seq(S \cup T) BY SeqDef
    <3>2. QED BY <3>1
  <2>2. QED BY <2>1, ConcatProperties, LenProperties
<1>2. ASSUME NEW i \in DOMAIN (s \o t)
      PROVE  (s \o t)[i].image \in ImagesIn(s) \cup ImagesIn(t)
  BY <1>1, <1>2 DEF ImagesIn
<1>3. ASSUME NEW i \in DOMAIN s PROVE s[i].image \in ImagesIn(s \o t)
  <2>1. i \in DOMAIN (s \o t) /\ (s \o t)[i] = s[i] BY <1>1
  <2>2. QED BY <2>1 DEF ImagesIn
<1>4. ASSUME NEW i \in DOMAIN t PROVE t[i].image \in ImagesIn(s \o t)
  <2>1. Len(s) + i \in DOMAIN (s \o t) /\ (s \o t)[Len(s) + i] = t[i] BY <1>1
  <2>2. QED BY <2>1 DEF ImagesIn
<1>5. QED BY <1>2, <1>3, <1>4 DEF ImagesIn

(* The ranges of a list of entries, which have the entries' images.        *)
LEMMA RangesOf ==
    ASSUME NEW list, list \in Seq({list[i] : i \in DOMAIN list}),
           NEW ranges, ranges = [i \in DOMAIN list |-> RangeOf(list[i])]
    PROVE  /\ ranges \in Seq({ranges[i] : i \in DOMAIN ranges})
           /\ ImagesIn(ranges) = ImagesOf(list)
<1>1. DOMAIN list = 1..Len(list) /\ Len(list) \in Nat BY SequencesAre
<1>2. /\ DOMAIN ranges = 1..Len(list)
      /\ ranges = [i \in 1..Len(list) |-> ranges[i]]
  BY <1>1
<1> DEFINE T == {ranges[i] : i \in DOMAIN ranges}
<1>3. \A i \in 1..Len(list) : ranges[i] \in T BY <1>2
<1> HIDE DEF T
<1>4. ranges \in [1..Len(list) -> T] BY <1>2, <1>3
<1>5. ranges \in Seq(T) BY <1>1, <1>4, SeqDef
<1>6. \A i \in DOMAIN list : ranges[i].image = list[i].imageId BY DEF RangeOf
<1>7. ImagesIn(ranges) = ImagesOf(list) BY <1>1, <1>2, <1>6 DEF ImagesIn, ImagesOf
<1>8. QED BY <1>5, <1>7 DEF T

(* The images behind the machine's ranges are those of the form.           *)
LEMMA MachineImages ==
    ASSUME NEW form,
           form.drives \in Seq({form.drives[i] : i \in DOMAIN form.drives}),
           form.nvrams \in Seq({form.nvrams[i] : i \in DOMAIN form.nvrams})
    PROVE  ImagesIn(flashDrives(form) \o nvramRanges(form)) \cup {form.kernelId, Null}
             = staged(form) \cup {Null}
<1> DEFINE root == [label |-> Root, image |-> form.rootfsId, length |-> Null,
                    start |-> Null, read_only |-> form.rootfsReadOnly]
           first == Optional(HasRoot(form), <<root>>)
           drives == [i \in DOMAIN form.drives |-> RangeOf(form.drives[i])]
           nvrams == nvramRanges(form)
           D == {drives[i] : i \in DOMAIN drives}
           N == {nvrams[i] : i \in DOMAIN nvrams}
<1>1. flashDrives(form) = first \o drives BY DEF flashDrives
<1>2. drives \in Seq(D) /\ ImagesIn(drives) = ImagesOf(form.drives) BY RangesOf
<1>3. nvrams \in Seq(N) /\ ImagesIn(nvrams) = ImagesOf(form.nvrams)
  BY RangesOf DEF nvramRanges
<1>4. first \in Seq({root}) /\ ImagesIn(first) \cup {Null} = {form.rootfsId, Null}
  <2>1. CASE HasRoot(form)
    <3>1. first = <<root>> BY <2>1 DEF Optional
    <3>2. DOMAIN <<root>> = {1} /\ <<root>>[1] = root /\ <<root>> \in Seq({root}) OBVIOUS
    <3>3. root.image = form.rootfsId OBVIOUS
    <3> HIDE DEF root, first
    <3>4. ImagesIn(first) = {form.rootfsId} BY <3>1, <3>2, <3>3 DEF ImagesIn
    <3>5. QED BY <3>1, <3>2, <3>4
  <2>2. CASE ~HasRoot(form)
    <3>1. first = << >> BY <2>2 DEF Optional
    <3>2. ImagesIn(<< >>) = {} BY DEF ImagesIn
    <3>3. << >> \in Seq({root}) BY EmptySeq
    <3>4. form.rootfsId = Null BY <2>2 DEF HasRoot
    <3> HIDE DEF first
    <3>5. QED BY <3>1, <3>2, <3>3, <3>4
  <2>3. QED BY <2>1, <2>2
<1> HIDE DEF root, first, drives, nvrams, D, N
<1>5. ImagesIn(first \o drives) = ImagesIn(first) \cup ImagesIn(drives)
  BY <1>2, <1>4, ImagesInBoth
<1>6. first \o drives \in Seq({root} \cup D)
  <2>1. Seq({root}) \subseteq Seq({root} \cup D) /\ Seq(D) \subseteq Seq({root} \cup D)
    BY SeqDef
  <2>2. QED BY <1>2, <1>4, <2>1, ConcatProperties
<1>7. ImagesIn((first \o drives) \o nvrams) = ImagesIn(first \o drives) \cup ImagesIn(nvrams)
  <2> DEFINE flash == first \o drives
  <2>1. flash \in Seq({root} \cup D) BY <1>6
  <2> HIDE DEF flash
  <2>2. ImagesIn(flash \o nvrams) = ImagesIn(flash) \cup ImagesIn(nvrams)
    BY <1>3, <2>1, ImagesInBoth
  <2>3. QED BY <2>2 DEF flash
<1>8. ImagesIn(flashDrives(form) \o nvramRanges(form))
        = ImagesIn(first) \cup ImagesOf(form.drives) \cup ImagesOf(form.nvrams)
  BY <1>1, <1>2, <1>3, <1>5, <1>7 DEF nvrams
<1>9. staged(form) \cup {Null} = {form.kernelId, form.rootfsId, Null}
        \cup ImagesOf(form.drives) \cup ImagesOf(form.nvrams)
  BY DEF staged
<1>10. QED BY <1>4, <1>8, <1>9

(* What is generated of a whole form is complete, unless problems show.    *)
LEMMA Completeness ==
    ASSUME IsWhole(config)
    PROVE  BootIsComplete
<1> DEFINE form == wanted
           machine == generate(form)
           ranges == machine.flash_drive \o machine.nvram
           backing == {ranges[i].image : i \in DOMAIN ranges} \cup {machine.ram.image}
<1> SUFFICES ASSUME machine.problems = {}
             PROVE  /\ machine.ram.image # Null
                    /\ machine.images = backing \ {Null} /\ machine.images \subseteq listed
                    /\ "root" \in DOMAIN machine.bootargs =>
                         (machine.bootargs.root = "none" <=> machine.flash_drive = << >>)
                    /\ form.interactive =>
                         /\ machine.runtime.input_source = "from_buffer"
                         /\ machine.virtio \/ "getchar" \in machine.iconsole
                         /\ machine.iunrep /\ machine.entrypoint # Blank
  BY DEF BootIsComplete
<1>1. /\ machine.ram.image = form.kernelId
      /\ machine.flash_drive = flashDrives(form) /\ machine.nvram = nvramRanges(form)
      /\ machine.images = staged(form) /\ machine.problems = problems(form)
      /\ machine.bootargs = bootargs(form) /\ machine.runtime = runtime(form)
      /\ machine.iconsole = iconsole(form) /\ machine.entrypoint = entrypoint(form)
  BY DEF generate
<1>2. (machine.iunrep <=> unreproducible(form)) /\ (machine.virtio <=> form.console = "virtio")
  BY DEF generate
<1> HIDE DEF form, machine
<1>3. form.kernelId # Null
  <2>1. When(form.kernelId = Null, <<"kernel", 0>>) = {} BY <1>1 DEF problems
  <2>2. QED BY <2>1 DEF When
<1>4. machine.images = backing \ {Null}
  <2>1. ImagesIn(ranges) \cup {form.kernelId, Null} = staged(form) \cup {Null}
    BY <1>1, MachineImages, WantedImages DEF form
  <2>2. backing = ImagesIn(ranges) \cup {form.kernelId} BY <1>1 DEF ImagesIn
  <2>3. Null \notin staged(form) BY DEF staged
  <2> HIDE DEF backing, ranges
  <2>4. QED BY <1>1, <2>1, <2>2, <2>3
<1>5. machine.images \subseteq listed BY <1>1, WantedImages DEF form, staged
<1>6. "root" \in DOMAIN machine.bootargs =>
        (machine.bootargs.root = "none" <=> machine.flash_drive = << >>)
  <2>1. CASE form.bootargs # Blank
    <3>1. machine.bootargs = [given |-> form.bootargs] BY <1>1, <2>1 DEF bootargs
    <3>2. DOMAIN machine.bootargs = {"given"} BY <3>1
    <3>3. QED BY <3>2
  <2>2. CASE form.bootargs = Blank
    <3>1. machine.bootargs.root =
            IF flashDrives(form) = << >> THEN "none"
            ELSE IF form.rootfsReadOnly THEN "ro" ELSE "rw"
      BY <1>1, <2>2 DEF bootargs
    <3>2. QED BY <1>1, <3>1
  <2>3. QED BY <2>1, <2>2
<1>7. ASSUME form.interactive
      PROVE  /\ machine.runtime.input_source = "from_buffer"
             /\ machine.virtio \/ "getchar" \in machine.iconsole
             /\ machine.iunrep /\ machine.entrypoint # Blank
  <2>1. machine.runtime.input_source = "from_buffer" BY <1>1, <1>7 DEF runtime
  <2>2. form.console = "virtio" \/ form.console = "htif"
    BY WantedImages DEF form, Consoles
  <2>3. form.console = "htif" => "getchar" \in machine.iconsole
    BY <1>1, <1>7 DEF iconsole, When
  <2>4. machine.iunrep BY <1>2, <1>7 DEF unreproducible
  <2>5. machine.entrypoint # Blank BY <1>1, <1>7 DEF entrypoint, Blank
  <2>6. QED BY <1>2, <2>1, <2>2, <2>3, <2>4, <2>5
<1>8. QED BY <1>1, <1>3, <1>4, <1>5, <1>6, <1>7

(* Of any form without a problem the machine can boot and be used, and it  *)
(* names only images that are there (config.ts:424-627, page.tsx:91-126).  *)
THEOREM BootsAreComplete == FormSpec => []BootIsComplete
<1>1. FormInv => BootIsComplete BY Completeness DEF FormInv
<1>2. QED BY <1>1, FormInvariant, PTL

---------------------------------------------------------------------------
(* Sequences put together of others.                                       *)

(* The order of the natural numbers as a relation.                         *)
Below == {p \in Nat \X Nat : p[1] < p[2]}

(* Any set of natural numbers that is not empty has a least one.           *)
LEMMA Least ==
    ASSUME NEW S \in SUBSET Nat, S # {}
    PROVE  \E n \in S : \A m \in S : n <= m
<1>1. WF!IsWellFoundedOn(Below, Nat)
  BY WF!NatLessThanWellFounded, Zenon DEF WF!OpToRel, Below
<1>2. PICK n \in S : \A m \in S : ~(<<m, n>> \in Below) BY <1>1, WF!WFMin
<1>3. ASSUME NEW m \in S PROVE n <= m
  <2>1. ~(<<m, n>> \in Below) BY <1>2
  <2>2. QED BY <2>1 DEF Below
<1>4. QED BY <1>3

(* So a set that has 0, and each successor of its elements, has all of     *)
(* them.                                                                   *)
LEMMA Induction ==
    ASSUME NEW S, 0 \in S, \A n \in Nat : n \in S => n + 1 \in S
    PROVE  Nat \subseteq S
<1>1. SUFFICES ASSUME Nat \ S # {} PROVE FALSE OBVIOUS
<1>2. PICK n \in Nat \ S : \A m \in Nat \ S : n <= m BY <1>1, Least
<1>3. n - 1 \in Nat /\ n - 1 \in S BY <1>2
<1>4. QED BY <1>2, <1>3

(* What FlattenSeq computes with: g[i] is the first i of ss joined.        *)
IsJoin(g, ss, n) == g = [i \in 1..n |-> IF i = 1 THEN ss[i] ELSE g[i - 1] \o ss[i]]

(* The function that FlattenSeq computes with exists, for any length.      *)
LEMMA JoinExists ==
    ASSUME NEW ss
    PROVE  \A n \in Nat : \E g : IsJoin(g, ss, n)
<1> DEFINE S == {n \in Nat : \E g : IsJoin(g, ss, n)}
<1>1. 0 \in S
  <2>1. IsJoin([i \in 1..0 |-> 0], ss, 0) BY DEF IsJoin
  <2>2. QED BY <2>1
<1>2. ASSUME NEW n \in Nat, n \in S PROVE n + 1 \in S
  <2>1. PICK g : IsJoin(g, ss, n) BY <1>2
  <2> DEFINE Step(f, i) == IF i = 1 THEN ss[i] ELSE f[i - 1] \o ss[i]
             h == [i \in 1..(n + 1) |-> IF i <= n THEN g[i] ELSE Step(g, i)]
  <2>2. \A i \in 1..n : g[i] = Step(g, i) BY <2>1 DEF IsJoin
  <2>3. \A i \in 1..(n + 1) : i # 1 => h[i - 1] = g[i - 1] OBVIOUS
  <2>4. \A i \in 1..(n + 1) : h[i] = Step(g, i) BY <2>2
  <2>5. \A i \in 1..(n + 1) : Step(g, i) = Step(h, i) BY <2>3
  <2>6. h = [i \in 1..(n + 1) |-> h[i]] OBVIOUS
  <2> HIDE DEF h
  <2>7. h = [i \in 1..(n + 1) |-> Step(h, i)]  BY <2>4, <2>5, <2>6
  <2>8. IsJoin(h, ss, n + 1) BY <2>7 DEF IsJoin
  <2>9. QED BY <2>8
<1>3. Nat \subseteq S
  <2> HIDE DEF S
  <2>1. QED BY <1>1, <1>2, Induction
<1>4. QED BY <1>3

(* FlattenSeq takes its last value.                                        *)
LEMMA FlattenIsJoin ==
    ASSUME NEW ss, Len(ss) \in Nat \ {0}
    PROVE  \E g : IsJoin(g, ss, Len(ss)) /\ FlattenSeq(ss) = g[Len(ss)]
<1> DEFINE g == CHOOSE f : IsJoin(f, ss, Len(ss))
<1>1. IsJoin(g, ss, Len(ss)) BY JoinExists
<1>2. FlattenSeq(ss) = g[Len(ss)] BY Zenon DEF FlattenSeq, IsJoin
<1>3. QED BY <1>1, <1>2

(* The block b stands in s, behind the first o elements.                   *)
At(s, o, b) ==
    /\ o \in Nat /\ o + Len(b) <= Len(s)
    /\ \A j \in 1..Len(b) : s[o + j] = b[j]

(* The p-th element of s is one of a block b that stands there.            *)
IsIn(p, s, b) == \E o \in Nat : At(s, o, b) /\ p \in (o + 1)..(o + Len(b))

(* A block stays where it is when more is put behind, and moves when more  *)
(* is put before.                                                          *)
LEMMA AtConcat ==
    ASSUME NEW T, NEW s \in Seq(T), NEW t \in Seq(T), NEW b \in Seq(T), NEW o \in Nat
    PROVE  /\ At(s, o, b) => At(s \o t, o, b)
           /\ At(t, o, b) => At(s \o t, Len(s) + o, b)
<1>1. /\ Len(s) \in Nat /\ Len(t) \in Nat /\ Len(b) \in Nat
      /\ Len(s \o t) = Len(s) + Len(t)
      /\ \A i \in 1..(Len(s) + Len(t)) :
            (s \o t)[i] = IF i <= Len(s) THEN s[i] ELSE t[i - Len(s)]
  BY ConcatProperties, LenProperties
<1> DEFINE st == s \o t
<1> HIDE DEF st
<1>2. ASSUME At(s, o, b) PROVE At(st, o, b)
  <2>1. \A j \in 1..Len(b) : o + j <= Len(s) /\ s[o + j] = b[j] BY <1>1, <1>2 DEF At
  <2>2. \A j \in 1..Len(b) : st[o + j] = b[j] BY <1>1, <2>1 DEF st
  <2>3. o + Len(b) <= Len(st) BY <1>1, <1>2 DEF At, st
  <2>4. QED BY <2>2, <2>3 DEF At
<1>3. ASSUME At(t, o, b) PROVE At(st, Len(s) + o, b)
  <2>1. \A j \in 1..Len(b) : o + j <= Len(t) /\ t[o + j] = b[j] BY <1>1, <1>3 DEF At
  <2>2. \A j \in 1..Len(b) : st[(Len(s) + o) + j] = b[j]
    <3>1. TAKE j \in 1..Len(b)
    <3>2. (Len(s) + o) + j \in 1..(Len(s) + Len(t)) /\ ~((Len(s) + o) + j <= Len(s))
          /\ (Len(s) + o) + j - Len(s) = o + j
      BY <1>1, <2>1
    <3>3. QED BY <1>1, <2>1, <3>2 DEF st
  <2>3. (Len(s) + o) + Len(b) <= Len(st) BY <1>1, <1>3 DEF At, st
  <2>4. QED BY <1>1, <2>2, <2>3 DEF At
<1>4. QED BY <1>2, <1>3 DEF st

(* The first n of ss stand in s, and there is nothing else in it.          *)
IsPut(s, ss, n) ==
    /\ \A k \in 1..n : \E o \in Nat : At(s, o, ss[k])
    /\ \A p \in 1..Len(s) : \E k \in 1..n : IsIn(p, s, ss[k])

(* One more block is put behind.                                           *)
LEMMA PutOne ==
    ASSUME NEW T, NEW s \in Seq(T), NEW ss \in Seq(Seq(T)), NEW n \in Nat,
           n + 1 <= Len(ss), IsPut(s, ss, n)
    PROVE  IsPut(s \o ss[n + 1], ss, n + 1)
<1> DEFINE b == ss[n + 1]  st == s \o b
<1>1. \A k \in 1..(n + 1) : ss[k] \in Seq(T)
  <2>1. Len(ss) \in Nat BY LenProperties
  <2>2. QED BY <2>1, ElementOfSeq
<1>2. /\ Len(s) \in Nat /\ Len(b) \in Nat /\ Len(st) = Len(s) + Len(b) /\ st \in Seq(T)
      /\ \A i \in 1..(Len(s) + Len(b)) :
            st[i] = IF i <= Len(s) THEN s[i] ELSE b[i - Len(s)]
  BY <1>1, ConcatProperties, LenProperties
<1>3. b \in Seq(T) BY <1>1
<1> HIDE DEF b, st
<1>4. At(st, Len(s), b)
  <2>1. \A j \in 1..Len(b) : st[Len(s) + j] = b[j]
    <3>1. TAKE j \in 1..Len(b)
    <3>2. /\ Len(s) + j \in 1..(Len(s) + Len(b)) /\ ~(Len(s) + j <= Len(s))
          /\ (Len(s) + j) - Len(s) = j
      BY <1>2
    <3>3. QED BY <1>2, <3>2
  <2>2. QED BY <1>2, <2>1 DEF At
<1>5. \A k \in 1..n : \A o \in Nat : At(s, o, ss[k]) => At(st, o, ss[k])
  BY <1>1, <1>3, AtConcat DEF st
<1>6. \A k \in 1..(n + 1) : \E o \in Nat : At(st, o, ss[k])
  <2>1. TAKE k \in 1..(n + 1)
  <2>2. CASE k = n + 1 BY <1>2, <1>4, <2>2 DEF b
  <2>3. CASE k \in 1..n BY <1>5, <2>3 DEF IsPut
  <2>4. QED BY <2>2, <2>3
<1>7. \A p \in 1..Len(st) : \E k \in 1..(n + 1) : IsIn(p, st, ss[k])
  <2>1. TAKE p \in 1..Len(st)
  <2>2. CASE p <= Len(s)
    <3>1. PICK k \in 1..n : IsIn(p, s, ss[k]) BY <1>2, <2>2 DEF IsPut
    <3>2. IsIn(p, st, ss[k]) BY <1>5, <3>1 DEF IsIn
    <3>3. k \in 1..(n + 1) OBVIOUS
    <3>4. QED BY <3>2, <3>3
  <2>3. CASE p > Len(s)
    <3>1. IsIn(p, st, b)
      <4>1. p \in (Len(s) + 1)..(Len(s) + Len(b)) BY <1>2, <2>3
      <4>2. QED BY <1>2, <1>4, <4>1 DEF IsIn
    <3>2. QED BY <3>1 DEF b
  <2>4. QED BY <1>2, <2>2, <2>3
<1>8. QED BY <1>6, <1>7 DEF IsPut, st, b

(* FlattenSeq is made of exactly the sequences it is given: by induction   *)
(* over their number.                                                      *)
LEMMA FlattenIsPut ==
    ASSUME NEW T, NEW ss \in Seq(Seq(T))
    PROVE  FlattenSeq(ss) \in Seq(T) /\ IsPut(FlattenSeq(ss), ss, Len(ss))
<1> DEFINE N == Len(ss)
<1>1. N \in Nat BY LenProperties
<1>2. CASE N = 0
  <2>1. ss = << >> BY <1>2, EmptySeq
  <2>2. FlattenSeq(ss) = ss BY <1>2 DEF FlattenSeq
  <2>3. << >> \in Seq(T) /\ Len(<< >>) = 0 BY EmptySeq
  <2>4. IsPut(<< >>, ss, 0) BY <2>3 DEF IsPut
  <2>5. FlattenSeq(ss) = << >> BY <2>1, <2>2
  <2> HIDE DEF N
  <2>6. IsPut(FlattenSeq(ss), ss, N) BY <1>2, <2>4, <2>5
  <2>7. QED BY <2>3, <2>5, <2>6 DEF N
<1>3. CASE N # 0
  <2>1. PICK g : IsJoin(g, ss, N) /\ FlattenSeq(ss) = g[N] BY <1>1, <1>3, FlattenIsJoin
  <2> DEFINE P(n) == n + 1 <= N => g[n + 1] \in Seq(T) /\ IsPut(g[n + 1], ss, n + 1)
             S == {n \in Nat : P(n)}
  <2>2. \A i \in 1..N : g[i] = IF i = 1 THEN ss[i] ELSE g[i - 1] \o ss[i]
    BY <2>1 DEF IsJoin
  <2>3. \A k \in 1..N : ss[k] \in Seq(T) BY ElementOfSeq
  <2> HIDE DEF N
  <2>4. P(0)
    <3>1. g[1] = ss[1] /\ ss[1] \in Seq(T) BY <1>1, <1>3, <2>2, <2>3
    <3>2. << >> \in Seq(T) /\ Len(<< >>) = 0 BY EmptySeq
    <3>3. IsPut(<< >>, ss, 0) BY <3>2 DEF IsPut
    <3>4. IsPut(<< >> \o ss[1], ss, 1) 
      <4>1. 0 + 1 <= Len(ss) BY <1>1, <1>3 DEF N
      <4>2. IsPut(<< >> \o ss[0 + 1], ss, 0 + 1) BY <3>2, <3>3, <4>1, PutOne
      <4>3. QED BY <4>2
    <3>5. << >> \o ss[1] = ss[1] BY <3>1, ConcatEmptySeq
    <3>6. QED BY <3>1, <3>4, <3>5
  <2>5. ASSUME NEW n \in Nat, P(n) PROVE P(n + 1)
    <3>1. SUFFICES ASSUME (n + 1) + 1 <= N
                   PROVE  /\ g[(n + 1) + 1] \in Seq(T)
                          /\ IsPut(g[(n + 1) + 1], ss, (n + 1) + 1)
      OBVIOUS
    <3>2. g[n + 1] \in Seq(T) /\ IsPut(g[n + 1], ss, n + 1) BY <1>1, <2>5, <3>1
    <3>3. g[(n + 1) + 1] = g[n + 1] \o ss[(n + 1) + 1]
      <4>1. (n + 1) + 1 \in 1..N /\ (n + 1) + 1 # 1 /\ ((n + 1) + 1) - 1 = n + 1
        BY <1>1, <3>1
      <4>2. QED BY <2>2, <4>1
    <3>4. ss[(n + 1) + 1] \in Seq(T) BY <1>1, <2>3, <3>1
    <3>5. IsPut(g[n + 1] \o ss[(n + 1) + 1], ss, (n + 1) + 1)
      BY <3>1, <3>2, PutOne DEF N
    <3>6. g[n + 1] \o ss[(n + 1) + 1] \in Seq(T) BY <3>2, <3>4, ConcatProperties
    <3>7. QED BY <3>3, <3>5, <3>6
  <2>6. Nat \subseteq S
    <3>1. 0 \in S BY <2>4
    <3>2. \A n \in Nat : n \in S => n + 1 \in S BY <2>5
    <3> HIDE DEF S
    <3>3. QED BY <3>1, <3>2, Induction
  <2>7. P(N - 1)
    <3>1. N - 1 \in Nat BY <1>1, <1>3
    <3>2. N - 1 \in S BY <2>6, <3>1
    <3>3. QED BY <3>2
  <2>8. g[N] \in Seq(T) /\ IsPut(g[N], ss, N) 
     <3>1. (N - 1) + 1 = N /\ N <= N BY <1>1
     <3>2. QED BY <2>7, <3>1
  <2>9. QED BY <2>1, <2>8 DEF N
<1>4. QED BY <1>2, <1>3

---------------------------------------------------------------------------
(* A sequence, of whatever elements.                                       *)
IsSeq(s) == s \in Seq({s[i] : i \in DOMAIN s})

(* Every sequence is one, and its domain begins at 1.                      *)
LEMMA IsSeqOf ==
    ASSUME NEW S, NEW s \in Seq(S)
    PROVE  IsSeq(s) /\ Len(s) \in Nat /\ DOMAIN s = 1..Len(s)
BY SequencesAre DEF IsSeq

(* Any two sequences have elements of one set.                             *)
LEMMA OneSet ==
    ASSUME NEW s, NEW t, IsSeq(s), IsSeq(t)
    PROVE  \E S : s \in Seq(S) /\ t \in Seq(S)
<1> DEFINE S == {s[i] : i \in DOMAIN s}  T == {t[i] : i \in DOMAIN t}
<1>1. s \in Seq(S) /\ t \in Seq(T) BY DEF IsSeq
<1> HIDE DEF S, T
<1>2. Seq(S) \subseteq Seq(S \cup T) /\ Seq(T) \subseteq Seq(S \cup T) BY SeqDef
<1>3. QED BY <1>1, <1>2

(* Two sequences joined have the elements of both, in their order.         *)
LEMMA IsSeqConcat ==
    ASSUME NEW s, NEW t, IsSeq(s), IsSeq(t)
    PROVE  /\ IsSeq(s \o t) /\ Len(s) \in Nat /\ Len(t) \in Nat
           /\ Len(s \o t) = Len(s) + Len(t)
           /\ \A i \in 1..Len(s) : (s \o t)[i] = s[i]
           /\ \A i \in 1..Len(t) : (s \o t)[Len(s) + i] = t[i]
<1>1. PICK S : s \in Seq(S) /\ t \in Seq(S) BY OneSet
<1>2. /\ s \o t \in Seq(S) /\ Len(s) \in Nat /\ Len(t) \in Nat
      /\ Len(s \o t) = Len(s) + Len(t)
      /\ \A i \in 1..(Len(s) + Len(t)) :
            (s \o t)[i] = IF i <= Len(s) THEN s[i] ELSE t[i - Len(s)]
  BY <1>1, ConcatProperties, LenProperties
<1>3. IsSeq(s \o t) BY <1>2, IsSeqOf
<1>4. \A i \in 1..Len(s) : (s \o t)[i] = s[i] BY <1>2
<1>5. ASSUME NEW i \in 1..Len(t) PROVE (s \o t)[Len(s) + i] = t[i]
  <2>1. /\ Len(s) + i \in 1..(Len(s) + Len(t)) /\ ~(Len(s) + i <= Len(s))
        /\ (Len(s) + i) - Len(s) = i
    BY <1>2
  <2>2. QED BY <1>2, <2>1
<1>6. QED BY <1>2, <1>3, <1>4, <1>5

---------------------------------------------------------------------------
(* The commands that do something to a range.                              *)
Acts == {"format", "mount", "chmod", "chown"}

(* A script with the blocks B in it, and in which only these blocks act.   *)
IsMade(s, B) ==
    /\ IsSeq(s)
    /\ \A b \in B : \E o \in Nat : At(s, o, b)
    /\ \A p \in 1..Len(s) : s[p].do \in Acts => \E b \in B : IsIn(p, s, b)

(* A script that does nothing to a range is made of no blocks.             *)
LEMMA MadeQuiet ==
    ASSUME NEW s, IsSeq(s), \A p \in 1..Len(s) : s[p].do \notin Acts
    PROVE  IsMade(s, {})
BY DEF IsMade

(* Two scripts joined are made of the blocks of both.                      *)
LEMMA MadeConcat ==
    ASSUME NEW s, NEW t, NEW B, NEW C, IsMade(s, B), IsMade(t, C),
           \A b \in B \cup C : IsSeq(b)
    PROVE  IsMade(s \o t, B \cup C)
<1> DEFINE st == s \o t
<1>1. /\ IsSeq(s) /\ IsSeq(t) /\ IsSeq(st) /\ Len(s) \in Nat /\ Len(t) \in Nat
      /\ Len(st) = Len(s) + Len(t)
      /\ \A i \in 1..Len(s) : st[i] = s[i]
      /\ \A i \in 1..Len(t) : st[Len(s) + i] = t[i]
  BY IsSeqConcat DEF IsMade
<1>2. ASSUME NEW b \in B \cup C, NEW o \in Nat
      PROVE  /\ At(s, o, b) => At(st, o, b)
             /\ At(t, o, b) => At(st, Len(s) + o, b)
  <2>1. IsSeq(b) OBVIOUS
  <2> DEFINE U == {s[i] : i \in DOMAIN s} \cup {t[i] : i \in DOMAIN t}
                    \cup {b[i] : i \in DOMAIN b}
  <2>2. \A r : IsSeq(r) /\ {r[i] : i \in DOMAIN r} \subseteq U => r \in Seq(U)
    <3> HIDE DEF U
    <3>1. TAKE r
    <3>2. HAVE IsSeq(r) /\ {r[i] : i \in DOMAIN r} \subseteq U
    <3> DEFINE R == {r[i] : i \in DOMAIN r}
    <3>3. r \in Seq(R) /\ R \subseteq U BY <3>2 DEF IsSeq
    <3> HIDE DEF R
    <3>4. Seq(R) \subseteq Seq(U) BY <3>3, SeqDef
    <3>5. QED BY <3>3, <3>4
  <2>3. s \in Seq(U) /\ t \in Seq(U) /\ b \in Seq(U) BY <1>1, <2>1, <2>2
  <2> HIDE DEF U
  <2>4. QED BY <2>3, AtConcat
<1> HIDE DEF st
<1>3. ASSUME NEW b \in B \cup C PROVE \E o \in Nat : At(st, o, b)
  <2>1. CASE b \in B BY <1>2, <2>1 DEF IsMade
  <2>2. CASE b \in C
    <3>1. PICK o \in Nat : At(t, o, b) BY <2>2 DEF IsMade
    <3>2. At(st, Len(s) + o, b) /\ Len(s) + o \in Nat BY <1>1, <1>2, <3>1
    <3>3. QED BY <3>2
  <2>3. QED BY <2>1, <2>2
<1>4. ASSUME NEW p \in 1..Len(st), st[p].do \in Acts
      PROVE  \E b \in B \cup C : IsIn(p, st, b)
  <2>1. CASE p <= Len(s)
    <3>1. p \in 1..Len(s) /\ s[p].do \in Acts BY <1>1, <1>4, <2>1
    <3>2. PICK b \in B : IsIn(p, s, b) BY <3>1 DEF IsMade
    <3>3. IsIn(p, st, b) BY <1>2, <3>2 DEF IsIn
    <3>4. QED BY <3>3
  <2>2. CASE p > Len(s)
    <3> DEFINE q == p - Len(s)
    <3>1. q \in 1..Len(t) /\ Len(s) + q = p BY <1>1, <2>2
    <3>2. t[q].do \in Acts BY <1>1, <1>4, <3>1
    <3>3. PICK b \in C : IsIn(q, t, b) BY <3>1, <3>2 DEF IsMade
    <3>4. PICK o \in Nat : At(t, o, b) /\ q \in (o + 1)..(o + Len(b)) BY <3>3 DEF IsIn
    <3>5. At(st, Len(s) + o, b) /\ Len(s) + o \in Nat BY <1>1, <1>2, <3>4
    <3>6. Len(b) \in Nat BY IsSeqOf DEF IsSeq
    <3>7. p \in ((Len(s) + o) + 1)..((Len(s) + o) + Len(b)) BY <1>1, <3>1, <3>4, <3>6
    <3>8. IsIn(p, st, b) BY <3>5, <3>7 DEF IsIn
    <3>9. QED BY <3>8
  <2>3. QED BY <1>1, <2>1, <2>2
<1>5. IsMade(st, B \cup C) BY <1>1, <1>3, <1>4 DEF IsMade
<1>6. QED BY <1>5 DEF st

(* FlattenSeq makes a script of blocks.                                    *)
LEMMA MadeFlatten ==
    ASSUME NEW n \in Nat, NEW ss, ss = [i \in 1..n |-> ss[i]],
           \A i \in 1..n : IsSeq(ss[i])
    PROVE  /\ IsSeq(FlattenSeq(ss))
           /\ IsMade(FlattenSeq(ss), {ss[i] : i \in 1..n})
           /\ \A p \in 1..Len(FlattenSeq(ss)) : \E k \in 1..n :
                IsIn(p, FlattenSeq(ss), ss[k])
<1> DEFINE U == UNION {{ss[i][j] : j \in DOMAIN ss[i]} : i \in 1..n}
           f == FlattenSeq(ss)
<1>1. ASSUME NEW i \in 1..n PROVE ss[i] \in Seq(U)
  <2> DEFINE R == {ss[i][j] : j \in DOMAIN ss[i]}
  <2>1. ss[i] \in Seq(R) BY DEF IsSeq
  <2>2. R \subseteq U OBVIOUS
  <2> HIDE DEF R, U
  <2>3. Seq(R) \subseteq Seq(U) BY <2>2, SeqDef
  <2>4. QED BY <2>1, <2>3
<1> HIDE DEF U
<1>2. ss \in [1..n -> Seq(U)] BY <1>1
<1>3. ss \in Seq(Seq(U)) BY <1>2, SeqDef
<1>4. Len(ss) = n
  <2>1. DOMAIN ss = 1..n OBVIOUS
  <2>2. QED BY <1>3, <2>1, LenProperties
<1>5. f \in Seq(U) /\ IsPut(f, ss, n) BY <1>3, <1>4, FlattenIsPut
<1> HIDE DEF f
<1>6. IsSeq(f) BY <1>5, IsSeqOf
<1>7. IsMade(f, {ss[i] : i \in 1..n})
  BY <1>5, <1>6 DEF IsMade, IsPut
<1>8. QED BY <1>5, <1>6, <1>7 DEF IsPut, f

---------------------------------------------------------------------------
(* The block e is b with the command d put behind it, or it is b.          *)
IsMore(e, b, d) ==
    /\ IsSeq(e) /\ Len(e) = Len(b) + 1 /\ e[Len(b) + 1] = d
    /\ \A i \in 1..Len(b) : e[i] = b[i]

IsSame(e, b) ==
    /\ IsSeq(e) /\ Len(e) = Len(b)
    /\ \A i \in 1..Len(b) : e[i] = b[i]

(* One command or none is put behind a block.                              *)
LEMMA OneMore ==
    ASSUME NEW b, IsSeq(b), NEW d
    PROVE  IsMore(b \o <<d>>, b, d) /\ IsSame(b \o << >>, b)
<1>1. IsSeq(<<d>>) /\ IsSeq(<< >>)
  <2>1. <<d>> \in Seq({d}) /\ << >> \in Seq({d}) OBVIOUS
  <2>2. QED BY <2>1, IsSeqOf
<1>2. Len(<<d>>) = 1 /\ Len(<< >>) = 0 /\ <<d>>[1] = d OBVIOUS
<1>3. \A D : IsSeq(D) =>
      /\ IsSeq(b \o D) /\ Len(b) \in Nat
      /\ Len(b \o D) = Len(b) + Len(D)
      /\ \A i \in 1..Len(b) : (b \o D)[i] = b[i]
      /\ \A i \in 1..Len(D) : (b \o D)[Len(b) + i] = D[i]
  BY IsSeqConcat
<1>4. IsMore(b \o <<d>>, b, d) BY <1>1, <1>2, <1>3 DEF IsMore
<1>5. IsSame(b \o << >>, b) BY <1>1, <1>2, <1>3 DEF IsSame
<1>6. QED BY <1>4, <1>5

(* A block of the script that begins with the lookup L, and has no other.  *)
IsBlock(b, L) ==
    /\ IsSeq(b) /\ Len(b) \in Nat \ {0}
    /\ b[1] = L /\ L.do = "lookup"
    /\ \A j \in 2..Len(b) : b[j].do # "lookup"

(* Of a command in such a block the lookup is that of the block.           *)
LEMMA LookupOfBlock ==
    ASSUME NEW script, NEW b, NEW L, IsBlock(b, L), NEW o \in Nat, At(script, o, b),
           NEW p \in (o + 1)..(o + Len(b))
    PROVE  LookupOf(script, p) = L
<1> DEFINE IsLast(q) == /\ script[q].do = "lookup"
                        /\ \A r \in q + 1 .. p : script[r].do # "lookup"
           q == CHOOSE x \in 1..p : IsLast(x)
<1>1. /\ \A j \in 1..Len(b) : script[o + j] = b[j]
      /\ Len(b) \in Nat /\ Len(b) >= 1 /\ p \in Nat
  BY DEF At, IsBlock
<1>2. script[o + 1] = L BY <1>1 DEF IsBlock
<1>3. ASSUME NEW r \in o + 2 .. p PROVE script[r].do # "lookup"
  <2>1. r - o \in 2..Len(b) /\ o + (r - o) = r BY <1>1
  <2>2. script[r] = b[r - o] BY <1>1, <2>1
  <2>3. QED BY <2>1, <2>2 DEF IsBlock
<1>4. o + 1 \in 1..p BY <1>1
<1>5. IsLast(o + 1)
  <2>1. \A r \in (o + 1) + 1 .. p : r \in o + 2 .. p BY <1>1
  <2>2. QED BY <1>2, <1>3, <2>1 DEF IsBlock
<1>6. q \in 1..p /\ IsLast(q)
  <2> HIDE DEF IsLast
  <2>1. QED BY <1>4, <1>5
<1>7. q = o + 1
  <2> HIDE DEF q
  <2>1. CASE q < o + 1
    <3>1. o + 1 \in q + 1 .. p BY <1>1, <1>6, <2>1
    <3>2. QED BY <1>2, <1>6, <3>1 DEF IsBlock
  <2>2. CASE q > o + 1
    <3>1. q \in o + 2 .. p BY <1>1, <1>6, <2>2
    <3>2. QED BY <1>3, <1>6, <3>1
  <2>3. QED BY <1>6, <2>1, <2>2
<1>8. QED BY <1>2, <1>7 DEF LookupOf

(* What may be done to a drive or an NVRAM.                                *)
Format == [do |-> "format"]
MountAt(drive) ==
    [do |-> "mount", at |-> driveMount(drive).mountPoint, readOnly |-> drive.readOnly]
ChmodOf(nvram) ==
    [do |-> "chmod", mode |-> IF nvram.readOnly THEN "0444" ELSE "0664"]

(* What init does to a drive: after its lookup, whatever is optional.      *)
LEMMA DriveBlock ==
    ASSUME NEW drive, NEW label
    PROVE  LET b == driveInit(drive, label)
               do == driveMount(drive)
           IN /\ b = << >> \/ IsBlock(b, Lookup("flashdrive", label))
              /\ \A j \in 2..Len(b) :
                   \/ do.format /\ b[j] = Format
                   \/ b[j] = MountAt(drive)
                   \/ /\ b[j] = Chown(drive.user, do.mountPoint)
                      /\ do.mountPoint # Nowhere => \E k \in 2..j : b[k] = MountAt(drive)
              /\ label # Root /\ do.format => Len(b) >= 2 /\ b[2] = Format
<1> DEFINE do == driveMount(drive)
           L == Lookup("flashdrive", label)
           f == Format
           m == MountAt(drive)
           c == Chown(drive.user, do.mountPoint)
           F == do.format
           M == do.mountPoint # Nowhere
           C == drive.user # Blank
           b0 == <<L>>
           b1 == b0 \o Optional(F, <<f>>)
           b2 == b1 \o Optional(M, <<m>>)
           b3 == b2 \o Optional(C, <<c>>)
<1>1. driveInit(drive, label) = Optional(label # Root /\ (F \/ M \/ C), b3)
  BY DEF driveInit, Format, MountAt
<1>2. F \in BOOLEAN BY DEF driveMount
<1>3. IsSeq(b0) /\ Len(b0) = 1 /\ b0[1] = L
  <2>1. b0 \in Seq({L}) /\ Len(b0) = 1 /\ b0[1] = L OBVIOUS
  <2>2. QED BY <2>1, IsSeqOf
<1> HIDE DEF b0
<1>4. (F => IsMore(b1, b0, f)) /\ (~F => IsSame(b1, b0))
  BY <1>3, OneMore DEF Optional
<1>5. IsSeq(b1) BY <1>4 DEF IsMore, IsSame
<1> HIDE DEF b1
<1>6. (M => IsMore(b2, b1, m)) /\ (~M => IsSame(b2, b1))
  BY <1>5, OneMore DEF Optional
<1>7. IsSeq(b2) BY <1>6 DEF IsMore, IsSame
<1> HIDE DEF b2
<1>8. (C => IsMore(b3, b2, c)) /\ (~C => IsSame(b3, b2))
  BY <1>7, OneMore DEF Optional
<1> HIDE DEF b3, f, m, c, L
<1> HIDE DEF F, M, C
<1>9. /\ IsSeq(b3) /\ Len(b3) \in Nat \ {0} /\ b3[1] = L
      /\ F => Len(b3) >= 2 /\ b3[2] = f
      /\ \A j \in 2..Len(b3) :
            \/ F /\ b3[j] = f
            \/ b3[j] = m
            \/ b3[j] = c /\ (M => \E k \in 2..j : b3[k] = m)
  <2>1. /\ Len(b1) = IF F THEN 2 ELSE 1
        /\ b1[1] = L /\ (F => b1[2] = f)
    BY <1>3, <1>4 DEF IsMore, IsSame
  <2>2. /\ Len(b2) = IF M THEN Len(b1) + 1 ELSE Len(b1)
        /\ b2[1] = L /\ (F => b2[2] = f) /\ (M => b2[Len(b1) + 1] = m)
    BY <1>6, <2>1 DEF IsMore, IsSame
  <2>3. /\ Len(b3) = IF C THEN Len(b2) + 1 ELSE Len(b2)
        /\ b3[1] = L /\ (F => b3[2] = f) /\ (M => b3[Len(b1) + 1] = m)
        /\ C => b3[Len(b2) + 1] = c
    BY <1>8, <2>1, <2>2 DEF IsMore, IsSame
  <2>4. IsSeq(b3) BY <1>8 DEF IsMore, IsSame
  <2>5. ASSUME NEW j \in 2..Len(b3)
        PROVE  \/ F /\ b3[j] = f
               \/ b3[j] = m
               \/ b3[j] = c /\ (M => \E k \in 2..j : b3[k] = m)
    <3>1. j \in {2, 3, 4} BY <2>1, <2>2, <2>3
    <3>2. CASE F /\ j = 2 BY <2>3, <3>2
    <3>3. CASE M /\ j = Len(b1) + 1 BY <2>3, <3>3
    <3>4. CASE C /\ j = Len(b2) + 1
      <4>1. b3[j] = c BY <2>3, <3>4
      <4>2. M => Len(b1) + 1 \in 2..j BY <2>1, <2>2, <3>4
      <4>3. QED BY <2>3, <3>4, <4>1, <4>2
    <3>5. QED BY <2>1, <2>2, <2>3, <3>1, <3>2, <3>3, <3>4
  <2>6. Len(b3) \in Nat \ {0} /\ (F => Len(b3) >= 2) BY <2>1, <2>2, <2>3
  <2>7. QED BY <2>3, <2>4, <2>5, <2>6
<1>10. f.do # "lookup" /\ m.do # "lookup" /\ c.do # "lookup" /\ L.do = "lookup"
  BY DEF f, m, c, L, Format, MountAt, Chown, Lookup
<1>11. IsBlock(b3, L) BY <1>9, <1>10 DEF IsBlock
<1>12. CASE label # Root /\ (F \/ M \/ C)
  <2>1. driveInit(drive, label) = b3 BY <1>1, <1>12 DEF Optional, F, M, C
  <2>2. QED BY <1>9, <1>11, <2>1 DEF f, m, c, L, F, M
<1>13. CASE ~(label # Root /\ (F \/ M \/ C))
  <2>1. driveInit(drive, label) = << >> BY <1>1, <1>13 DEF Optional, F, M, C
  <2>2. Len(<< >>) = 0 OBVIOUS
  <2>3. QED BY <1>13, <2>1, <2>2 DEF F, M, C
<1>14. QED BY <1>12, <1>13

(* And to an NVRAM.                                                        *)
LEMMA NvramBlock ==
    ASSUME NEW nvram, NEW label
    PROVE  LET b == nvramInit(nvram, label)
           IN /\ IsBlock(b, Lookup("nvram", label))
              /\ \A j \in 2..Len(b) :
                   \/ b[j] = ChmodOf(nvram)
                   \/ b[j] = Chown(nvram.user, Nowhere)
<1> DEFINE L == Lookup("nvram", label)
           m == ChmodOf(nvram)
           c == Chown(nvram.user, Nowhere)
           C == nvram.user # Blank
           b1 == <<L, m>>
           b2 == b1 \o Optional(C, <<c>>)
<1>1. nvramInit(nvram, label) = b2 BY DEF nvramInit, ChmodOf
<1>2. IsSeq(b1) /\ Len(b1) = 2 /\ b1[1] = L /\ b1[2] = m
  <2>1. b1 \in Seq({L, m}) /\ Len(b1) = 2 /\ b1[1] = L /\ b1[2] = m OBVIOUS
  <2>2. QED BY <2>1, IsSeqOf
<1> HIDE DEF b1
<1>3. (C => IsMore(b2, b1, c)) /\ (~C => IsSame(b2, b1))
  BY <1>2, OneMore DEF Optional
<1> HIDE DEF b2
<1>4. m.do # "lookup" /\ c.do # "lookup" /\ L.do = "lookup" BY DEF Chown, Lookup, ChmodOf
<1> HIDE DEF m, c, L, C
<1>5. /\ IsSeq(b2) /\ Len(b2) \in {2, 3} /\ b2[1] = L /\ b2[2] = m
      /\ Len(b2) = 3 => b2[3] = c
  BY <1>2, <1>3 DEF IsMore, IsSame
<1>6. \A j \in 2..Len(b2) : b2[j] = m \/ b2[j] = c
  <2>1. CASE Len(b2) = 2 BY <1>5, <2>1
  <2>2. CASE Len(b2) = 3 BY <1>5, <2>2
  <2>3. QED BY <1>5, <2>1, <2>2
<1>7. IsBlock(b2, L) BY <1>4, <1>5, <1>6 DEF IsBlock
<1>8. QED BY <1>1, <1>6, <1>7 DEF m, c, L

(* The ranges of a kind that a label leads to.                             *)
Found(ranges, kind, label) ==
    {k \in DOMAIN ranges : \/ label = Automatic(kind, k - 1)
                           \/ label # NoLabel /\ label = ranges[k].label}

(* Among ranges with names that are not reserved, and each with its own,   *)
(* the name of one, or if it has none its place, leads to this one.        *)
LEMMA OneRange ==
    ASSUME NEW kind \in Kinds, NEW ranges, IsSeq(ranges),
           \A k \in 1..Len(ranges) : labelProblem(ranges[k].label) = "none",
           \A j, k \in 1..Len(ranges) :
                ranges[j].label # NoLabel /\ ranges[j].label = ranges[k].label => j = k,
           NEW i \in 1..Len(ranges)
    PROVE  Found(ranges, kind, deviceLabel(ranges[i].label, kind, i - 1)) = {i}
<1> DEFINE n == Len(ranges)  label == deviceLabel(ranges[i].label, kind, i - 1)
<1>0. n \in Nat /\ DOMAIN ranges = 1..n BY IsSeqOf DEF IsSeq
<1> HIDE DEF n
<1>1. \A k : Len(Automatic(kind, k)) = 2 /\ Automatic(kind, k)[1] = kind
  BY DEF Automatic
<1>2. \A k \in 1..n : \A j : ranges[k].label # Automatic(kind, j)
  <2>1. TAKE k \in 1..n
  <2>2. TAKE j
  <2>3. SUFFICES ASSUME ranges[k].label = Automatic(kind, j) PROVE FALSE OBVIOUS
  <2>4. labelProblem(Automatic(kind, j)) # "none" BY <1>1 DEF labelProblem
  <2>5. QED BY <2>3, <2>4 DEF n
<1>3. \A j, k \in 1..n : Automatic(kind, j - 1) = Automatic(kind, k - 1) => j = k
  BY DEF Automatic
<1>4. ASSUME ranges[i].label = NoLabel PROVE Found(ranges, kind, label) = {i}
  <2>1. label = Automatic(kind, i - 1) BY <1>4 DEF deviceLabel
  <2>2. \A k \in 1..n : label # ranges[k].label BY <1>2, <2>1
  <2>3. QED BY <1>0, <1>3, <2>1, <2>2 DEF Found
<1>5. ASSUME ranges[i].label # NoLabel PROVE Found(ranges, kind, label) = {i}
  <2>1. label = ranges[i].label BY <1>5 DEF deviceLabel
  <2>5. i \in 1..n BY DEF n
  <2> HIDE DEF label
  <2>2. \A k \in 1..n : label # Automatic(kind, k - 1) BY <1>2, <2>1, <2>5
  <2>3. \A k \in 1..n : label = ranges[k].label => i = k BY <1>5, <2>1 DEF n
  <2>4. QED BY <1>0, <1>5, <2>1, <2>2, <2>3, <2>5 DEF Found
<1>6. QED BY <1>4, <1>5

Before(form) == IF HasRoot(form) THEN 1 ELSE 0

DriveLabel(form, i) == deviceLabel(form.drives[i].label, "flashdrive", Before(form) + i - 1)
NvramLabel(form, i) == deviceLabel(form.nvrams[i].label, "nvram", i - 1)

(* A form none of whose labels is refused: the label that init looks for   *)
(* leads to the range it is meant for.                                     *)
LEMMA LabelsLead ==
    ASSUME NEW form, IsSeq(form.drives), IsSeq(form.nvrams), claims(form) = {}
    PROVE  /\ \A i \in DOMAIN form.drives :
                Resolved(generate(form), Lookup("flashdrive", DriveLabel(form, i)))
                    = {Before(form) + i}
           /\ \A i \in DOMAIN form.nvrams :
                Resolved(generate(form), Lookup("nvram", NvramLabel(form, i))) = {i}
<1> DEFINE root == [label |-> Root, image |-> form.rootfsId, length |-> Null,
                    start |-> Null, read_only |-> form.rootfsReadOnly]
           first == Optional(HasRoot(form), <<root>>)
           drives == [i \in DOMAIN form.drives |-> RangeOf(form.drives[i])]
           flash == flashDrives(form)
           nvrams == nvramRanges(form)
           claimed == flash \o nvrams
           machine == generate(form)
<1>1. machine.flash_drive = flash /\ machine.nvram = nvrams BY DEF generate
<1>2. /\ IsSeq(drives) /\ DOMAIN drives = DOMAIN form.drives
      /\ \A i \in DOMAIN form.drives : drives[i].label = form.drives[i].label
  BY RangesOf DEF IsSeq, RangeOf
<1>3. /\ IsSeq(nvrams) /\ DOMAIN nvrams = DOMAIN form.nvrams
      /\ \A i \in DOMAIN form.nvrams : nvrams[i].label = form.nvrams[i].label
  <2>1. nvrams = [i \in DOMAIN form.nvrams |-> RangeOf(form.nvrams[i])] BY DEF nvramRanges
  <2>2. IsSeq(nvrams) BY <2>1, RangesOf DEF IsSeq
  <2>3. QED BY <2>1, <2>2 DEF RangeOf
<1>4. IsSeq(first) /\ Len(first) = Before(form)
  <2>1. <<root>> \in Seq({root}) /\ Len(<<root>>) = 1 /\ << >> \in Seq({root}) /\ Len(<< >>) = 0
    OBVIOUS
  <2> HIDE DEF root
  <2>2. CASE HasRoot(form)
    <3>1. first = <<root>> /\ Before(form) = 1 BY <2>2 DEF Optional, Before
    <3>2. QED BY <2>1, <3>1, IsSeqOf
  <2>3. CASE ~HasRoot(form)
    <3>1. first = << >> /\ Before(form) = 0 BY <2>3 DEF Optional, Before
    <3>2. QED BY <2>1, <3>1, IsSeqOf
  <2>4. QED BY <2>2, <2>3
<1>5. flash = first \o drives BY DEF flashDrives
<1> HIDE DEF first, drives, flash, nvrams, machine
<1>6. /\ IsSeq(flash) /\ Len(drives) \in Nat
      /\ Len(flash) = Before(form) + Len(drives)
      /\ \A i \in 1..Len(drives) : flash[Before(form) + i] = drives[i]
  <2>1. /\ IsSeq(first \o drives) /\ Len(drives) \in Nat
        /\ Len(first \o drives) = Len(first) + Len(drives)
        /\ \A i \in 1..Len(drives) : (first \o drives)[Len(first) + i] = drives[i]
    BY <1>2, <1>4, IsSeqConcat
  <2>2. QED BY <1>4, <1>5, <2>1
<1>7. /\ IsSeq(claimed) /\ Len(flash) \in Nat /\ Len(nvrams) \in Nat
      /\ Len(claimed) = Len(flash) + Len(nvrams)
      /\ \A i \in 1..Len(flash) : claimed[i] = flash[i]
      /\ \A i \in 1..Len(nvrams) : claimed[Len(flash) + i] = nvrams[i]
  BY <1>3, <1>6, IsSeqConcat
<1>8. /\ DOMAIN claimed = 1..Len(claimed) /\ DOMAIN flash = 1..Len(flash)
      /\ DOMAIN nvrams = 1..Len(nvrams) /\ DOMAIN drives = 1..Len(drives)
  BY <1>2, <1>3, <1>6, <1>7, IsSeqOf DEF IsSeq
<1>9. /\ \A i \in 1..Len(claimed) : labelProblem(claimed[i].label) = "none"
      /\ \A i \in 1..Len(claimed) : \A j \in 1..(i - 1) :
            claimed[i].label # NoLabel => claimed[j].label # claimed[i].label
  <2>1. claims(form) = {i \in DOMAIN claimed :
            \/ labelProblem(claimed[i].label) # "none"
            \/ claimed[i].label # NoLabel
               /\ \E j \in 1..(i - 1) : claimed[j].label = claimed[i].label}
    BY DEF claims, flash, nvrams
  <2> HIDE DEF claimed
  <2>2. QED BY <1>8, <2>1
<1> HIDE DEF claimed
<1>10. \A i, j \in 1..Len(claimed) :
            claimed[i].label # NoLabel /\ claimed[i].label = claimed[j].label => i = j
  <2>1. TAKE i, j \in 1..Len(claimed)
  <2>2. HAVE claimed[i].label # NoLabel /\ claimed[i].label = claimed[j].label
  <2>3. Len(claimed) \in Nat BY <1>6, <1>7
  <2>4. ~(j < i)
    <3>1. j < i => j \in 1..(i - 1) BY <2>3
    <3>2. QED BY <1>9, <2>2, <3>1
  <2>5. ~(i < j)
    <3>1. i < j => i \in 1..(j - 1) BY <2>3
    <3>2. QED BY <1>9, <2>2, <3>1
  <2>6. QED BY <2>3, <2>4, <2>5
<1>11. ASSUME NEW i \in DOMAIN form.drives
       PROVE  Resolved(machine, Lookup("flashdrive", DriveLabel(form, i))) = {Before(form) + i}
  <2> DEFINE k == Before(form) + i
             label == DriveLabel(form, i)
  <2>1. k \in 1..Len(flash) /\ flash[k].label = form.drives[i].label
    <3>1. i \in 1..Len(drives) BY <1>2, <1>8
    <3>2. flash[k] = drives[i] BY <1>6, <3>1
    <3>3. k \in 1..Len(flash) BY <1>6, <3>1 DEF Before
    <3>4. QED BY <1>2, <3>2, <3>3
  <2>2. /\ \A j \in 1..Len(flash) : labelProblem(flash[j].label) = "none"
        /\ \A j, l \in 1..Len(flash) :
              flash[j].label # NoLabel /\ flash[j].label = flash[l].label => j = l
    <3>1. \A j \in 1..Len(flash) : j \in 1..Len(claimed) /\ claimed[j] = flash[j] BY <1>7
    <3>2. QED BY <1>9, <1>10, <3>1
  <2>3. label = deviceLabel(form.drives[i].label, "flashdrive", k - 1)
    <3>1. Before(form) \in Nat /\ i \in Nat BY <1>2, <1>6, <1>8 DEF Before
    <3>2. k - 1 = Before(form) + i - 1 BY <3>1
    <3>3. QED BY <3>2 DEF DriveLabel
  <2> HIDE DEF k, label
  <2>4. Found(flash, "flashdrive", label) = {k}
    <3>1. "flashdrive" \in Kinds BY DEF Kinds
    <3>2. Found(flash, "flashdrive", deviceLabel(flash[k].label, "flashdrive", k - 1)) = {k}
      <4>1. IsSeq(flash) /\ k \in 1..Len(flash) BY <1>6, <2>1
      <4>2. QED BY <2>2, <3>1, <4>1, OneRange
    <3>3. QED BY <2>1, <2>3, <3>2
  <2>5. Resolved(machine, Lookup("flashdrive", label)) = {k}
    BY <1>1, <2>4 DEF Resolved, Lookup, Found
  <2>6. QED BY <2>5 DEF k, label
<1>12. ASSUME NEW i \in DOMAIN form.nvrams
       PROVE  Resolved(machine, Lookup("nvram", NvramLabel(form, i))) = {i}
  <2> DEFINE label == NvramLabel(form, i)
  <2>1. i \in 1..Len(nvrams) /\ nvrams[i].label = form.nvrams[i].label BY <1>3, <1>8
  <2>2. \A j \in 1..Len(nvrams) : /\ Len(flash) + j \in 1..Len(claimed)
                                  /\ claimed[Len(flash) + j] = nvrams[j]
    BY <1>7
  <2>3. \A j \in 1..Len(nvrams) : labelProblem(nvrams[j].label) = "none" BY <1>9, <2>2
  <2>4. \A j, l \in 1..Len(nvrams) :
            nvrams[j].label # NoLabel /\ nvrams[j].label = nvrams[l].label => j = l
    <3>1. TAKE j, l \in 1..Len(nvrams)
    <3>2. HAVE nvrams[j].label # NoLabel /\ nvrams[j].label = nvrams[l].label
    <3>3. Len(flash) + j = Len(flash) + l BY <1>10, <2>2, <3>2
    <3>4. QED BY <1>7, <3>3
  <2>5. label = deviceLabel(nvrams[i].label, "nvram", i - 1) BY <2>1 DEF NvramLabel
  <2> HIDE DEF label
  <2>6. Found(nvrams, "nvram", label) = {i}
    <3>1. "nvram" \in Kinds BY DEF Kinds
    <3>2. Found(nvrams, "nvram", deviceLabel(nvrams[i].label, "nvram", i - 1)) = {i}
      <4>1. IsSeq(nvrams) /\ i \in 1..Len(nvrams) BY <1>3, <2>1
      <4>2. QED BY <2>3, <2>4, <3>1, <4>1, OneRange
    <3>3. QED BY <2>5, <3>2
  <2>7. Resolved(machine, Lookup("nvram", label)) = {i}
    BY <1>1, <2>6 DEF Resolved, Lookup, Found
  <2>8. QED BY <2>7 DEF label
<1>13. QED BY <1>11, <1>12 DEF machine

(* What init does to each drive, and to each NVRAM.                        *)
DriveBlockOf(form, i) == driveInit(form.drives[i], DriveLabel(form, i))
NvramBlockOf(form, i) == nvramInit(form.nvrams[i], NvramLabel(form, i))

BlocksOf(form) ==
    {DriveBlockOf(form, i) : i \in DOMAIN form.drives}
        \cup {NvramBlockOf(form, i) : i \in DOMAIN form.nvrams}

(* No command, or one, that does nothing to a range.                       *)
LEMMA OneQuiet ==
    ASSUME NEW A, NEW d, d.do \notin Acts
    PROVE  IsMade(Optional(A, <<d>>), {})
<1>1. <<d>> \in Seq({d}) /\ << >> \in Seq({d}) /\ Len(<<d>>) = 1 /\ Len(<< >>) = 0
      /\ <<d>>[1] = d
  OBVIOUS
<1>2. IsSeq(<<d>>) /\ IsSeq(<< >>) BY <1>1, IsSeqOf
<1>3. IsMade(<<d>>, {}) BY <1>1, <1>2, MadeQuiet
<1>4. IsMade(<< >>, {}) BY <1>1, <1>2, MadeQuiet
<1>5. QED BY <1>3, <1>4 DEF Optional

(* Quiet commands before or behind a script leave it as it is.             *)
LEMMA QuietAround ==
    ASSUME NEW s, NEW t, NEW B, IsMade(s, B), IsMade(t, {}), \A b \in B : IsSeq(b)
    PROVE  IsMade(s \o t, B) /\ IsMade(t \o s, B)
<1>1. IsMade(s \o t, B \cup {}) BY MadeConcat
<1>2. IsMade(t \o s, {} \cup B) BY MadeConcat
<1>3. B \cup {} = B /\ {} \cup B = B OBVIOUS
<1>4. QED BY <1>1, <1>2, <1>3

(* The variables that are set are exports, which do nothing to a range.    *)
LEMMA EnvIsQuiet ==
    ASSUME NEW env, IsSeq(env),
           NEW ss, ss = [i \in DOMAIN env |-> Optional(env[i].name # Blank,
                                <<Export(env[i].name, env[i].value)>>)]
    PROVE  IsMade(FlattenSeq(ss), {})
<1> DEFINE n == Len(env)  f == FlattenSeq(ss)
<1>1. n \in Nat /\ DOMAIN env = 1..n BY IsSeqOf DEF IsSeq
<1>2. ASSUME NEW i \in 1..n
      PROVE  IsSeq(ss[i]) /\ \A j \in 1..Len(ss[i]) : ss[i][j].do \notin Acts
  <2> DEFINE e == Export(env[i].name, env[i].value)
  <2>1. ss[i] = Optional(env[i].name # Blank, <<e>>) BY <1>1
  <2>2. e.do \notin Acts BY DEF Export, Acts
  <2> HIDE DEF e
  <2>3. IsMade(Optional(env[i].name # Blank, <<e>>), {}) BY <2>2, OneQuiet
  <2>4. QED BY <2>1, <2>3 DEF IsMade
<1>3. ss = [i \in 1..n |-> ss[i]] BY <1>1
<1> HIDE DEF n
<1>4. IsSeq(f) /\ \A p \in 1..Len(f) : \E k \in 1..n : IsIn(p, f, ss[k])
  BY <1>1, <1>2, <1>3, MadeFlatten
<1> HIDE DEF f
<1>5. ASSUME NEW p \in 1..Len(f) PROVE f[p].do \notin Acts
  <2>1. PICK k \in 1..n : IsIn(p, f, ss[k]) BY <1>4
  <2>2. PICK o \in Nat : At(f, o, ss[k]) /\ p \in (o + 1)..(o + Len(ss[k]))
    BY <2>1 DEF IsIn
  <2>3. Len(ss[k]) \in Nat BY <1>2, IsSeqOf DEF IsSeq
  <2>4. p - o \in 1..Len(ss[k]) /\ o + (p - o) = p BY <2>2, <2>3
  <2>5. f[p] = ss[k][p - o] BY <2>2, <2>4 DEF At
  <2>6. QED BY <1>2, <2>4, <2>5
<1>6. IsMade(f, {}) BY <1>4, <1>5, MadeQuiet
<1>7. QED BY <1>6 DEF f

(* A drive's or an NVRAM's commands are a sequence.                        *)
LEMMA BlocksAre ==
    ASSUME NEW form
    PROVE  /\ \A i : IsSeq(DriveBlockOf(form, i)) /\ IsSeq(NvramBlockOf(form, i))
           /\ \A b \in BlocksOf(form) : IsSeq(b)
<1>1. IsSeq(<< >>)
  <2>1. << >> \in Seq({}) OBVIOUS
  <2>2. QED BY <2>1, IsSeqOf
<1>2. \A i : IsSeq(DriveBlockOf(form, i))
  BY <1>1, DriveBlock DEF DriveBlockOf, IsBlock
<1>3. \A i : IsSeq(NvramBlockOf(form, i)) BY NvramBlock DEF NvramBlockOf, IsBlock
<1>4. QED BY <1>2, <1>3 DEF BlocksOf

(* The commands for the ranges are the blocks of all drives and NVRAMs,    *)
(* one behind the other.                                                   *)
LEMMA RangesAreMade ==
    ASSUME NEW form, IsSeq(form.drives), IsSeq(form.nvrams)
    PROVE  IsMade(rangeInit(form), BlocksOf(form))
<1> DEFINE d == Len(form.drives)
           n == Len(form.nvrams)
           dd == [i \in DOMAIN form.drives |-> DriveBlockOf(form, i)]
           nn == [i \in DOMAIN form.nvrams |-> NvramBlockOf(form, i)]
<1>1. /\ d \in Nat /\ DOMAIN form.drives = 1..d
      /\ n \in Nat /\ DOMAIN form.nvrams = 1..n
  BY IsSeqOf DEF IsSeq
<1>2. /\ dd = [i \in 1..d |-> dd[i]] /\ \A i \in 1..d : dd[i] = DriveBlockOf(form, i)
      /\ nn = [i \in 1..n |-> nn[i]] /\ \A i \in 1..n : nn[i] = NvramBlockOf(form, i)
  BY <1>1
<1>3. rangeInit(form) = FlattenSeq(dd) \o FlattenSeq(nn)
  BY DEF rangeInit, DriveBlockOf, NvramBlockOf, DriveLabel, NvramLabel, Before
<1> HIDE DEF d, n, dd, nn
<1>4. (\A i \in 1..d : IsSeq(dd[i])) /\ (\A i \in 1..n : IsSeq(nn[i]))
  BY <1>2, BlocksAre
<1>5. IsMade(FlattenSeq(dd), {dd[i] : i \in 1..d}) BY <1>1, <1>2, <1>4, MadeFlatten
<1>6. IsMade(FlattenSeq(nn), {nn[i] : i \in 1..n}) BY <1>1, <1>2, <1>4, MadeFlatten
<1>7. BlocksOf(form) = {dd[i] : i \in 1..d} \cup {nn[i] : i \in 1..n}
  BY <1>1, <1>2 DEF BlocksOf
<1>8. IsMade(FlattenSeq(dd) \o FlattenSeq(nn), {dd[i] : i \in 1..d} \cup {nn[i] : i \in 1..n})
  BY <1>5, <1>6, <1>7, BlocksAre, MadeConcat
<1>9. QED BY <1>3, <1>7, <1>8

(* And so is the whole script: what else is in it does nothing to ranges.  *)
LEMMA ScriptIsMade ==
    ASSUME NEW form, IsSeq(form.drives), IsSeq(form.nvrams), IsSeq(form.env)
    PROVE  IsMade(initFor(form), BlocksOf(form))
<1> DEFINE B == BlocksOf(form)
           named == \E i \in DOMAIN form.env : form.env[i].name \in TermNames
           Set(name, value) == Optional(value # Blank, <<[do |-> name, value |-> value]>>)
           splash == Optional(form.splash, <<[do |-> "splash"]>>)
           date == Optional(form.syncDate, <<[do |-> "date"]>>)
           term == Optional(form.interactive /\ ~named,
                        <<Export("TERM", "xterm-256color"), Export("LANG", "C.utf8")>>)
           env == FlattenSeq([i \in DOMAIN form.env |-> Optional(form.env[i].name # Blank,
                        <<Export(form.env[i].name, form.env[i].value)>>)])
           s1 == splash \o date
           s2 == s1 \o rangeInit(form)
           s3 == s2 \o term
           s4 == s3 \o env
           s5 == s4 \o Set("WORKDIR", form.workdir)
           s6 == s5 \o Set("USER", form.user)
           s7 == s6 \o Set("hostname", form.hostname)
           s8 == s7 \o Set("script", form.initScript)
<1>1. initFor(form) = s8 BY DEF initFor
<1>2. IsMade(splash, {}) /\ IsMade(date, {})
  <2>1. [do |-> "splash"].do \notin Acts /\ [do |-> "date"].do \notin Acts BY DEF Acts
  <2>2. QED BY <2>1, OneQuiet
<1>3. IsMade(env, {}) BY EnvIsQuiet
<1>4. \A name, value : name \notin Acts => IsMade(Set(name, value), {})
  <2>1. TAKE name, value
  <2>2. HAVE name \notin Acts
  <2>3. [do |-> name, value |-> value].do \notin Acts BY <2>2
  <2>4. QED BY <2>3, OneQuiet
<1>5. IsMade(term, {})
  <2> DEFINE e == Export("TERM", "xterm-256color")  l == Export("LANG", "C.utf8")
  <2>1. e.do \notin Acts /\ l.do \notin Acts BY DEF Export, Acts
  <2> HIDE DEF e, l
  <2>2. <<e, l>> \in Seq({e, l}) /\ Len(<<e, l>>) = 2 /\ <<e, l>>[1] = e /\ <<e, l>>[2] = l
        /\ << >> \in Seq({}) /\ Len(<< >>) = 0
    OBVIOUS
  <2>3. IsSeq(<<e, l>>) /\ IsSeq(<< >>) BY <2>2, IsSeqOf
  <2>4. \A p \in 1..2 : <<e, l>>[p].do \notin Acts BY <2>1, <2>2
  <2>5. IsMade(<<e, l>>, {}) BY <2>2, <2>3, <2>4, MadeQuiet
  <2>6. IsMade(<< >>, {}) BY <2>2, <2>3, MadeQuiet
  <2>7. term = <<e, l>> \/ term = << >> BY DEF Optional, e, l
  <2>8. QED BY <2>5, <2>6, <2>7
<1>6. IsMade(rangeInit(form), B) /\ \A b \in B : IsSeq(b) BY RangesAreMade, BlocksAre
<1>7. \A name \in {"WORKDIR", "USER", "hostname", "script"} : name \notin Acts BY DEF Acts
<1> HIDE DEF B, splash, date, term, env, Set
<1>8. IsMade(s1, {}) BY <1>2, QuietAround
<1> HIDE DEF s1
<1>9. IsMade(s2, B) BY <1>6, <1>8, QuietAround
<1> HIDE DEF s2
<1>10. IsMade(s3, B) BY <1>5, <1>6, <1>9, QuietAround
<1> HIDE DEF s3
<1>11. IsMade(s4, B) BY <1>3, <1>6, <1>10, QuietAround
<1> HIDE DEF s4
<1>12. IsMade(s5, B) BY <1>4, <1>6, <1>7, <1>11, QuietAround
<1> HIDE DEF s5
<1>13. IsMade(s6, B) BY <1>4, <1>6, <1>7, <1>12, QuietAround
<1> HIDE DEF s6
<1>14. IsMade(s7, B) BY <1>4, <1>6, <1>7, <1>13, QuietAround
<1> HIDE DEF s7
<1>15. IsMade(s8, B) BY <1>4, <1>6, <1>7, <1>14, QuietAround
<1>16. QED BY <1>1, <1>15 DEF B

(* The variables of the form that is booted are a list, too.               *)
LEMMA WantedLists ==
    ASSUME IsWhole(config)
    PROVE  IsSeq(wanted.drives) /\ IsSeq(wanted.nvrams) /\ IsSeq(wanted.env)
<1>1. wanted.env = config.env
  <2>1. "env" \in DOMAIN defaultConfig BY DefaultFields DEF Lists
  <2>2. "env" \in DOMAIN config BY <2>1 DEF IsWhole, IsRecord
  <2>3. QED BY <2>2 DEF wanted, settled
<1>2. IsSeq(config.env) BY DEF IsWhole, IsList, Lists, IsSeq
<1>3. QED BY <1>1, <1>2, WantedImages DEF IsSeq

(* What the script does in a drive's block it does to this drive, and as   *)
(* the form has it.                                                        *)
LEMMA DriveCommands ==
    ASSUME NEW script, NEW drive, NEW label,
           NEW o \in Nat, At(script, o, driveInit(drive, label)),
           NEW p \in (o + 1)..(o + Len(driveInit(drive, label)))
    PROVE  /\ LookupOf(script, p) = Lookup("flashdrive", label)
           /\ script[p].do \in Acts =>
                \/ script[p] = Format /\ driveMount(drive).format
                \/ script[p] = MountAt(drive)
                \/ /\ script[p] = Chown(drive.user, driveMount(drive).mountPoint)
                   /\ driveMount(drive).mountPoint # Nowhere => \E q \in 1..p :
                        /\ script[q] = MountAt(drive)
                        /\ LookupOf(script, q) = LookupOf(script, p)
<1> DEFINE b == driveInit(drive, label)
           L == Lookup("flashdrive", label)
           c == Chown(drive.user, driveMount(drive).mountPoint)
           j == p - o
<1>1. /\ b = << >> \/ IsBlock(b, L)
      /\ \A i \in 2..Len(b) :
            \/ driveMount(drive).format /\ b[i] = Format
            \/ b[i] = MountAt(drive)
            \/ /\ b[i] = c
               /\ driveMount(drive).mountPoint # Nowhere =>
                    \E k \in 2..i : b[k] = MountAt(drive)
  BY DriveBlock
<1>2. At(script, o, b) /\ p \in (o + 1)..(o + Len(b)) OBVIOUS
<1> HIDE DEF b, L
<1>3. IsBlock(b, L)
  <2>1. Len(<< >>) = 0 OBVIOUS
  <2>2. b # << >> BY <1>2, <2>1
  <2>3. QED BY <1>1, <2>2
<1>4. \A q \in (o + 1)..(o + Len(b)) : LookupOf(script, q) = L
  BY <1>2, <1>3, LookupOfBlock
<1>5. /\ Len(b) \in Nat /\ j \in 1..Len(b) /\ o + j = p
      /\ \A i \in 1..Len(b) : script[o + i] = b[i]
  BY <1>2, <1>3 DEF At, IsBlock
<1>6. ASSUME script[p].do \in Acts
      PROVE  \/ script[p] = Format /\ driveMount(drive).format
             \/ script[p] = MountAt(drive)
             \/ /\ script[p] = c
                /\ driveMount(drive).mountPoint # Nowhere => \E q \in 1..p :
                     /\ script[q] = MountAt(drive)
                     /\ LookupOf(script, q) = LookupOf(script, p)
  <2>1. script[p] = b[j] BY <1>5
  <2>2. j # 1 BY <1>3, <1>6, <2>1 DEF IsBlock, Acts
  <2>3. j \in 2..Len(b) BY <1>5, <2>2
  <2>4. ASSUME NEW k \in 2..j, b[k] = MountAt(drive)
        PROVE  \E q \in 1..p : /\ script[q] = MountAt(drive)
                               /\ LookupOf(script, q) = LookupOf(script, p)
    <3>1. o + k \in 1..p /\ o + k \in (o + 1)..(o + Len(b)) /\ k \in 1..Len(b) BY <1>5
    <3>2. script[o + k] = MountAt(drive) BY <1>5, <2>4, <3>1
    <3>3. LookupOf(script, o + k) = LookupOf(script, p) BY <1>2, <1>4, <3>1
    <3>4. QED BY <3>1, <3>2, <3>3
  <2> HIDE DEF j, c
  <2>5. QED BY <1>1, <2>1, <2>3, <2>4
<1>7. QED BY <1>2, <1>4, <1>6 DEF L

(* And so in an NVRAM's.                                                   *)
LEMMA NvramCommands ==
    ASSUME NEW script, NEW nvram, NEW label,
           NEW o \in Nat, At(script, o, nvramInit(nvram, label)),
           NEW p \in (o + 1)..(o + Len(nvramInit(nvram, label)))
    PROVE  /\ LookupOf(script, p) = Lookup("nvram", label)
           /\ script[p].do \in Acts =>
                \/ script[p] = ChmodOf(nvram)
                \/ script[p] = Chown(nvram.user, Nowhere)
<1> DEFINE b == nvramInit(nvram, label)
           L == Lookup("nvram", label)
           m == ChmodOf(nvram)
           c == Chown(nvram.user, Nowhere)
           j == p - o
<1>1. IsBlock(b, L) /\ \A i \in 2..Len(b) : b[i] = m \/ b[i] = c BY NvramBlock
<1>2. At(script, o, b) /\ p \in (o + 1)..(o + Len(b)) OBVIOUS
<1> HIDE DEF b, L, m, c
<1>3. LookupOf(script, p) = L BY <1>1, <1>2, LookupOfBlock
<1>4. /\ j \in 1..Len(b) /\ script[p] = b[j]
  <2>1. Len(b) \in Nat /\ \A i \in 1..Len(b) : script[o + i] = b[i]
    BY <1>1, <1>2 DEF At, IsBlock
  <2>2. j \in 1..Len(b) /\ o + j = p BY <1>2, <2>1
  <2>3. QED BY <2>1, <2>2
<1>5. script[p].do \in Acts => j # 1 BY <1>1, <1>4 DEF IsBlock, Acts
<1>6. j # 1 => j \in 2..Len(b) BY <1>1, <1>4 DEF IsBlock
<1>7. script[p].do \in Acts => script[p] = m \/ script[p] = c BY <1>1, <1>4, <1>5, <1>6
<1>8. QED BY <1>3, <1>7 DEF L, m, c

(* The script of a whole form does to each range what the form has for it. *)
LEMMA KeepsToItsRanges ==
    ASSUME IsWhole(config)
    PROVE  InitKeepsToItsRanges
<1> DEFINE form == wanted
           machine == generate(form)
           script == machine.init
           before == IF HasRoot(form) THEN 1 ELSE 0
           On(p, kind, i) == /\ LookupOf(script, p).kind = kind
                             /\ Resolved(machine, LookupOf(script, p)) = {i}
           ChownIsOwn(p, item) ==
            /\ script[p].user = item.user
            /\ script[p].of # Nowhere => \E q \in 1..p :
                    /\ script[q].do = "mount" /\ script[q].at = script[p].of
                    /\ LookupOf(script, q) = LookupOf(script, p)
           Allowed(p, item) ==
            CASE script[p].do = "format" -> item.imageId = Null \/ item.format = "always"
              [] script[p].do = "mount" -> script[p].readOnly = item.readOnly
              [] script[p].do = "chmod" -> script[p].mode = "0444" <=> item.readOnly
              [] script[p].do = "chown" -> ChownIsOwn(p, item)
           Own(p) ==
            \/ \E i \in DOMAIN form.drives :
                 On(p, "flashdrive", before + i) /\ Allowed(p, form.drives[i])
            \/ \E i \in DOMAIN form.nvrams :
                 On(p, "nvram", i) /\ Allowed(p, form.nvrams[i])
           Formatted(i) ==
            LET drive == form.drives[i]
            IN drive.imageId = Null /\ drive.format = "auto" /\ drive.label # Root =>
                \E p \in DOMAIN script :
                    script[p].do = "format" /\ On(p, "flashdrive", before + i)
<1> SUFFICES ASSUME machine.problems = {}
             PROVE  /\ \A p \in {q \in DOMAIN script :
                            script[q].do \in {"format", "mount", "chmod", "chown"}} : Own(p)
                    /\ \A i \in DOMAIN form.drives : Formatted(i)
  BY DEF InitKeepsToItsRanges
<1>1. machine.problems = problems(form) /\ script = initFor(form) BY DEF generate
<1>2. claims(form) = {} BY <1>1 DEF problems
<1> HIDE DEF form
<1>3. IsSeq(form.drives) /\ IsSeq(form.nvrams) /\ IsSeq(form.env) BY WantedLists DEF form
<1>4. /\ \A i \in DOMAIN form.drives :
            Resolved(machine, Lookup("flashdrive", DriveLabel(form, i))) = {before + i}
      /\ \A i \in DOMAIN form.nvrams :
            Resolved(machine, Lookup("nvram", NvramLabel(form, i))) = {i}
  BY <1>2, <1>3, LabelsLead DEF Before
<1>5. IsMade(script, BlocksOf(form)) BY <1>1, <1>3, ScriptIsMade
<1>6. Len(script) \in Nat /\ DOMAIN script = 1..Len(script) BY <1>5, IsSeqOf DEF IsMade, IsSeq
<1> HIDE DEF machine, script, before
<1>7. ASSUME NEW p \in DOMAIN script, script[p].do \in Acts PROVE Own(p)
  <2>1. PICK b \in BlocksOf(form) : IsIn(p, script, b) BY <1>5, <1>6, <1>7 DEF IsMade
  <2>2. PICK o \in Nat : At(script, o, b) /\ p \in (o + 1)..(o + Len(b)) BY <2>1 DEF IsIn
  <2>3. ASSUME NEW i \in DOMAIN form.drives, b = DriveBlockOf(form, i)
        PROVE  On(p, "flashdrive", before + i) /\ Allowed(p, form.drives[i])
    <3> DEFINE drive == form.drives[i]
               label == DriveLabel(form, i)
    <3>1. b = driveInit(drive, label) BY <2>3 DEF DriveBlockOf
    <3> HIDE DEF drive, label
    <3>2. /\ LookupOf(script, p) = Lookup("flashdrive", label)
          /\ \/ script[p] = Format /\ driveMount(drive).format
             \/ script[p] = MountAt(drive)
             \/ /\ script[p] = Chown(drive.user, driveMount(drive).mountPoint)
                /\ driveMount(drive).mountPoint # Nowhere => \E q \in 1..p :
                     /\ script[q] = MountAt(drive)
                     /\ LookupOf(script, q) = LookupOf(script, p)
      BY <1>7, <2>2, <3>1, DriveCommands
    <3>3. On(p, "flashdrive", before + i) BY <1>4, <3>2 DEF Lookup, label
    <3>4. CASE script[p] = Format /\ driveMount(drive).format
      <4>1. script[p].do = "format" BY <3>4 DEF Format
      <4>2. drive.imageId = Null \/ drive.format = "always" BY <3>4 DEF driveMount
      <4>3. QED BY <3>3, <4>1, <4>2 DEF drive
    <3>5. CASE script[p] = MountAt(drive)
      <4>1. script[p].do = "mount" /\ script[p].readOnly = drive.readOnly
        BY <3>5 DEF MountAt
      <4>2. QED BY <3>3, <4>1 DEF drive
    <3>6. CASE /\ script[p] = Chown(drive.user, driveMount(drive).mountPoint)
               /\ driveMount(drive).mountPoint # Nowhere => \E q \in 1..p :
                     /\ script[q] = MountAt(drive)
                     /\ LookupOf(script, q) = LookupOf(script, p)
      <4>1. /\ script[p].do = "chown" /\ script[p].user = drive.user
            /\ script[p].of = driveMount(drive).mountPoint
        BY <3>6 DEF Chown
      <4>2. MountAt(drive).do = "mount" /\ MountAt(drive).at = driveMount(drive).mountPoint
        BY DEF MountAt
      <4>3. ChownIsOwn(p, drive) BY <3>6, <4>1, <4>2
      <4> HIDE DEF ChownIsOwn
      <4>4. QED BY <3>3, <4>1, <4>3 DEF drive
    <3>7. QED BY <3>2, <3>4, <3>5, <3>6
  <2>4. ASSUME NEW i \in DOMAIN form.nvrams, b = NvramBlockOf(form, i)
        PROVE  On(p, "nvram", i) /\ Allowed(p, form.nvrams[i])
    <3> DEFINE nvram == form.nvrams[i]
               label == NvramLabel(form, i)
    <3>1. b = nvramInit(nvram, label) BY <2>4 DEF NvramBlockOf
    <3> HIDE DEF nvram, label
    <3>2. /\ LookupOf(script, p) = Lookup("nvram", label)
          /\ \/ script[p] = ChmodOf(nvram)
             \/ script[p] = Chown(nvram.user, Nowhere)
      BY <1>7, <2>2, <3>1, NvramCommands
    <3>3. On(p, "nvram", i) BY <1>4, <3>2 DEF Lookup, label
    <3>4. CASE script[p] = ChmodOf(nvram)
      <4>1. script[p].do = "chmod" /\ (script[p].mode = "0444" <=> nvram.readOnly)
        BY <3>4 DEF ChmodOf
      <4>2. QED BY <3>3, <4>1 DEF nvram
    <3>5. CASE script[p] = Chown(nvram.user, Nowhere)
      <4>1. script[p].do = "chown" /\ script[p].user = nvram.user /\ script[p].of = Nowhere
        BY <3>5 DEF Chown
      <4>2. QED BY <3>3, <4>1 DEF nvram
    <3>6. QED BY <3>2, <3>4, <3>5
  <2> HIDE DEF On, Allowed
  <2>5. QED BY <2>3, <2>4 DEF BlocksOf
<1>8. ASSUME NEW i \in DOMAIN form.drives PROVE Formatted(i)
  <2> DEFINE drive == form.drives[i]
             label == DriveLabel(form, i)
             b == driveInit(drive, label)
  <2>1. SUFFICES ASSUME drive.imageId = Null, drive.format = "auto", drive.label # Root
                 PROVE  \E p \in DOMAIN script :
                            script[p].do = "format" /\ On(p, "flashdrive", before + i)
    OBVIOUS
  <2>2. driveMount(drive).format BY <2>1 DEF driveMount
  <2>3. label # Root
    <3>1. \A n : Automatic("flashdrive", n) # Root BY DEF Automatic, Root
    <3>2. QED BY <2>1, <3>1 DEF DriveLabel, deviceLabel
  <2>4. b \in BlocksOf(form) BY DEF BlocksOf, DriveBlockOf
  <2> HIDE DEF drive, label
  <2>5. Len(b) >= 2 /\ b[2] = Format /\ (b = << >> \/ IsBlock(b, Lookup("flashdrive", label)))
    BY <2>2, <2>3, DriveBlock
  <2>6. PICK o \in Nat : At(script, o, b) BY <1>5, <2>4 DEF IsMade
  <2>7. Len(b) \in Nat
    <3>1. Len(<< >>) = 0 OBVIOUS
    <3>2. QED BY <2>5, <3>1 DEF IsBlock
  <2> HIDE DEF b
  <2>8. o + 2 \in DOMAIN script /\ script[o + 2] = Format /\ o + 2 \in (o + 1)..(o + Len(b))
    BY <1>6, <2>5, <2>6, <2>7 DEF At
  <2>9. LookupOf(script, o + 2) = Lookup("flashdrive", label)
    BY <2>6, <2>8, DriveCommands DEF b
  <2>10. script[o + 2].do = "format" BY <2>8 DEF Format
  <2>11. On(o + 2, "flashdrive", before + i) BY <1>4, <2>9 DEF Lookup, label
  <2> HIDE DEF On
  <2>12. QED BY <2>8, <2>10, <2>11
<1>9. Acts = {"format", "mount", "chmod", "chown"} BY DEF Acts
<1> HIDE DEF Own, Formatted
<1>10. QED BY <1>7, <1>8, <1>9

(* Whatever the form: what init does to a range is done to the range it    *)
(* was meant for, and as the form has it (config.ts:225-247, 284-361,      *)
(* 445-540).                                                               *)
THEOREM InitIsExact == FormSpec => []InitKeepsToItsRanges
<1>1. FormInv => InitKeepsToItsRanges BY KeepsToItsRanges DEF FormInv
<1>2. QED BY <1>1, FormInvariant, PTL

=============================================================================
