----------------------------- MODULE ConfigForm -----------------------------
(***************************************************************************)
(* The form of the playground (components/ConfigForm.tsx), how the page    *)
(* keeps it across visits (app/page.tsx), and what it generates for the    *)
(* emulator (machine/config.ts): the machine's ranges, what is shown of    *)
(* its problems, the images to stage, the kernel command line and the      *)
(* script init runs.                                                       *)
(*                                                                         *)
(* A text stands for what is left of it when surrounding white space is    *)
(* trimmed, which every use of one but a variable's value does.  A label   *)
(* is a sequence: << >> if blank, and a word and a number for the labels   *)
(* that the form and the machine give themselves.  The script is the       *)
(* sequence of its commands.                                               *)
(***************************************************************************)
EXTENDS Naturals, Sequences
LOCAL INSTANCE SequencesExt

CONSTANTS
    Null,         \* no image, no size
    ImageIds,     \* the images there may be
    Malformed,    \* labels that are no names, or too long
    InitialSaves, \* what an earlier visit, or an older page, left in storage
    Changes,      \* what the user may set of the form
    ItemChanges,  \* and of a drive, an NVRAM and a variable
    MaxItems,     \* bound: how many drives, NVRAMs, variables there may be
    MaxEdits      \* bound: how often the user changes the form

VARIABLES
    config,   \* the form
    restored, \* has the page looked for a saved form?
    saved,    \* the form in the browser's storage, Nothing, or Unreadable
    due,      \* is the form to be saved?
    listed,   \* the images the page lists
    edits,    \* how often the form was changed (bound)
    latest    \* the form the user made last, saved or not (history)

formVars == <<config, restored, saved, due, listed, edits, latest>>

Nothing == [state |-> "nothing"]
Unreadable == [state |-> "unreadable"]

Lists == {"drives", "nvrams", "env"}
Consoles == {"virtio", "htif"}

OlderForms == InitialSaves \ {Nothing, Unreadable}

(* What is set of the form at once is not a list; what was saved as a list *)
(* is one, or else the form is unreadable; and the select of the consoles  *)
(* has two.                                                                *)
ASSUME FormAssumption ==
    /\ \A change \in Changes : DOMAIN change \cap Lists = {}
    /\ \A form \in OlderForms : \A list \in Lists \cap DOMAIN form :
            form[list] \in Seq({form[list][i] : i \in DOMAIN form[list]})
    /\ \A form \in Changes \cup OlderForms :
            "console" \in DOMAIN form => form["console"] \in Consoles

---------------------------------------------------------------------------
(* Sizes and labels.                                                       *)

Blank == ""
BlankSize == [kind |-> "blank"]
JunkSize == [kind |-> "junk"]
Hexadecimal(count) == [kind |-> "hexadecimal", count |-> count]
Decimal(count, unit) == [kind |-> "decimal", count |-> count, unit |-> unit]

Units ==
    [none |-> 1, k |-> 1000, ki |-> 1024, m |-> 1000 * 1000, mi |-> 1024 * 1024,
     g |-> 1000 * 1000 * 1000, gi |-> 1024 * 1024 * 1024]

parseSize(text) ==
    CASE text.kind = "hexadecimal" -> text.count
      [] text.kind = "decimal" /\ text.unit \in DOMAIN Units
            -> text.count * Units[text.unit]
      [] OTHER -> Null

NoLabel == << >>
Root == <<"root">>
Automatic(kind, index) == <<kind, index>>
Kinds == {"flashdrive", "nvram"}

labelProblem(label) ==
    CASE label \in Malformed -> "malformed"
      [] \E kind \in Kinds : Len(label) = 2 /\ label[1] = kind -> "automatic"
      [] OTHER -> "none"

deviceLabel(label, kind, index) ==
    IF label = NoLabel THEN Automatic(kind, index) ELSE label

---------------------------------------------------------------------------
(* Forms.                                                                  *)

(* A mount point is a sequence, too: a path of the user's, or a label's.   *)
Nowhere == << >>
Mnt(label) == <<"mnt", label>>

(* One record spread over another.                                         *)
Merged(item, change) ==
    [field \in DOMAIN item \cup DOMAIN change |->
        IF field \in DOMAIN change THEN change[field] ELSE item[field]]

(* Entries are told apart by a random id, here by their place.             *)
newNvram(index) ==
    [label |-> <<"nvram-", index + 1>>, imageId |-> Null, length |-> BlankSize,
     start |-> BlankSize, readOnly |-> FALSE, user |-> Blank]

newDrive(index) ==
    Merged(newNvram(index),
           [mount |-> "auto", mountPoint |-> Nowhere, format |-> "auto",
            label |-> <<"drive", index + 1>>])

newEnvVar(index) == [name |-> Blank, value |-> Blank]

defaultConfig ==
    [kernelId |-> Null, rootfsId |-> Null, rootfsReadOnly |-> FALSE,
     ramLength |-> Decimal(128, "mi"), drives |-> << >>, nvrams |-> << >>,
     entrypoint |-> Blank, env |-> << >>, workdir |-> Blank, user |-> Blank,
     hostname |-> Blank, splash |-> TRUE, syncDate |-> FALSE,
     initScript |-> Blank, bootargs |-> Blank, interactive |-> TRUE,
     console |-> "virtio", flushMode |-> "every_char", tty |-> "80x25",
     unreproducible |-> FALSE, imcyclemax |-> BlankSize, softYield |-> FALSE,
     updateHashTree |-> FALSE, maxMcycle |-> Blank]

(* What a form of an older page lacks is filled in.                        *)
Filled(list, New(_)) == [i \in DOMAIN list |-> Merged(New(i - 1), list[i])]

restoreConfig(form) ==
    LET whole == Merged(defaultConfig, form)
    IN [whole EXCEPT !.drives = Filled(@, newDrive),
                     !.nvrams = Filled(@, newNvram),
                     !.env = Filled(@, newEnvVar)]

(* An image that is gone from the list is no longer asked for.             *)
settled(tty) ==
    LET kept(id) == IF id \in listed THEN id ELSE Null
        Kept(list) == [i \in DOMAIN list |-> [list[i] EXCEPT !.imageId = kept(@)]]
    IN [config EXCEPT !.kernelId = kept(@), !.rootfsId = kept(@),
                      !.drives = Kept(@), !.nvrams = Kept(@), !.tty = tty]

---------------------------------------------------------------------------
(* What a form generates.                                                  *)

Optional(condition, items) == IF condition THEN items ELSE << >>

RangeOf(item) ==
    [label |-> item.label, image |-> item.imageId,
     length |-> parseSize(item.length), start |-> parseSize(item.start),
     read_only |-> item.readOnly]

HasRoot(form) == form.rootfsId # Null

flashDrives(form) ==
    Optional(HasRoot(form),
             <<[label |-> Root, image |-> form.rootfsId, length |-> Null,
                start |-> Null, read_only |-> form.rootfsReadOnly]>>)
      \o [i \in DOMAIN form.drives |-> RangeOf(form.drives[i])]

nvramRanges(form) == [i \in DOMAIN form.nvrams |-> RangeOf(form.nvrams[i])]

(* Which ranges have a label the machine would refuse: labels are unique   *)
(* over all ranges, and one that is refused is taken all the same.         *)
claims(form) ==
    LET claimed == flashDrives(form) \o nvramRanges(form)
    IN {i \in DOMAIN claimed :
            \/ labelProblem(claimed[i].label) # "none"
            \/ claimed[i].label # NoLabel
               /\ \E j \in 1..(i - 1) : claimed[j].label = claimed[i].label}

NeitherImageNorSize(list) ==
    {i \in DOMAIN list : list[i].imageId = Null /\ parseSize(list[i].length) = Null}

When(condition, item) == IF condition THEN {item} ELSE {}

problems(form) ==
    When(parseSize(form.ramLength) = Null, <<"ram", 0>>)
    \cup When(form.kernelId = Null, <<"kernel", 0>>)
    \cup {<<"label", i>> : i \in claims(form)}
    \cup {<<"drive", i>> : i \in NeitherImageNorSize(form.drives)}
    \cup {<<"NVRAM", i>> : i \in NeitherImageNorSize(form.nvrams)}
    \cup {<<"mount point", i>> : i \in
            {j \in DOMAIN form.drives : form.drives[j].mount = "custom"
                                       /\ form.drives[j].mountPoint = Nowhere}}

ImagesOf(list) == {list[i].imageId : i \in DOMAIN list}

(* Seeded fault: the NVRAMs' images are not staged.                        *)
imagesOfDrives(form) ==
    ({form.kernelId, form.rootfsId} \cup ImagesOf(form.drives)) \ {Null}

staged(form) ==
    ({form.kernelId, form.rootfsId} \cup ImagesOf(form.drives)
        \cup ImagesOf(form.nvrams)) \ {Null}

(* The kernel command line, unless the user gives one.                     *)
bootargs(form) ==
    IF form.bootargs # Blank THEN [given |-> form.bootargs]
    ELSE [console |-> IF form.console = "virtio" THEN "hvc1" ELSE "hvc0",
          root |-> IF flashDrives(form) = << >> THEN "none"
                   ELSE IF form.rootfsReadOnly THEN "ro" ELSE "rw"]

unreproducible(form) ==
    form.interactive \/ form.syncDate \/ form.unreproducible

(* A machine is created able to print and not to read.                     *)
iconsole(form) ==
    {"putchar"} \cup When(form.interactive /\ form.console = "htif", "getchar")

(* No entrypoint means a shell, to someone who can use one.                *)
entrypoint(form) ==
    IF form.entrypoint = Blank /\ form.interactive THEN "sh -i" ELSE form.entrypoint

runtime(form) ==
    [output_flush_mode |-> form.flushMode,
     input_source |-> IF form.interactive THEN "from_buffer" ELSE "from_null",
     tty |-> form.tty, soft_yield |-> form.softYield,
     update_hash_tree |-> form.updateHashTree]

---------------------------------------------------------------------------
(* The script that init runs.                                              *)

Lookup(kind, label) == [do |-> "lookup", kind |-> kind, label |-> label]
Chown(user, of) == [do |-> "chown", user |-> user, of |-> of]
Export(name, value) == [do |-> "export", name |-> name, value |-> value]

driveMount(drive) ==
    LET formats == \/ drive.format = "always"
                   \/ drive.format = "auto" /\ drive.imageId = Null
        automatic == /\ drive.mount = "auto"
                     /\ drive.imageId # Null \/ formats
                     /\ drive.label # NoLabel
    IN [format |-> formats,
        mountPoint |-> IF drive.mount = "custom" THEN drive.mountPoint
                       ELSE IF automatic THEN Mnt(drive.label) ELSE Nowhere]

driveInit(drive, label) ==
    LET do == driveMount(drive)
    IN Optional(/\ label # Root
                /\ do.format \/ do.mountPoint # Nowhere \/ drive.user # Blank,
         <<Lookup("flashdrive", label)>>
           \o Optional(do.format, <<[do |-> "format"]>>)
           \o Optional(do.mountPoint # Nowhere,
                <<[do |-> "mount", at |-> do.mountPoint, readOnly |-> drive.readOnly]>>)
           \o Optional(drive.user # Blank, <<Chown(drive.user, do.mountPoint)>>))

nvramInit(nvram, label) ==
    <<Lookup("nvram", label),
      [do |-> "chmod", mode |-> IF nvram.readOnly THEN "0444" ELSE "0664"]>>
      \o Optional(nvram.user # Blank, <<Chown(nvram.user, Nowhere)>>)

(* Seeded fault: a drive's place is that in the form, not in the machine.  *)
rangeInitOfForm(form) ==
    FlattenSeq([i \in DOMAIN form.drives |->
        LET drive == form.drives[i]
        IN driveInit(drive, deviceLabel(drive.label, "flashdrive", i - 1))])
    \o FlattenSeq([i \in DOMAIN form.nvrams |->
        LET nvram == form.nvrams[i]
        IN nvramInit(nvram, deviceLabel(nvram.label, "nvram", i - 1))])

(* A drive without a label goes by its place in the machine, behind the    *)
(* root filesystem if there is one.                                        *)
rangeInit(form) ==
    LET before == IF HasRoot(form) THEN 1 ELSE 0
    IN FlattenSeq([i \in DOMAIN form.drives |->
           LET drive == form.drives[i]
           IN driveInit(drive, deviceLabel(drive.label, "flashdrive", before + i - 1))])
       \o FlattenSeq([i \in DOMAIN form.nvrams |->
           LET nvram == form.nvrams[i]
           IN nvramInit(nvram, deviceLabel(nvram.label, "nvram", i - 1))])

(* TERM, however it is written.                                            *)
TermNames == {"TERM", "Term", "term"}

initFor(form) ==
    LET named == \E i \in DOMAIN form.env : form.env[i].name \in TermNames
        Given(variable) ==
            Optional(variable.name # Blank, <<Export(variable.name, variable.value)>>)
        Set(name, value) == Optional(value # Blank, <<[do |-> name, value |-> value]>>)
    IN Optional(form.splash, <<[do |-> "splash"]>>)
       \o Optional(form.syncDate, <<[do |-> "date"]>>)
       \o rangeInit(form)
       \o Optional(form.interactive /\ ~named,
                   <<Export("TERM", "xterm-256color"), Export("LANG", "C.utf8")>>)
       \o FlattenSeq([i \in DOMAIN form.env |-> Given(form.env[i])])
       \o Set("WORKDIR", form.workdir) \o Set("USER", form.user)
       \o Set("hostname", form.hostname) \o Set("script", form.initScript)

generate(form) ==
    [ram |-> [length |-> parseSize(form.ramLength), image |-> form.kernelId],
     flash_drive |-> flashDrives(form), nvram |-> nvramRanges(form),
     iunrep |-> unreproducible(form), iconsole |-> iconsole(form),
     imcyclemax |-> parseSize(form.imcyclemax),
     virtio |-> form.console = "virtio",
     bootargs |-> bootargs(form), init |-> initFor(form),
     entrypoint |-> entrypoint(form), runtime |-> runtime(form),
     images |-> staged(form), problems |-> problems(form)]

---------------------------------------------------------------------------
(* The page.                                                               *)

(* What storage holds of a form: none if it is empty or cannot be parsed.  *)
Stored ==
    IF saved \in {Nothing, Unreadable} THEN defaultConfig ELSE restoreConfig(saved)

FormInit ==
    /\ config = defaultConfig /\ restored = FALSE /\ due = TRUE
    /\ saved \in InitialSaves
    /\ listed \in SUBSET ImageIds
    /\ edits = 0
    /\ latest = Stored

(* Seeded fault: the form is saved whether or not one was looked for.      *)
MountSaves ==
    /\ ~restored
    /\ restored' = TRUE
    /\ config' = Stored
    /\ saved' = config
    /\ UNCHANGED <<due, listed, edits, latest>>

(* The first render is of the defaults; then the effects run, of which the *)
(* one that saves the form waits for the one that looks for it.            *)
Mount ==
    /\ ~restored
    /\ restored' = TRUE
    /\ config' = Stored
    /\ UNCHANGED <<saved, due, listed, edits, latest>>

Save ==
    /\ restored /\ due
    /\ saved' = config
    /\ due' = FALSE
    /\ UNCHANGED <<config, restored, listed, edits, latest>>

(* The page is left, and visited again; a form that was still to be saved  *)
(* is lost, though the user made it.                                       *)
Reload ==
    /\ config' = defaultConfig /\ restored' = FALSE /\ due' = TRUE
    /\ UNCHANGED <<saved, listed, edits, latest>>

update(form) ==
    /\ restored /\ edits < MaxEdits
    /\ edits' = edits + 1
    /\ config' = form
    /\ latest' = config'
    /\ due' = TRUE
    /\ UNCHANGED <<restored, saved, listed>>

(* An image is chosen from those the page lists.                           *)
Offered(change) ==
    \A field \in {"kernelId", "rootfsId", "imageId"} \cap DOMAIN change :
        change[field] \in listed \cup {Null}

SetForm == \E change \in Changes : Offered(change) /\ update(Merged(config, change))

(* A new entry is named for its place, as an earlier one may be already.   *)
AppendTo(list, New(_)) ==
    /\ Len(config[list]) < MaxItems
    /\ update([config EXCEPT ![list] = Append(@, New(Len(@)))])

AddItem ==
    AppendTo("drives", newDrive) \/ AppendTo("nvrams", newNvram)
    \/ AppendTo("env", newEnvVar)

RemoveItem ==
    \E list \in Lists : \E i \in DOMAIN config[list] :
        update([config EXCEPT ![list] = RemoveAt(@, i)])

(* The place of a mount is only asked for when it is the user's to name.   *)
SetItem ==
    \E list \in Lists : \E i \in DOMAIN config[list], change \in ItemChanges[list] :
        LET item == config[list][i]
        IN /\ Offered(change)
           /\ "mountPoint" \in DOMAIN change => item.mount = "custom"
           /\ update([config EXCEPT ![list] = [@ EXCEPT ![i] = Merged(item, change)]])

(* Images are stored or removed.                                           *)
ListChanges ==
    /\ listed' \in SUBSET ImageIds \ {listed}
    /\ UNCHANGED <<config, restored, saved, due, edits, latest>>

FormNext ==
    \/ Mount \/ Save \/ Reload \/ ListChanges
    \/ SetForm \/ AddItem \/ RemoveItem \/ SetItem

FormSpec == FormInit /\ [][FormNext]_formVars

---------------------------------------------------------------------------
(* What a boot asks for: the terminal's size takes the saved one's place.  *)
wanted == settled("100x30")

(* What init finds under a label: a range of that kind has the machine's   *)
(* label, by its place, and may have the user's.                           *)
Resolved(machine, lookup) ==
    LET ranges == IF lookup.kind = "nvram" THEN machine.nvram ELSE machine.flash_drive
    IN {i \in DOMAIN ranges : \/ lookup.label = Automatic(lookup.kind, i - 1)
                              \/ lookup.label # NoLabel /\ lookup.label = ranges[i].label}

(* The lookup that a command of the script is about: the last before it.   *)
LookupOf(script, p) ==
    script[CHOOSE q \in 1..p :
            script[q].do = "lookup" /\ \A r \in q + 1 .. p : script[r].do # "lookup"]

(***************************************************************************)
(* What init does to a range it does to the one range it was meant for: it *)
(* never touches the root filesystem, formats every drive that comes with  *)
(* nothing and none that comes from an image, unless the user says so,     *)
(* mounts what is read-only as read-only, and gives to the user either the *)
(* device or the place where that very device was mounted.  Ranges are     *)
(* found by their labels, the user's or the place in the machine, and the  *)
(* checks of the labels must be enough for each to lead to one range       *)
(* (config.ts:225-247, 284-361, 445-540; cm-playground/README.md:66-80).   *)
(***************************************************************************)
InitKeepsToItsRanges ==
    LET form == wanted
        machine == generate(form)
        script == machine.init
        before == IF HasRoot(form) THEN 1 ELSE 0
        On(p, kind, i) == /\ LookupOf(script, p).kind = kind
                          /\ Resolved(machine, LookupOf(script, p)) = {i}
        ChownIsOwn(p, item) ==
            /\ script[p].user = item.user
            /\ script[p].of # Nowhere => \E q \in 1..p :
                    /\ script[q].do = "mount" /\ script[q].at = script[p].of
                    /\ LookupOf(script, q) = LookupOf(script, p)
        Allowed(p, item) ==
            CASE script[p].do = "format" -> item.imageId = Null \/ item.format = "always"
              [] script[p].do = "mount" -> script[p].readOnly = item.readOnly
              [] script[p].do = "chmod" -> script[p].mode = "0444" <=> item.readOnly
              [] script[p].do = "chown" -> ChownIsOwn(p, item)
    IN machine.problems = {} =>
        /\ \A p \in {q \in DOMAIN script :
                        script[q].do \in {"format", "mount", "chmod", "chown"}} :
            \/ \E i \in DOMAIN form.drives :
                 On(p, "flashdrive", before + i) /\ Allowed(p, form.drives[i])
            \/ \E i \in DOMAIN form.nvrams :
                 On(p, "nvram", i) /\ Allowed(p, form.nvrams[i])
        /\ \A i \in DOMAIN form.drives :
            LET drive == form.drives[i]
            IN drive.imageId = Null /\ drive.format = "auto" /\ drive.label # Root =>
                \E p \in DOMAIN script :
                    script[p].do = "format" /\ On(p, "flashdrive", before + i)

(***************************************************************************)
(* A form that shows no problem makes a machine that can boot and be used: *)
(* it has a kernel; every image behind a range is staged, and is one the   *)
(* page still lists, whatever the form named; the command line mounts a    *)
(* root only if there is a drive; and a machine the user is to type into   *)
(* reads from the console, on a device that can be read, runs as           *)
(* unreproducible, and has something to run (config.ts:424-627,            *)
(* page.tsx:91-126).                                                       *)
(***************************************************************************)
BootIsComplete ==
    LET form == wanted
        machine == generate(form)
        ranges == machine.flash_drive \o machine.nvram
        backing == {ranges[i].image : i \in DOMAIN ranges} \cup {machine.ram.image}
    IN machine.problems = {} =>
        /\ machine.ram.image # Null
        /\ machine.images = backing \ {Null} /\ machine.images \subseteq listed
        /\ "root" \in DOMAIN machine.bootargs =>
             (machine.bootargs.root = "none" <=> machine.flash_drive = << >>)
        /\ form.interactive =>
             /\ machine.runtime.input_source = "from_buffer"
             /\ machine.virtio \/ "getchar" \in machine.iconsole
             /\ machine.iunrep /\ machine.entrypoint # Blank

(***************************************************************************)
(* What a later visit finds is replaced by nothing but the form the user   *)
(* made last: not by the defaults that each visit is first drawn with, and *)
(* not by an older form; and once the effect that saves it has run, it is  *)
(* the form that the page shows.  A form is lost if the page is left       *)
(* before its effect has run; then the later visit finds what was saved    *)
(* before it (page.tsx:54-85, "it would save the defaults over what it is  *)
(* about to load").                                                        *)
(***************************************************************************)
FormSurvives ==
    [][ /\ Stored' # Stored => Stored' = latest'
        /\ restored' /\ ~due' => Stored' = config' ]_formVars
=============================================================================
