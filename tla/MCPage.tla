------------------------------- MODULE MCPage -------------------------------
(***************************************************************************)
(* What the page does apart from the machine: an instance of ImageLibrary  *)
(* and one of ConfigForm.                                                  *)
(***************************************************************************)
EXTENDS ImageLibrary, ConfigForm

(* A form that an earlier visit saved, with all an image can be behind.    *)
MCSaved ==
    [defaultConfig EXCEPT !.kernelId = 1, !.rootfsId = 2,
        !.drives = <<[newDrive(0) EXCEPT !.length = Decimal(64, "ki")],
                     [newDrive(1) EXCEPT !.imageId = 2, !.user = "dapp"]>>,
        !.nvrams = <<[newNvram(0) EXCEPT !.imageId = 3, !.length = Hexadecimal(4096)]>>]

(* One of an older page, without owners, and without NVRAMs.               *)
MCOlder ==
    LET fields == DOMAIN defaultConfig \ {"nvrams", "env", "user"}
        drive == newDrive(0)
    IN [field \in fields |->
            IF field = "drives"
            THEN <<[of \in DOMAIN drive \ {"user", "format"} |->
                        IF of = "imageId" THEN 2 ELSE drive[of]]>>
            ELSE IF field = "kernelId" THEN 1 ELSE defaultConfig[field]]

MCInitialSaves == {Nothing, Unreadable, MCSaved, MCOlder}

MCMalformed == {<<"No Name">>}

MCChanges ==
    {[kernelId |-> 1], [kernelId |-> Null], [rootfsId |-> Null], [rootfsId |-> 2],
     [rootfsReadOnly |-> TRUE], [ramLength |-> JunkSize], [interactive |-> FALSE],
     [console |-> "htif"], [bootargs |-> "quiet"], [syncDate |-> TRUE]}

Labels == {NoLabel, Root, <<"drive", 2>>, <<"nvram-", 1>>, Automatic("flashdrive", 0),
           <<"No Name">>}
RangeChanges ==
    {[label |-> label] : label \in Labels}
    \cup {[imageId |-> 2], [imageId |-> Null], [length |-> Decimal(4, "ki")], [readOnly |-> TRUE],
          [user |-> "dapp"]}

MCItemChanges ==
    [nvrams |-> RangeChanges,
     env |-> {[name |-> "Term"]},
     drives |-> RangeChanges \cup
        {[mount |-> "none"], [mount |-> "custom"], [mountPoint |-> <<"/data">>],
         [format |-> "always"], [format |-> "never"]}]

\* While one of the two varies the other is this.
PlainLibrary == stored = 0 /\ jobs = [j \in Jobs |-> IF j = 1 THEN List ELSE Idle]
PlainForm ==
    /\ ~restored /\ saved = Nothing /\ edits = 0 /\ listed = {}
    /\ latest = defaultConfig

MCInit == Init /\ FormInit /\ (PlainLibrary \/ PlainForm)

MCNext ==
    \/ PlainForm /\ Next /\ UNCHANGED formVars
    \/ PlainLibrary /\ FormNext /\ UNCHANGED vars

MCSpec == MCInit /\ [][MCNext]_<<vars, formVars>>
=============================================================================
