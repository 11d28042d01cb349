-------------------------------- MODULE TocHints --------------------------------
(***************************************************************************)
(* The parser of a flat package's table of contents (parse_toc_hints in    *)
(* crates/engine/src/installer_preview.rs): one event of the XML reader    *)
(* (quick_xml, external) a step.  A package is recognized by the regular   *)
(* files PackageInfo and Distribution at the top of the table; files below *)
(* them are its directories' and say nothing.                              *)
(*                                                                         *)
(* A tag, a text and an attribute value are classes; an attribute value is *)
(* the sequence of its plain runs and entities.                            *)
(***************************************************************************)
EXTENDS Naturals, Sequences, FiniteSets, SequencesExt

CONSTANTS
  Texts,
  Attributes,      \* the attribute lists of an element, sequences of [key, value]
  MaxDepth, MaxNodes, MaxNameBytes

\* What the instances of the module assume of its parameters.
TocHintsAssumption == {MaxDepth, MaxNodes, MaxNameBytes} \subseteq Nat

VARIABLES
  stack, depth, nodes, bytes,
  rootSeen, rootClosed, tocSeen,
  files,           \* top_level_files: at most one is open
  hints,
  outcome,         \* running, hints, corrupt, limit
  own              \* what the open top-level file holds, and the files closed so far

parser == <<stack, depth, nodes, bytes, rootSeen, rootClosed, tocSeen, files, hints>>
vars == <<parser, outcome, own>>

Tags == {"xar", "toc", "file", "name", "type"}

----------------------------------------------------------------------------
(* Attributes.                                                             *)

\* is_valid_xml_scalar and the entities: how many bytes one stands for, or 0.
EntityLength(e) ==
  CASE e \in {"lt", "gt", "amp", "apos", "quot"} -> 1
    [] e \in {"#65", "#x41"} -> 1
    [] e \in {"#233", "#xE9"} -> 2
    [] e \in {"#x20AC"} -> 3
    [] e \in {"#x1F600"} -> 4
    [] OTHER -> 0   \* #, #x, a surrogate, a control character, a name, no semicolon

\* decoded_xml_scalar_len
Valid(value) == \A i \in DOMAIN value : value[i].plain # 0 \/ EntityLength(value[i].entity) # 0
Lengths(value) == [i \in DOMAIN value |-> value[i].plain + EntityLength(value[i].entity)]
Sum(s) == FoldSeq(LAMBDA a, b : a + b, 0, s)

\* charge_attributes: each key twice, each value as written and as decoded.
AttributesCorrupt(list) ==
  \/ \E i, j \in DOMAIN list : i # j /\ list[i].key = list[j].key
  \/ \E i \in DOMAIN list : ~Valid(list[i].value)
Charge(list) == Sum([i \in DOMAIN list |-> 2 + Sum([k \in DOMAIN list[i].value |-> 1]) + Sum(Lengths(list[i].value))])

----------------------------------------------------------------------------
(* The top-level files.                                                    *)

NoFile == [name |-> "none", kind |-> "none", pendingName |-> FALSE, pendingType |-> FALSE, conflict |-> FALSE]

\* finalize_top_level_file
Refused(f) ==
  \/ f.conflict \/ f.pendingName \/ f.pendingType \/ f.name = "../x"
  \/ f.kind = "file" /\ f.name \in hints
Finalized(f) == IF f.kind = "file" /\ f.name \in {"PackageInfo", "Distribution"} THEN hints \cup {f.name} ELSE hints

\* What the document says, for the properties: the texts of the names and types
\* directly in the open file, and the files so far, as long as each name and
\* type holds exactly one text.
NoOwn == [names |-> <<>>, types |-> <<>>, plain |-> TRUE, closed |-> {}, twice |-> FALSE]
OwnOpened == [own EXCEPT !.names = <<>>, !.types = <<>>]
OwnClosed ==
  LET f == <<own.names, own.types>> IN
  [own EXCEPT !.names = <<>>, !.types = <<>>, !.closed = @ \cup {f},
              !.twice = @ \/ (f \in own.closed /\ f[2] = <<"file">> /\ f[1] \in {<<"PackageInfo">>, <<"Distribution">>})]
OwnIf(plain, to) == IF own.plain /\ plain THEN to ELSE [NoOwn EXCEPT !.plain = FALSE]

\* Inside a name or a type of a top-level file.
InFile == stack = <<"xar", "toc", "file">>
InField == Len(stack) >= 4 /\ SubSeq(stack, 1, 3) = <<"xar", "toc", "file">> /\ stack[4] \in {"name", "type"}

\* The parser returns: only an accepted table's hints are left.
End(result) ==
  /\ outcome' = result
  /\ stack' = <<>> /\ depth' = 0 /\ nodes' = 0 /\ bytes' = 0
  /\ rootSeen' = FALSE /\ rootClosed' = FALSE /\ tocSeen' = FALSE /\ files' = <<>>
  /\ hints' = IF result = "hints" THEN hints ELSE {}
  /\ own' = IF result = "hints" THEN own ELSE NoOwn

----------------------------------------------------------------------------
(* The events.                                                             *)

OverLimits(tag, list) ==
  depth + 1 > MaxDepth \/ nodes + 1 > MaxNodes
OverBytes(list) == bytes + Charge(list) + 1 > MaxNameBytes

\* An element where it may not be.
Misplaced(tag) ==
  \/ rootClosed
  \/ depth = 0 /\ (rootSeen \/ tag # "xar")
  \/ depth = 1 /\ tag = "toc" /\ Last(stack) = "xar" /\ tocSeen
  \/ depth > 1 /\ tag = "toc"

OpensFile(tag) == stack # <<>> /\ Last(stack) = "toc" /\ tag = "file"

\* A name or a type directly in a top-level file.
OpensField(tag) == stack = <<"xar", "toc", "file">> /\ tag \in {"name", "type"} /\ files # <<>>

Entered(tag, list) ==
  /\ nodes' = nodes + 1 /\ bytes' = bytes + Charge(list) + 1
  /\ rootSeen' = (rootSeen \/ depth = 0)
  /\ tocSeen' = (tocSeen \/ (depth = 1 /\ tag = "toc"))

Start(tag, list) ==
  /\ outcome = "running"
  /\ IF OverLimits(tag, list) THEN End("limit")
     ELSE IF AttributesCorrupt(list) THEN End("corrupt")
     ELSE IF OverBytes(list) THEN End("limit")
     ELSE IF Misplaced(tag) THEN End("corrupt")
     ELSE /\ Entered(tag, list) /\ depth' = depth + 1 /\ stack' = Append(stack, tag)
          /\ files' = IF OpensFile(tag) THEN Append(files, NoFile)
                      ELSE IF ~OpensField(tag) THEN files
                      ELSE IF tag = "name" THEN [files EXCEPT ![Len(files)].pendingName = TRUE]
                      ELSE [files EXCEPT ![Len(files)].pendingType = TRUE]
          /\ own' = OwnIf(~InField, IF OpensFile(tag) THEN OwnOpened ELSE own)
          /\ UNCHANGED <<rootClosed, hints, outcome>>

Empty(tag, list) ==
  /\ outcome = "running"
  /\ IF OverLimits(tag, list) THEN End("limit")
     ELSE IF AttributesCorrupt(list) THEN End("corrupt")
     ELSE IF OverBytes(list) THEN End("limit")
     ELSE IF Misplaced(tag) THEN End("corrupt")
     ELSE /\ Entered(tag, list) /\ rootClosed' = (rootClosed \/ depth = 0)
          /\ own' = OwnIf(~InField /\ ~(InFile /\ tag \in {"name", "type"}), own)
          /\ UNCHANGED <<depth, stack, files, hints, outcome>>

\* Text, or a reference or section that no table of contents has.
Text(value) ==
  /\ outcome = "running"
  /\ IF value = "invalid" \/ rootClosed THEN End("corrupt")
     ELSE IF stack = <<>> \/ Last(stack) \notin {"name", "type"} THEN UNCHANGED vars
     ELSE IF bytes + 1 > MaxNameBytes THEN End("limit")
     ELSE /\ bytes' = bytes + 1
          /\ files' = IF files = <<>> THEN files
                      ELSE LET f == Last(files) IN
                        [files EXCEPT ![Len(files)] =
                          IF Last(stack) = "name" /\ f.pendingName
                            THEN [f EXCEPT !.pendingName = FALSE, !.name = value, !.conflict = @ \/ f.name # "none"]
                          ELSE IF Last(stack) = "type" /\ f.pendingType
                            THEN [f EXCEPT !.pendingType = FALSE, !.kind = value, !.conflict = @ \/ f.kind # "none"]
                          ELSE f]
          /\ own' = IF ~(InField /\ Len(stack) = 4) THEN own
                    ELSE IF stack[4] = "name" THEN OwnIf(Last(files).pendingName, [own EXCEPT !.names = Append(@, value)])
                    ELSE OwnIf(Last(files).pendingType, [own EXCEPT !.types = Append(@, value)])
          /\ UNCHANGED <<stack, depth, nodes, rootSeen, rootClosed, tocSeen, hints, outcome>>

\* The reader pairs the tags itself: an end it reports is of the open element.
EndTag ==
  /\ outcome = "running" /\ stack # <<>>
  /\ LET tag == Last(stack)
         rest == Front(stack)
         top == tag = "file" /\ rest # <<>> /\ Last(rest) = "toc"
     IN IF top /\ (files = <<>> \/ Refused(Last(files))) THEN End("corrupt")
        ELSE /\ stack' = rest /\ depth' = depth - 1
             /\ rootClosed' = (rootClosed \/ tag = "xar")
             /\ files' = IF top THEN Front(files) ELSE files
             /\ hints' = IF top THEN Finalized(Last(files)) ELSE hints
             /\ own' = IF top THEN OwnClosed
                       ELSE OwnIf(~(Len(stack) = 4 /\ InField /\ (Last(files).pendingName \/ Last(files).pendingType)), own)
             /\ UNCHANGED <<nodes, bytes, rootSeen, tocSeen, outcome>>

\* A document type, a reference, or the end of the input.
Declared == outcome = "running" /\ End("corrupt")
Eof ==
  /\ outcome = "running"
  /\ End(IF rootSeen /\ rootClosed /\ tocSeen /\ depth = 0 /\ stack = <<>> /\ files = <<>> THEN "hints" ELSE "corrupt")

Init ==
  /\ stack = <<>> /\ depth = 0 /\ nodes = 0 /\ bytes = 0
  /\ rootSeen = FALSE /\ rootClosed = FALSE /\ tocSeen = FALSE
  /\ files = <<>> /\ hints = {} /\ outcome = "running" /\ own = NoOwn

Next ==
  \/ \E tag \in Tags, list \in Attributes : Start(tag, list) \/ Empty(tag, list)
  \/ \E value \in Texts : Text(value)
  \/ EndTag \/ Declared \/ Eof

Spec == Init /\ [][Next]_vars

----------------------------------------------------------------------------
(* Properties.                                                             *)

\* A table whose names and types hold one text each is taken for a package
\* exactly by the regular files directly in it: never by a file of a directory
\* below, and never when one is there twice.  Of other tables it says nothing:
\* after an empty name the parser still waits for one (pending_name) and takes
\* the next name inside the file, however deep, and of a name in parts it takes
\* the first.
HintsAreTopLevel ==
  (outcome = "hints" /\ own.plain) =>
    /\ hints = {n \in {"PackageInfo", "Distribution"} : <<<<n>>, <<"file">>>> \in own.closed}
    /\ ~own.twice
=============================================================================
