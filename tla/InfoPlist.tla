------------------------------- MODULE InfoPlist -------------------------------
(***************************************************************************)
(* Reading an application's Info.plist (parse_info_plist of                *)
(* crates/engine/src/app_inventory.rs): the XML form one event of the      *)
(* reader (quick_xml, external) a step, the binary form one entry of the   *)
(* top dictionary a step.  Only the root dictionary's selected keys are    *)
(* taken, and only string values.                                          *)
(*                                                                         *)
(* A string is a member of Strings with a length; a document's format is   *)
(* chosen at the start.                                                    *)
(***************************************************************************)
EXTENDS Naturals, Sequences, FiniteSets, SequencesExt

CONSTANTS
  Strings,          \* the texts of the documents
  Selected,         \* selected_key_index: the keys that are read
  Long,             \* the strings over max_string_bytes
  Binaries,         \* [objects, dict, top] of the binary documents
  MaxDepth, MaxNodes, MaxRetained, MaxRefs,
  MaxText           \* the segments of a key or string within its budget

\* What the instances of the module assume of its parameters.
InfoPlistAssumption ==
  /\ Selected \subseteq Strings /\ Long \subseteq Strings
  /\ {MaxDepth, MaxNodes, MaxRetained, MaxRefs, MaxText} \subseteq Nat

VARIABLES
  binary, at,             \* the binary document (or none), and the next entry
  stack, nodes,           \* the reader's open elements
  flags,                  \* root_seen, root_closed, in_root_dict, root_dict_closed
  depth, valueDepth,
  inKey, inString, keyNext, pending,
  keyText, text,          \* key_buffer, string_buffer
  selected,               \* the fields found: key -> [state, value]
  retained, refs,         \* ProbeBudget
  outcome,                \* running, parsed, malformed, limit, unsupported
  own                     \* what the root dictionary holds, for the property

xml == <<stack, nodes, flags, depth, valueDepth, inKey, inString, keyNext, pending, keyText, text>>
vars == <<binary, at, xml, selected, retained, refs, outcome, own>>

Tags == {"plist", "dict", "key", "string", "array"}
None == "(none)"
NoFields == [k \in {} |-> None]
Present(v) == [state |-> "present", value |-> v]
NotString == [state |-> "not_string", value |-> None]
NoBinary == [objects |-> <<>>, dict |-> <<>>, top |-> "none"]

----------------------------------------------------------------------------
(* What the root dictionary says: the selected keys that are its own, and  *)
(* its entries, as long as keys and values alternate and hold one text     *)
(* each (the document is plain).                                           *)

NoOwn == [plain |-> TRUE, entries |-> <<>>, key |-> None, keys |-> {}]
OwnIf(plain, to) == IF own.plain /\ plain THEN to ELSE [NoOwn EXCEPT !.plain = FALSE, !.keys = own.keys]
OwnKey(of, key) == [of EXCEPT !.keys = @ \cup ({key} \cap Selected)]
Twice(entries) == \E i, j \in DOMAIN entries : i # j /\ entries[i].key = entries[j].key /\ entries[i].key \in Selected
Reference(entries) ==
  [k \in {entries[i].key : i \in DOMAIN entries} \cap Selected |->
     entries[CHOOSE i \in DOMAIN entries : entries[i].key = k].value]
OwnEntry(value) == [own EXCEPT !.entries = Append(@, [key |-> own.key, value |-> value]), !.key = None]

----------------------------------------------------------------------------
Stay == UNCHANGED <<binary, at, selected, retained, refs>>

\* The parser returns: only what a parsed document says is left.
End(result) ==
  /\ outcome' = result
  /\ at' = 0 /\ stack' = <<>> /\ nodes' = 0 /\ depth' = 0 /\ valueDepth' = 0
  /\ flags' = [seen |-> FALSE, closed |-> FALSE, inDict |-> FALSE, dictClosed |-> FALSE]
  /\ inKey' = FALSE /\ inString' = FALSE /\ keyNext' = FALSE /\ pending' = None /\ keyText' = <<>> /\ text' = <<>>
  /\ retained' = 0 /\ refs' = 0 /\ binary' = NoBinary
  /\ selected' = IF result = "parsed" THEN selected ELSE NoFields
  /\ own' = IF result = "parsed" THEN own ELSE NoOwn

\* decode_xml_text, charge_xml_text_budget: what a buffer of segments is.  One
\* segment is a string; more than one, or none, is another string.
Joined(segments) == IF Len(segments) = 1 THEN segments[1] ELSE None

OverLimits == depth + 1 > MaxDepth \/ nodes + 1 > MaxNodes

\* An element where no plist has one.
Misplaced(tag) ==
  \/ flags.closed
  \/ depth = 0 /\ (tag # "plist" \/ flags.seen)
  \/ depth = 1 /\ (flags.dictClosed \/ tag # "dict")

\* Mutant: values inside a value are not skipped.
SkippedNever == FALSE

\* Inside the value of a key nothing is looked at.
Skipped == valueDepth > 0

\* mark_selected_xml_not_string
Mark(key) == IF key \in Selected THEN [k \in DOMAIN selected \cup {key} |-> IF k = key THEN NotString ELSE selected[k]] ELSE selected
Duplicate(key) == key \in Selected \cap DOMAIN selected

\* What the ghost makes of an element that opens in the root dictionary.
OwnStart(tag) ==
  IF depth # 2 THEN OwnIf(~(inKey \/ inString), own)
  ELSE IF tag = "key" THEN OwnIf(own.key = None, own)
  ELSE IF tag = "string" THEN OwnIf(own.key # None, own)
  ELSE OwnIf(own.key # None, OwnEntry(NotString))

Start(tag) ==
  /\ outcome = "running" /\ binary = NoBinary
  /\ IF OverLimits THEN End("limit")
     ELSE IF Misplaced(tag) THEN End("malformed")
     ELSE LET deep == depth >= 2 /\ flags.inDict
              value == deep /\ ~Skipped /\ tag # "key" /\ keyNext
          IN IF value /\ tag # "string" /\ Duplicate(pending) THEN End("malformed")
             ELSE /\ depth' = depth + 1 /\ nodes' = nodes + 1 /\ stack' = Append(stack, tag)
                  /\ flags' = [flags EXCEPT !.seen = @ \/ depth = 0, !.inDict = @ \/ depth = 1]
                  /\ valueDepth' = IF deep /\ Skipped THEN valueDepth + 1 ELSE IF value THEN 1 ELSE valueDepth
                  /\ inKey' = (inKey \/ (deep /\ ~Skipped /\ tag = "key"))
                  /\ keyText' = IF deep /\ ~Skipped /\ tag = "key" THEN <<>> ELSE keyText
                  /\ inString' = (inString \/ (value /\ tag = "string"))
                  /\ text' = IF value /\ tag = "string" THEN <<>> ELSE text
                  /\ selected' = IF value /\ tag # "string" THEN Mark(pending) ELSE selected
                  /\ pending' = IF value /\ tag # "string" THEN None ELSE pending
                  /\ keyNext' = (keyNext /\ ~(deep /\ ~Skipped /\ ~inString' ))
                  /\ own' = OwnStart(tag)
                  /\ UNCHANGED <<binary, at, retained, refs, outcome>>

Empty(tag) ==
  /\ outcome = "running" /\ binary = NoBinary
  /\ IF OverLimits THEN End("limit")
     ELSE IF (depth = 0 /\ (tag # "plist" \/ flags.seen)) \/ (depth = 1 /\ tag # "dict") THEN End("malformed")
     ELSE LET value == depth >= 2 /\ flags.inDict /\ valueDepth = 0 /\ keyNext /\ ~inString /\ ~inKey
          IN IF value /\ Duplicate(pending) THEN End("malformed")
             ELSE /\ nodes' = nodes + 1
                  /\ flags' = [flags EXCEPT !.seen = @ \/ depth = 0, !.closed = @ \/ depth = 0,
                                            !.inDict = @ \/ depth = 1, !.dictClosed = @ \/ depth = 1]
                  /\ selected' = IF value THEN Mark(pending) ELSE selected
                  /\ pending' = IF value THEN None ELSE pending
                  /\ keyNext' = (keyNext /\ ~value)
                  /\ own' = IF depth # 2 THEN OwnIf(~(inKey \/ inString) /\ depth > 1, own)
                            ELSE OwnIf(own.key # None /\ tag # "key", OwnEntry(NotString))
                  /\ UNCHANGED <<binary, at, stack, depth, valueDepth, inKey, inString, keyText, text, retained, refs, outcome>>

\* Text, character data or a character reference.
Text(value) ==
  /\ outcome = "running" /\ binary = NoBinary
  /\ IF ~flags.inDict \/ (~inKey /\ ~(inString /\ keyNext)) THEN UNCHANGED vars
     ELSE IF value \in Long \/ Len(IF inKey THEN keyText ELSE text) >= MaxText THEN End("limit")
     ELSE /\ keyText' = IF inKey THEN Append(keyText, value) ELSE keyText
          /\ text' = IF inKey THEN text ELSE Append(text, value)
          /\ own' = OwnIf(IF inKey THEN keyText = <<>> ELSE text = <<>>, own)
          /\ Stay /\ UNCHANGED <<stack, nodes, flags, depth, valueDepth, inKey, inString, keyNext, pending, outcome>>

\* set_selected_xml_field
Found(key, value) == IF key \in Selected THEN [k \in DOMAIN selected \cup {key} |-> IF k = key THEN Present(value) ELSE selected[k]] ELSE selected

\* The reader pairs the tags itself: an end it reports is of the open element.
EndTag ==
  /\ outcome = "running" /\ binary = NoBinary /\ stack # <<>>
  /\ LET tag == Last(stack)
         key == flags.inDict /\ valueDepth = 0 /\ tag = "key"
         string == flags.inDict /\ ~key /\ inString /\ tag = "string"
         taken == string /\ keyNext /\ pending # None
         left == IF flags.inDict /\ valueDepth > 0 THEN valueDepth - 1 ELSE valueDepth
     IN IF taken /\ Duplicate(pending) THEN End("malformed")
        ELSE IF taken /\ pending \in Selected /\ retained + 1 > MaxRetained THEN End("limit")
        ELSE /\ inKey' = (inKey /\ ~key) /\ inString' = (inString /\ ~string)
             /\ selected' = IF taken THEN Found(pending, Joined(text)) ELSE selected
             /\ retained' = IF taken /\ pending \in Selected THEN retained + 1 ELSE retained
             /\ keyNext' = ((keyNext /\ ~string) \/ key)
             /\ pending' = IF key THEN Joined(keyText)
                           ELSE IF taken \/ (valueDepth > 0 /\ left = 0 /\ ~inString') THEN None ELSE pending
             /\ keyText' = IF key THEN <<>> ELSE keyText
             /\ text' = IF string THEN <<>> ELSE text
             /\ valueDepth' = left
             /\ flags' = [flags EXCEPT !.dictClosed = @ \/ (depth = 2 /\ tag = "dict"), !.closed = @ \/ depth = 1]
             /\ depth' = depth - 1 /\ stack' = Front(stack)
             /\ own' = IF depth # 3 \/ tag \notin {"key", "string"} THEN OwnIf(depth # 2 \/ own.key = None, own)
                       ELSE IF tag = "key" THEN OwnKey(OwnIf(Len(keyText) = 1, [own EXCEPT !.key = Joined(keyText)]), Joined(keyText))
                       ELSE OwnIf(Len(text) = 1, OwnEntry(Present(Joined(text))))
             /\ UNCHANGED <<binary, at, nodes, refs, outcome>>

\* A doctype that is not Apple's, a bad reference, or XML the reader refuses.
Declared == outcome = "running" /\ binary = NoBinary /\ End("malformed")

Eof ==
  /\ outcome = "running" /\ binary = NoBinary
  /\ End(IF /\ flags.seen /\ flags.inDict /\ flags.dictClosed /\ flags.closed
            /\ depth = 0 /\ valueDepth = 0 /\ ~keyNext THEN "parsed" ELSE "malformed")

----------------------------------------------------------------------------
(* The binary form: [objects : a sequence of [type, value], dict : pairs   *)
(* <<key reference, value reference>>, top : the kind of the top object].  *)

\* parse_binary_plist, decode_top_dict: the trailer, the offsets and the top.
BinaryStart ==
  /\ outcome = "running" /\ binary # NoBinary /\ at = 0
  /\ IF binary.top # "dict" THEN End("malformed")
     ELSE at' = 1 /\ refs' = refs + 1 /\ UNCHANGED <<binary, xml, selected, retained, outcome, own>>

\* decode_string, decode_length: None for what is no string or too long.
IsText(r) == binary.objects[r].type \in {"ascii", "utf16"} /\ binary.objects[r].value \notin Long
Decoded(r) == IF IsText(r) THEN binary.objects[r].value ELSE None
Cost(r) == IF IsText(r) THEN 1 ELSE 0

BinaryEntry ==
  /\ outcome = "running" /\ binary # NoBinary /\ at \in DOMAIN binary.dict
  /\ LET pair == binary.dict[at]
         inRange == pair[1] \in DOMAIN binary.objects /\ pair[2] \in DOMAIN binary.objects
     IN IF ~inRange THEN End("malformed")
        ELSE IF refs + 1 > MaxRefs \/ retained + Cost(pair[1]) > MaxRetained THEN End("limit")
        ELSE LET key == Decoded(pair[1])
                 spent == retained + Cost(pair[1])
             IN IF binary.objects[pair[1]].type = "utf8" THEN End("unsupported")
                ELSE IF key \notin Selected
                  THEN /\ at' = at + 1 /\ refs' = refs + 1 /\ retained' = spent
                       /\ own' = OwnIf(TRUE, [own EXCEPT !.entries = Append(@, [key |-> key, value |-> NotString])])
                       /\ UNCHANGED <<binary, xml, selected, outcome>>
                ELSE IF Duplicate(key) THEN End("malformed")
                ELSE IF refs + 2 > MaxRefs \/ spent + Cost(pair[2]) > MaxRetained THEN End("limit")
                ELSE IF binary.objects[pair[2]].type = "utf8" THEN End("unsupported")
                ELSE /\ at' = at + 1 /\ refs' = refs + 2 /\ retained' = spent + Cost(pair[2])
                     /\ selected' = [k \in DOMAIN selected \cup {key} |->
                                       IF k # key THEN selected[k] ELSE IF IsText(pair[2]) THEN Present(Decoded(pair[2])) ELSE NotString]
                     /\ own' = [OwnKey(own, key) EXCEPT !.entries = Append(@, [key |-> key, value |->
                                  IF IsText(pair[2]) THEN Present(binary.objects[pair[2]].value) ELSE NotString])]
                     /\ UNCHANGED <<binary, xml, outcome>>

BinaryEnds ==
  /\ outcome = "running" /\ binary # NoBinary /\ at > Len(binary.dict)
  /\ End("parsed")

Init ==
  /\ binary \in Binaries \cup {NoBinary} /\ at = 0
  /\ stack = <<>> /\ nodes = 0 /\ depth = 0 /\ valueDepth = 0
  /\ flags = [seen |-> FALSE, closed |-> FALSE, inDict |-> FALSE, dictClosed |-> FALSE]
  /\ inKey = FALSE /\ inString = FALSE /\ keyNext = FALSE /\ pending = None /\ keyText = <<>> /\ text = <<>>
  /\ selected = NoFields /\ retained = 0 /\ refs = 0 /\ outcome = "running" /\ own = NoOwn

Next ==
  \/ \E tag \in Tags : Start(tag) \/ Empty(tag)
  \/ \E value \in Strings : Text(value)
  \/ EndTag \/ Declared \/ Eof \/ BinaryStart \/ BinaryEntry \/ BinaryEnds

Spec == Init /\ [][Next]_vars

----------------------------------------------------------------------------
(* Properties.                                                             *)

\* A plain Info.plist that parses gives exactly the selected entries of its
\* root dictionary: never an entry of a dictionary that is a value there, never
\* the value of another key, and never one of two values of a key given twice.
\* It says nothing of a document that is not plain: one with a key or string of
\* several texts, or whose root holds a value without a key.
PlainFieldsAreTheRoots ==
  (outcome = "parsed" /\ own.plain) => (selected = Reference(own.entries) /\ ~Twice(own.entries))

\* docs/APPLICATIONS.md:143 says of every document: "bounded XML/binary parsing
\* for selected top-level keys".  The code looks at the depth of an element only
\* inside a value that has a key (value_depth), so that the keys of a dictionary
\* without one are taken for keys of the root.
KeysAreTopLevel == outcome = "parsed" => DOMAIN selected \subseteq own.keys
=============================================================================
