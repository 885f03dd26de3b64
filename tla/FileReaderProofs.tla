---------------------------- MODULE FileReaderProofs ----------------------------
(***************************************************************************)
(* Files of any sections, in any order and number: the arities of their    *)
(* blocks, the file they are parsed for, and that nothing gets lost.       *)
(***************************************************************************)
EXTENDS FileReader, SequenceTheorems, TLAPS

Statuses == {"idle", "header", "sections", "items", "validator", "accepted",
             "refused", "undefined"}

Shape ==
  /\ reads \in 0..MaxReads /\ (status \notin {"idle"} => reads > 0)
  /\ functionTypes = [x \in 1..MaxReads |-> functionTypes[x]]
  /\ wasm = [t \in Fields |-> wasm[t]]
  /\ held = [t \in Tags |-> held[t]]
  /\ status \in Statuses
  /\ section \in Sections \cup {NoSection}
  /\ \E S : vec \in Seq(S)
  /\ status = "items" =>
       /\ section \in Sections /\ section.tag \in foundSections
       /\ Len(vec) <= Len(section.items)

\* No file has types before its type section has been read, nor those to come.
UntypedUntilRead ==
  /\ \A x \in 1..MaxReads : x > reads => functionTypes[x] = <<>>
  /\ /\ Reading
     /\ "Type" \notin foundSections \/ (status = "items" /\ section.tag = "Type")
     => Types = <<>>

\* The sections that were read are complete; the one that is read is not in the
\* file yet, and those that were not read held nothing.
HeldOrRead ==
  status \in {"header", "sections", "items", "validator", "accepted"} =>
    \A t \in Tags :
      /\ t \notin foundSections => held[t] = 0
      /\ held[t] = IF status = "items" /\ t = section.tag THEN Len(section.items)
                   ELSE IF t = "Type" THEN Len(Types) ELSE Len(wasm[t])

\* The validator is only run on as many bodies as functions.
ValidatorCounts ==
  status = "validator" => Len(wasm["Function"]) = Len(wasm["Code"])

\* The inductive invariant.
IInv ==
  /\ Shape /\ ParsedForItsFile
  /\ UntypedUntilRead /\ AritiesStay
  /\ HeldOrRead
  /\ ValidatorCounts /\ ValidatorStaysDefined

-----------------------------------------------------------------------------
(* The blocks of an item, and of a file.                                   *)

ResolvedIn(b, types) == Resolves(b.block, types) /\ b.arity = Arity(b.block, types)

\* What the parser makes of code that it accepts.
LEMMA ParsedResolved ==
  ASSUME NEW code, Parses(code), NEW b \in Parsed(code)
  PROVE  ResolvedIn(b, CurrentTypes)
<1>1. PICK c \in code.blocks : b = [block |-> c, arity |-> Arity(c, CurrentTypes)]
  BY DEF Parsed
<1>2. b.block = c /\ b.arity = Arity(c, CurrentTypes)
  BY <1>1
<1>3. Resolves(c, CurrentTypes)
  BY DEF Parses
<1> QED BY <1>2, <1>3 DEF ResolvedIn

\* An item comes with blocks that are resolved, whichever section it is of.
LEMMA ItemResolved ==
  ASSUME NEW tag, NEW i, NEW item \in ReadItem(tag, i), NEW b \in BlocksOf(tag, item)
  PROVE  ResolvedIn(b, CurrentTypes)
<1>1. tag \in {"Global", "Element", "Code", "Data"} /\ b \in item.blocks /\ i # Garbled
  BY DEF BlocksOf, ReadItem
<1>2. CASE tag = "Global"
  <2>1. item \in ReadGlobal(i)
    BY <1>1, <1>2 DEF ReadItem
  <2>2. Parses(i.code) /\ item.blocks = Parsed(i.code)
    BY <2>1 DEF ReadGlobal
  <2> QED BY <1>1, <2>2, ParsedResolved
<1>3. CASE tag = "Element"
  <2>1. item \in ReadElement(i)
    BY <1>1, <1>3 DEF ReadItem
  <2> DEFINE passiveOrDeclarative == i.type % 2 = 1
             codes == (IF passiveOrDeclarative THEN {} ELSE {i.code})
                        \cup (IF (i.type \div 4) % 2 = 1 THEN ToSet(i.expressions) ELSE {})
  <2>2. (\A c \in codes : Parses(c)) /\ item.blocks = UNION {Parsed(c) : c \in codes}
    BY <2>1 DEF ReadElement
  <2>3. PICK c \in codes : b \in Parsed(c)
    BY <1>1, <2>2
  <2> QED BY <2>2, <2>3, ParsedResolved
<1>4. CASE tag = "Code"
  <2>1. item \in ReadCode(i)
    BY <1>1, <1>4 DEF ReadItem
  <2>2. Parses(i.code) /\ item.blocks = Parsed(i.code)
    BY <2>1 DEF ReadCode
  <2> QED BY <1>1, <2>2, ParsedResolved
<1>5. CASE tag = "Data"
  <2>1. item \in ReadData(i)
    BY <1>1, <1>5 DEF ReadItem
  <2>2. Parses(i.code) /\ item.blocks = Parsed(i.code)
    BY <1>1, <2>1 DEF ReadData
  <2> QED BY <1>1, <2>2, ParsedResolved
<1> QED BY <1>1, <1>2, <1>3, <1>4, <1>5

\* A block that was resolved without types has the same arity with any.
LEMMA ResolvedWithoutTypes ==
  ASSUME NEW b, NEW types, ResolvedIn(b, <<>>)
  PROVE  ResolvedIn(b, types)
<1>1. b.block.index = NoIndex
  BY DEF ResolvedIn, Resolves
<1> QED BY <1>1 DEF ResolvedIn, Resolves, Arity

LEMMA AritiesAreResolved == AritiesStay <=> \A b \in blocks : ResolvedIn(b, Types)
  BY DEF AritiesStay, ResolvedIn

\* Appending keeps a sequence one, of whatever it is.
LEMMA AppendToAny ==
  ASSUME NEW s, NEW item, \E S : s \in Seq(S)
  PROVE  /\ \E S : Append(s, item) \in Seq(S)
         /\ Len(Append(s, item)) = Len(s) + 1 /\ Len(s) \in Nat
<1>1. PICK S : s \in Seq(S)
  OBVIOUS
<1>2. s \in Seq(S \cup {item})
  BY <1>1
<1> QED BY <1>2

-----------------------------------------------------------------------------
LEMMA InitInv == Init => IInv
<1> SUFFICES ASSUME Init PROVE IInv
  OBVIOUS
<1>1. Shape
  <2>1. vec \in Seq({})
    BY DEF Init
  <2> QED BY <2>1, FileReaderAssumption DEF Init, Shape, Statuses
<1>2. UntypedUntilRead
  BY DEF Init, UntypedUntilRead, Reading
<1> QED BY <1>1, <1>2
        DEF Init, IInv, ParsedForItsFile, Reading, AritiesStay, HeldOrRead,
            ValidatorCounts, ValidatorStaysDefined

LEMMA BeginReadInv ==
  ASSUME IInv, NEW validate \in BOOLEAN, BeginRead(validate)
  PROVE  IInv'
<1> USE DEF BeginRead, ParseFor
<1>1. reads' \in 1..MaxReads /\ reads' = reads + 1 /\ reads \in Nat
  BY FileReaderAssumption DEF IInv, Shape
<1>2. functionTypes'[reads'] = <<>>
  BY <1>1 DEF IInv, UntypedUntilRead
<1>3. Shape'
  <2>1. \E S : vec' \in Seq(S)
    <3>1. vec' \in Seq({})
      OBVIOUS
    <3> QED BY <3>1
  <2> QED BY <1>1, <2>1 DEF IInv, Shape, Statuses
<1>4. UntypedUntilRead'
  BY <1>1, <1>2 DEF IInv, UntypedUntilRead, Types
<1>5. HeldOrRead'
  BY <1>2 DEF HeldOrRead, Types, Fields, Tags
<1> QED BY <1>3, <1>4, <1>5
        DEF IInv, ParsedForItsFile, AritiesStay, ValidatorCounts, ValidatorStaysDefined

LEMMA RefuseInv ==
  ASSUME IInv, status # "idle", Refuse
  PROVE  IInv'
<1> USE DEF Refuse, content
<1>1. Shape'
  BY DEF IInv, Shape, Statuses
<1>2. ~Reading'
  BY DEF Reading
<1>3. UntypedUntilRead'
  BY <1>2 DEF IInv, UntypedUntilRead
<1>4. AritiesStay'
  BY DEF IInv, AritiesStay, Types, Resolves, Arity
<1> QED BY <1>1, <1>2, <1>3, <1>4
        DEF IInv, ParsedForItsFile, HeldOrRead, ValidatorCounts, ValidatorStaysDefined

LEMMA ReadHeaderInv ==
  ASSUME IInv, ReadHeader
  PROVE  IInv'
<1>1. CASE Refuse
  BY <1>1, RefuseInv DEF ReadHeader
<1>2. CASE status' = "sections" /\ ~Refuse
  <2>1. status = "header" /\ UNCHANGED <<content, foundSections, section, vec, held>>
    BY <1>2 DEF ReadHeader
  <2> USE <1>2, <2>1 DEF content
  <2>2. Shape'
    BY DEF IInv, Shape, Statuses
  <2>3. Reading /\ Reading'
    BY DEF Reading
  <2>4. UntypedUntilRead' /\ ParsedForItsFile'
    BY <2>3 DEF IInv, UntypedUntilRead, ParsedForItsFile, Types
  <2>5. AritiesStay'
    BY DEF IInv, AritiesStay, Types, Resolves, Arity
  <2>6. HeldOrRead'
    BY DEF IInv, HeldOrRead, Types
  <2> QED BY <2>2, <2>4, <2>5, <2>6 DEF IInv, ValidatorCounts, ValidatorStaysDefined
<1> QED BY <1>1, <1>2 DEF ReadHeader

LEMMA BeginSectionInv ==
  ASSUME IInv, NEW s \in Sections, BeginSection(s)
  PROVE  IInv'
<1>1. CASE ~Allowed(s)
  BY <1>1, RefuseInv DEF BeginSection
<1>2. CASE Allowed(s)
  <2>1. /\ status = "sections" /\ status' = "items"
        /\ foundSections' = foundSections \cup {s.tag}
        /\ section' = s /\ vec' = <<>>
        /\ held' = [t \in Tags |-> IF t = s.tag THEN held[t] + Len(s.items) ELSE held[t]]
        /\ UNCHANGED content
    BY <1>2 DEF BeginSection
  <2> USE <2>1 DEF content
  <2>2. Len(s.items) \in Nat /\ Len(vec') = 0
    BY FileReaderAssumption
  <2>3. s.tag \in Tags => s.tag \notin foundSections
    BY <1>2 DEF Allowed, Tags
  <2>4. Shape'
    <3>1. vec' \in Seq({})
      OBVIOUS
    <3> QED BY <2>2, <3>1 DEF IInv, Shape, Statuses
  <2>5. Reading /\ Reading'
    BY DEF Reading
  <2>6. UntypedUntilRead'
    BY <2>3, <2>5 DEF IInv, UntypedUntilRead, Types, Tags
  <2>7. ParsedForItsFile'
    BY <2>5 DEF IInv, ParsedForItsFile
  <2>8. AritiesStay'
    BY DEF IInv, AritiesStay, Types, Resolves, Arity
  <2>9. HeldOrRead'
    BY <2>2, <2>3 DEF IInv, HeldOrRead, Types
  <2> QED BY <2>4, <2>6, <2>7, <2>8, <2>9 DEF IInv, ValidatorCounts, ValidatorStaysDefined
<1> QED BY <1>1, <1>2

LEMMA SectionItemInv ==
  ASSUME IInv, SectionItem
  PROVE  IInv'
<1>1. CASE Refuse
  BY <1>1, RefuseInv DEF SectionItem
<1>2. CASE ~Refuse
  <2> DEFINE i == section.items[Len(vec) + 1]
  <2>1. PICK item \in ReadItem(section.tag, i) :
          /\ vec' = Append(vec, item)
          /\ blocks' = blocks \cup BlocksOf(section.tag, item)
    BY <1>2 DEF SectionItem
  <2>2. /\ status = "items" /\ Len(vec) # Len(section.items)
        /\ UNCHANGED <<reads, functionTypes, wasm, currentWasmFile,
                       runValidator, foundSections, section, status, held>>
    BY <1>2 DEF SectionItem
  <2>3. Reading /\ Reading' /\ currentWasmFile = reads
    BY <2>2 DEF Reading, IInv, ParsedForItsFile
  <2>4. Shape'
    <3>1. \E S : vec \in Seq(S)
      BY DEF IInv, Shape
    <3>2. /\ \E S : vec' \in Seq(S)
          /\ Len(vec') = Len(vec) + 1 /\ Len(vec) \in Nat
      BY <2>1, <3>1, AppendToAny
    <3>3. section \in Sections /\ Len(vec) <= Len(section.items)
      BY <2>2 DEF IInv, Shape
    <3>4. Len(vec') <= Len(section.items)
      BY <2>2, <3>2, <3>3, FileReaderAssumption
    <3> QED BY <2>2, <3>2, <3>4 DEF IInv, Shape
  <2>5. AritiesStay'
    <3>1. \A b \in blocks : ResolvedIn(b, Types)
      BY AritiesAreResolved DEF IInv
    <3>2. CurrentTypes = Types
      BY <2>3 DEF CurrentTypes, Types
    <3>3. \A b \in BlocksOf(section.tag, item) : ResolvedIn(b, Types)
      BY <2>1, <3>2, ItemResolved
    <3>4. Types' = Types
      BY <2>2 DEF Types
    <3> QED BY <2>1, <3>1, <3>3, <3>4 DEF AritiesStay, ResolvedIn
  <2>6. UntypedUntilRead' /\ ParsedForItsFile'
    BY <2>2, <2>3 DEF IInv, UntypedUntilRead, ParsedForItsFile, Types
  <2>7. HeldOrRead' /\ ValidatorCounts' /\ ValidatorStaysDefined'
    BY <2>2 DEF IInv, HeldOrRead, ValidatorCounts, ValidatorStaysDefined, Types
  <2> QED BY <2>4, <2>5, <2>6, <2>7 DEF IInv
<1> QED BY <1>1, <1>2

LEMMA EndSectionInv ==
  ASSUME IInv, EndSection
  PROVE  IInv'
<1>1. CASE ExtraData
  BY <1>1, RefuseInv DEF EndSection
<1>2. CASE ~ExtraData
  <2>1. /\ status = "items" /\ status' = "sections"
        /\ functionTypes' = IF section.tag = "Type"
                            THEN [functionTypes EXCEPT ![reads] = vec] ELSE functionTypes
        /\ wasm' = IF section.tag \in Fields THEN [wasm EXCEPT ![section.tag] = vec] ELSE wasm
        /\ section' = NoSection /\ vec' = <<>>
        /\ UNCHANGED <<reads, blocks, currentWasmFile, runValidator, foundSections, held>>
    BY <1>2 DEF EndSection
  <2> USE <2>1
  <2>2. /\ reads \in 1..MaxReads /\ section \in Sections
        /\ functionTypes = [x \in 1..MaxReads |-> functionTypes[x]]
        /\ wasm = [t \in Fields |-> wasm[t]]
        /\ section.tag \in foundSections
    BY FileReaderAssumption DEF IInv, Shape
  <2>3. Shape'
    <3>1. vec' \in Seq({})
      OBVIOUS
    <3> QED BY <2>2, <3>1 DEF IInv, Shape, Statuses
  <2>4. Reading /\ Reading'
    BY DEF Reading
  <2>5. \A x \in 1..MaxReads : x > reads => functionTypes'[x] = <<>>
    BY <2>2 DEF IInv, UntypedUntilRead
  <2>6. UntypedUntilRead' /\ ParsedForItsFile'
    <3>1. "Type" \notin foundSections => Types' = Types
      BY <2>2 DEF Types
    <3> QED BY <2>4, <2>5, <3>1 DEF IInv, UntypedUntilRead, ParsedForItsFile
  <2>7. AritiesStay'
    <3>1. \A b \in blocks : ResolvedIn(b, Types)
      BY AritiesAreResolved DEF IInv
    <3>2. CASE section.tag = "Type"
      <4>1. Types = <<>>
        BY <2>4, <3>2 DEF IInv, UntypedUntilRead
      <4>2. \A b \in blocks : ResolvedIn(b, Types')
        BY <3>1, <4>1, ResolvedWithoutTypes
      <4> QED BY <4>2 DEF AritiesStay, ResolvedIn
    <3>3. CASE section.tag # "Type"
      <4>1. Types' = Types
        BY <3>3 DEF Types
      <4> QED BY <3>1, <4>1 DEF AritiesStay, ResolvedIn
    <3> QED BY <3>2, <3>3
  <2>8. section.tag \in Tags => Len(vec) = Len(section.items)
    <3>1. section.tag \in Tags => ~(Len(vec) < Len(section.items))
      BY <1>2 DEF ExtraData, Tags
    <3>2. Len(vec) <= Len(section.items) /\ Len(section.items) \in Nat
      BY FileReaderAssumption DEF IInv, Shape
    <3>3. Len(vec) \in Nat
      BY DEF IInv, Shape
    <3> QED BY <3>1, <3>2, <3>3
  <2>9. HeldOrRead'
    <3> SUFFICES ASSUME NEW t \in Tags
                 PROVE  /\ t \notin foundSections' => held'[t] = 0
                        /\ held'[t] = IF t = "Type" THEN Len(Types') ELSE Len(wasm'[t])
      BY DEF HeldOrRead
    <3>1. /\ t \notin foundSections => held[t] = 0
          /\ held[t] = IF t = section.tag THEN Len(section.items)
                       ELSE IF t = "Type" THEN Len(Types) ELSE Len(wasm[t])
      BY DEF IInv, HeldOrRead
    <3>2. CASE t = section.tag
      <4>1. held[t] = Len(vec)
        BY <2>8, <3>1, <3>2
      <4>2. IF t = "Type" THEN Types' = vec ELSE wasm'[t] = vec
        BY <2>2, <3>2 DEF Types, Fields
      <4> QED BY <3>1, <4>1, <4>2
    <3>3. CASE t # section.tag
      <4>1. IF t = "Type" THEN Types' = Types ELSE wasm'[t] = wasm[t]
        BY <2>2, <3>3 DEF Types, Fields
      <4> QED BY <3>1, <3>3, <4>1
    <3> QED BY <3>2, <3>3
  <2> QED BY <2>3, <2>6, <2>7, <2>9 DEF IInv, ValidatorCounts, ValidatorStaysDefined
<1> QED BY <1>1, <1>2

LEMMA EndOfFileInv ==
  ASSUME IInv, EndOfFile
  PROVE  IInv'
<1>1. CASE ~CountsMatch
  BY <1>1, RefuseInv DEF EndOfFile
<1>2. CASE CountsMatch
  <2>1. /\ status = "sections" /\ status' \in {"validator", "accepted"}
        /\ UNCHANGED <<reads, functionTypes, wasm, blocks, runValidator,
                       foundSections, section, vec, held>>
    BY <1>2 DEF EndOfFile
  <2> USE <2>1
  <2>2. Shape'
    BY DEF IInv, Shape, Statuses
  <2>3. ~Reading'
    BY DEF Reading
  <2>4. UntypedUntilRead' /\ ParsedForItsFile'
    BY <2>3 DEF IInv, UntypedUntilRead, ParsedForItsFile
  <2>5. AritiesStay'
    BY DEF IInv, AritiesStay, Types, Resolves, Arity
  <2>6. HeldOrRead'
    BY DEF IInv, HeldOrRead, Types
  <2>7. ValidatorCounts' /\ ValidatorStaysDefined'
    BY <1>2 DEF CountsMatch, ValidatorCounts, ValidatorStaysDefined
  <2> QED BY <2>2, <2>4, <2>5, <2>6, <2>7 DEF IInv
<1> QED BY <1>1, <1>2

LEMMA ValidateInv ==
  ASSUME IInv, Validate
  PROVE  IInv'
<1>1. /\ status = "validator" /\ status' \in {"accepted", "refused", "undefined"}
      /\ UNCHANGED <<content, foundSections, section, vec, held>>
  BY DEF Validate
<1> USE <1>1 DEF content
<1>2. Shape'
  BY DEF IInv, Shape, Statuses
<1>3. ~Reading'
  BY DEF Reading
<1>4. UntypedUntilRead' /\ ParsedForItsFile'
  BY <1>3 DEF IInv, UntypedUntilRead, ParsedForItsFile
<1>5. AritiesStay'
  BY DEF IInv, AritiesStay, Types, Resolves, Arity
<1>6. HeldOrRead' /\ ValidatorCounts'
  BY DEF IInv, HeldOrRead, ValidatorCounts, Types
<1>7. ValidatorStaysDefined'
  <2>1. CodeExists
    BY DEF CodeExists, IInv, ValidatorCounts
  <2>2. status' = "undefined" => ~KnownExports
    BY <2>1 DEF Validate
  <2> QED BY <2>2 DEF ValidatorStaysDefined, KnownExports
<1> QED BY <1>2, <1>4, <1>5, <1>6, <1>7 DEF IInv

-----------------------------------------------------------------------------

LEMMA NextInv == IInv /\ [Next]_vars => IInv'
<1> SUFFICES ASSUME IInv, [Next]_vars PROVE IInv'
  OBVIOUS
<1>1. ASSUME NEW validate \in BOOLEAN, BeginRead(validate) PROVE IInv'
  BY <1>1, BeginReadInv
<1>2. ASSUME NEW s \in Sections, BeginSection(s) PROVE IInv'
  BY <1>2, BeginSectionInv
<1>3. CASE UNCHANGED vars
  <2> USE <1>3 DEF vars
  <2>1. Shape' /\ ParsedForItsFile' /\ UntypedUntilRead'
    BY DEF IInv, Shape, ParsedForItsFile, UntypedUntilRead, Reading, Types
  <2>2. AritiesStay'
    BY DEF IInv, AritiesStay, Types, Resolves, Arity
  <2>3. HeldOrRead' /\ ValidatorCounts' /\ ValidatorStaysDefined'
    BY DEF IInv, HeldOrRead, ValidatorCounts, ValidatorStaysDefined, KnownExports, Types
  <2> QED BY <2>1, <2>2, <2>3 DEF IInv
<1> QED BY <1>1, <1>2, <1>3, ReadHeaderInv, SectionItemInv, EndSectionInv, EndOfFileInv,
           ValidateInv DEF Next

LEMMA Invariance == Spec => []IInv
<1>1. Init => IInv
  BY InitInv
<1>2. IInv /\ [Next]_vars => IInv'
  BY NextInv
<1> QED BY <1>1, <1>2, PTL DEF Spec

\* Whatever sections a file has and in which order, its blocks have the arities
\* that they were parsed with: a block with a type index is only accepted once
\* the types are there, which come once (WasmFile.cpp:306).
THEOREM AritiesAlwaysStay == Spec => []AritiesStay
<1>1. IInv => AritiesStay
  BY DEF IInv
<1> QED BY <1>1, Invariance, PTL

\* Code is parsed for the file that is read, after any number of reads that were
\* refused (WasmFile.cpp:291).
THEOREM AlwaysParsedForItsFile == Spec => []ParsedForItsFile
<1>1. IInv => ParsedForItsFile
  BY DEF IInv
<1> QED BY <1>1, Invariance, PTL

\* A file that is accepted has all the items of all its sections, however many
\* (WasmFile.cpp:364).
THEOREM NothingEverLost == Spec => []NothingLost
<1>1. IInv => NothingLost
  BY DEF IInv, HeldOrRead, NothingLost
<1> QED BY <1>1, Invariance, PTL

\* The validator finds the code of each function, and its only undefined step is
\* the switch over the kinds of exports (Validator.cpp:217).
THEOREM ValidatorAlwaysDefined == Spec => []ValidatorStaysDefined
<1>1. IInv => ValidatorStaysDefined
  BY DEF IInv
<1> QED BY <1>1, Invariance, PTL
=============================================================================
