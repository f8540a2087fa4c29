-------------------------- MODULE MarketTestsProofs --------------------------
(***************************************************************************)
(* Proofs about MarketTests for any file names and bounds.                 *)
(***************************************************************************)
EXTENDS MarketTests, SequenceTheorems, TLAPS

Lines == [record : Nat, part : {"open", "member", "close"}]

\* The directories of the replies, and the files in them.
RestDirs == {RestDir[t] : t \in RestTests}
RestFiles == {f \in DOMAIN files : f[1] \in RestDirs}

\* The file of a reply that was written by hand.
FileOf(w) == Path(RestDir[w.by], w.name)

\* A recording is a sequence of lines.
RecordingsOK ==
    /\ recorded \in [Recorders -> Nat]
    /\ \A f \in Recordings \cap DOMAIN files : files[f] \in Seq(Lines)
    /\ program \in Recorders /\ at = 2 => Recording \in DOMAIN files

WrittenOK ==
    /\ \A w \in written : w.by \in RestTests
    /\ \A w1, w2 \in written : w1.by = w2.by /\ w1.name = w2.name => w1 = w2

\* By hand, a file in the directory of a test is that test's, the last reply it
\* wrote under the name.
OwnFiles ==
    byHand =>
        /\ \A w \in written : /\ FileOf(w) \in DOMAIN files
                              /\ files[FileOf(w)] = [by |-> w.by, kind |-> w.kind]
        /\ \A f \in RestFiles : /\ files[f].by \in RestTests
                                /\ f = Path(RestDir[files[f].by], f[2])

\* By hand, what the parser was handed is in those it was given.
HandedOK ==
    byHand /\ program \in RestParsers =>
        \A h \in handed : \E f \in Given :
            /\ h.by = files[f].by /\ h.name = f[2] /\ h.kind = files[f].kind
            /\ h.outcome = Summary(h.kind)

\* The inductive invariant.
FilesInv == RecordingsOK /\ WrittenOK /\ OwnFiles /\ HandedOK

-----------------------------------------------------------------------------
(* Facts about files and lines.                                             *)

\* Writing a file leaves the others as they are.
LEMMA WriteFile ==
  ASSUME NEW path, NEW contents, Write(path, contents)
  PROVE  /\ DOMAIN files' = DOMAIN files \cup {path}
         /\ files'[path] = contents
         /\ \A f \in DOMAIN files : f # path => files'[f] = files[f]
BY DEF Write

\* A recording is in no directory of replies.
LEMMA RecordingsApart ==
  ASSUME NEW f \in Recordings
  PROVE  f[1] \notin RestDirs \cup {"output"}
BY DEF Recordings, Recorders, RecordingOf, Path, WsDir, RestDir, RestDirs, RestTests

\* What a run of parse_rest_output is given is a directory of replies.
LEMMA GivenAreReplies ==
  ASSUME program \in RestParsers
  PROVE  /\ Parses[program] \in RestTests
         /\ Given \subseteq RestFiles
BY DEF RestParsers, Parses, RestTests, Given, RestFiles, RestDirs

\* What is appended keeps what was there.
LEMMA AppendedIsPrefix ==
  ASSUME NEW s \in Seq(Lines), NEW t \in Seq(Lines)
  PROVE  IsPrefix(s, s \o t)
<1>1. /\ s \o t \in Seq(Lines) /\ Len(s \o t) = Len(s) + Len(t)
      /\ \A i \in 1..(Len(s) + Len(t)) :
            (s \o t)[i] = IF i <= Len(s) THEN s[i] ELSE t[i - Len(s)]
  BY ConcatProperties
<1>2. Len(s) \in Nat /\ Len(t) \in Nat
  BY LenProperties
<1>3. SubSeq(s, 1, Len(s)) = s
  BY SubSeqFull
<1>4. SubSeq(s \o t, 1, Len(s)) = s
  <2> DEFINE u == s \o t
             v == SubSeq(u, 1, Len(s))
  <2>1. \A i \in 1..Len(s) : u[i] = s[i] /\ s[i] \in Lines
    BY <1>1, <1>2, ElementOfSeq
  <2> HIDE DEF u
  <2>2. /\ v \in Seq(Lines) /\ Len(v) = IF 1 <= Len(s) THEN Len(s) - 1 + 1 ELSE 0
        /\ \A i \in 1..(Len(s) - 1 + 1) : v[i] = u[1 + i - 1]
    BY <1>2, <2>1, SubSeqProperties
  <2> HIDE DEF v
  <2>3. Len(v) = Len(s) /\ \A i \in 1..Len(v) : v[i] = s[i]
    BY <1>2, <2>1, <2>2
  <2>4. v = s
    BY <2>2, <2>3, SeqEqual
  <2> QED
    BY <2>4 DEF v, u
<1> QED
  BY <1>1, <1>2, <1>3, <1>4 DEF IsPrefix

LEMMA OwnPrefix == ASSUME NEW s \in Seq(Lines) PROVE IsPrefix(s, s)
BY LenProperties DEF IsPrefix

\* The lines of one record.
LEMMA RecordLines == ASSUME NEW n \in Nat PROVE jsonToString(n) \in Seq(Lines)
<1>1. /\ [record |-> n, part |-> "open"] \in Lines
      /\ [record |-> n, part |-> "member"] \in Lines
      /\ [record |-> n, part |-> "close"] \in Lines
  BY DEF Lines
<1> QED
  BY <1>1 DEF jsonToString

-----------------------------------------------------------------------------
LEMMA InitFilesInv == Init => FilesInv
<1> SUFFICES ASSUME Init PROVE FilesInv
  OBVIOUS
<1>1. DOMAIN files = {}
  BY DEF Init
<1> QED
  BY <1>1 DEF Init, FilesInv, RecordingsOK, WrittenOK, OwnFiles, HandedOK, RestFiles

\* Starting and ending programs does not touch files; the parser starts with
\* nothing handed to it.
LEMMA StartKeeps ==
  ASSUME FilesInv, NEW p \in Programs, Start(p)
  PROVE  FilesInv'
<1>1. UNCHANGED <<byHand, files, written, recorded>> /\ at' # 2
  BY DEF Start, mode
<1>2. program' \in RestParsers => handed' = {}
  BY DEF Start
<1>3. RecordingsOK' /\ WrittenOK' /\ OwnFiles'
  BY <1>1 DEF FilesInv, RecordingsOK, WrittenOK, OwnFiles, RestFiles
<1>4. HandedOK'
  BY <1>2 DEF HandedOK
<1> QED
  BY <1>3, <1>4 DEF FilesInv

LEMMA ExitKeeps ==
  ASSUME FilesInv, NEW status, Exit(status)
  PROVE  FilesInv'
<1>1. /\ program' = "none" /\ UNCHANGED <<byHand, files, written, recorded>>
  BY DEF Exit, mode
<1> QED
  BY <1>1 DEF FilesInv, RecordingsOK, WrittenOK, OwnFiles, HandedOK, RestFiles, RestParsers,
              Recorders

LEMMA SkipKeeps ==
  ASSUME FilesInv, Skip
  PROVE  FilesInv'
<1>1. /\ program' = "none" /\ UNCHANGED <<byHand, files, written, recorded>>
  BY DEF Skip, mode
<1> QED
  BY <1>1 DEF FilesInv, RecordingsOK, WrittenOK, OwnFiles, HandedOK, RestFiles, RestParsers,
              Recorders

LEMMA RestCallKeeps ==
  ASSUME FilesInv, NEW kind, RestCall(kind)
  PROVE  FilesInv'
<1> DEFINE name == Apis(program)[at]
           path == Path(outputDir(program), name)
           w == [by |-> program, name |-> name, kind |-> kind]
<1>1. program \in RestTests /\ program' = program
      /\ UNCHANGED <<byHand, recorded, handed>>
  BY DEF RestCall, mode
<1>2. HandedOK'
  BY <1>1 DEF HandedOK, RestTests, RestParsers
<1>3. CASE UNCHANGED <<files, written>>
  <2>1. RecordingsOK'
    BY <1>1, <1>3 DEF FilesInv, RecordingsOK, Recorders, RestTests
  <2> QED
    BY <1>1, <1>2, <1>3, <2>1 DEF FilesInv, WrittenOK, OwnFiles, RestFiles
<1>4. CASE /\ Write(path, [by |-> program, kind |-> kind])
           /\ written' = {v \in written : v.by # program \/ v.name # name} \cup {w}
  <2>1. /\ DOMAIN files' = DOMAIN files \cup {path}
        /\ files'[path] = [by |-> program, kind |-> kind]
        /\ \A f \in DOMAIN files : f # path => files'[f] = files[f]
    BY <1>4, WriteFile
  <2>2. path[1] \in RestDirs \cup {"output"}
    BY <1>1 DEF outputDir, RestDirs, RestTests, RestDir, Path
  <2>3. path \notin Recordings
    BY <2>2, RecordingsApart
  <2>4. RecordingsOK'
    BY <1>1, <2>1, <2>3 DEF FilesInv, RecordingsOK, Recordings, Recorders, RestTests
  <2>5. WrittenOK'
    <3>1. w.by = program /\ w.name = name
      OBVIOUS
    <3> HIDE DEF w, name
    <3> QED
      BY <1>1, <1>4, <3>1 DEF FilesInv, WrittenOK
  <2>6. OwnFiles'
    <3> SUFFICES ASSUME byHand
                 PROVE  /\ \A v \in written' :
                            /\ FileOf(v) \in DOMAIN files'
                            /\ files'[FileOf(v)] = [by |-> v.by, kind |-> v.kind]
                        /\ \A f \in RestFiles' :
                            /\ files'[f].by \in RestTests
                            /\ f = Path(RestDir[files'[f].by], f[2])
      BY <1>1 DEF OwnFiles, FileOf
    <3>1. path = <<RestDir[program], name>> /\ path[2] = name
      BY DEF outputDir, Path
    <3>2. FileOf(w) = path /\ w.by = program /\ w.kind = kind
      BY <3>1 DEF FileOf, Path
    <3>3. \A v \in written : v.by \in RestTests
      BY DEF FilesInv, WrittenOK
    <3>4. \A v \in written : v.by # program \/ v.name # name => FileOf(v) # path
      BY <1>1, <3>1, <3>3 DEF FileOf, Path, RestDir, RestTests
    <3>5. ASSUME NEW v \in written'
          PROVE  /\ FileOf(v) \in DOMAIN files'
                 /\ files'[FileOf(v)] = [by |-> v.by, kind |-> v.kind]
      <4>1. CASE v = w
        BY <2>1, <3>2, <4>1
      <4>2. CASE v \in written /\ (v.by # program \/ v.name # name)
        BY <2>1, <3>4, <4>2 DEF FilesInv, OwnFiles
      <4> QED
        BY <1>4, <4>1, <4>2
    <3>6. ASSUME NEW f \in RestFiles'
          PROVE  files'[f].by \in RestTests /\ f = Path(RestDir[files'[f].by], f[2])
      <4>1. CASE f = path
        BY <1>1, <2>1, <3>1, <4>1 DEF Path
      <4>2. CASE f # path
        <5>1. f \in RestFiles /\ files'[f] = files[f]
          BY <2>1, <4>2 DEF RestFiles
        <5> QED
          BY <5>1 DEF FilesInv, OwnFiles
      <4> QED
        BY <4>1, <4>2
    <3> QED
      BY <3>5, <3>6
  <2> QED
    BY <1>2, <2>4, <2>5, <2>6 DEF FilesInv
<1> QED
  BY <1>3, <1>4 DEF RestCall

\* A recorder writes its recording, which is not among the replies.
LEMMA RecorderKeeps ==
  ASSUME FilesInv, Open \/ Record
  PROVE  /\ FilesInv'
         /\ \A f \in Recordings \cap DOMAIN files : IsPrefix(files[f], files'[f])
<1>1. program \in Recorders /\ program' = program /\ UNCHANGED <<byHand, written, handed>>
  BY DEF Open, Record, mode
<1>2. Recording \in Recordings
  BY <1>1 DEF Recording, Recordings
<1>3. recorded' \in [Recorders -> Nat]
  BY <1>1 DEF Open, Record, FilesInv, RecordingsOK
<1>4. Recording \in DOMAIN files => files[Recording] \in Seq(Lines)
  BY <1>2 DEF FilesInv, RecordingsOK
<1>5. \E c \in Seq(Lines) : /\ Write(Recording, c)
                            /\ (Recording \in DOMAIN files => IsPrefix(files[Recording], c))
  <2>1. CASE Open
    <3>1. Write(Recording, Opened(Recording))
      BY <2>1 DEF Open
    <3>2. CASE Recording \in DOMAIN files
      BY <1>4, <3>1, <3>2, OwnPrefix DEF Opened
    <3>3. CASE Recording \notin DOMAIN files
      <4>1. <<>> \in Seq(Lines)
        BY EmptySeq
      <4> QED
        BY <3>1, <3>3, <4>1 DEF Opened
    <3> QED
      BY <3>2, <3>3
  <2>2. CASE Record
    <3> DEFINE new == jsonToString(recorded[program] + 1)
    <3>1. Write(Recording, files[Recording] \o new) /\ Recording \in DOMAIN files
      BY <1>1, <2>2 DEF Record, FilesInv, RecordingsOK
    <3>2. recorded[program] + 1 \in Nat
      BY <1>1 DEF FilesInv, RecordingsOK
    <3>3. new \in Seq(Lines)
      BY <3>2, RecordLines
    <3> HIDE DEF new
    <3>4. files[Recording] \o new \in Seq(Lines)
      BY <1>4, <3>1, <3>3, ConcatProperties
    <3> QED
      BY <1>4, <3>1, <3>3, <3>4, AppendedIsPrefix
  <2> QED
    BY <2>1, <2>2
<1>6. PICK c \in Seq(Lines) : /\ Write(Recording, c)
                             /\ (Recording \in DOMAIN files => IsPrefix(files[Recording], c))
  BY <1>5
<1>7. /\ DOMAIN files' = DOMAIN files \cup {Recording}
      /\ files'[Recording] = c
      /\ \A f \in DOMAIN files : f # Recording => files'[f] = files[f]
  BY <1>6 DEF Write
<1>8. RecordingsOK'
  <2>1. Recording' = Recording
    BY <1>1 DEF Recording
  <2> QED
    BY <1>1, <1>3, <1>6, <1>7, <2>1 DEF FilesInv, RecordingsOK, Recordings
<1>9. \A f : f[1] \in RestDirs => f # Recording
  BY <1>2, RecordingsApart
<1>10. RestFiles' = RestFiles /\ \A f \in RestFiles : files'[f] = files[f]
  BY <1>7, <1>9 DEF RestFiles
<1>11. WrittenOK' /\ OwnFiles' /\ HandedOK'
  <2>1. WrittenOK'
    BY <1>1 DEF FilesInv, WrittenOK
  <2>2. OwnFiles'
    <3>1. \A w \in written : FileOf(w)[1] \in RestDirs
      BY DEF FilesInv, WrittenOK, FileOf, Path, RestDirs
    <3> QED
      BY <1>1, <1>7, <1>9, <1>10, <3>1 DEF FilesInv, OwnFiles, FileOf
  <2>3. HandedOK'
    BY <1>1 DEF HandedOK, Recorders, RestParsers
  <2> QED
    BY <2>1, <2>2, <2>3
<1>12. \A f \in Recordings \cap DOMAIN files : IsPrefix(files[f], files'[f])
  <2> SUFFICES ASSUME NEW f \in Recordings \cap DOMAIN files PROVE IsPrefix(files[f], files'[f])
    OBVIOUS
  <2>1. CASE f = Recording
    BY <1>6, <1>7, <2>1
  <2>2. CASE f # Recording
    <3>1. files[f] \in Seq(Lines)
      BY DEF FilesInv, RecordingsOK
    <3> QED
      BY <1>7, <2>2, <3>1, OwnPrefix
  <2> QED
    BY <2>1, <2>2
<1> QED
  BY <1>8, <1>11, <1>12 DEF FilesInv

\* The parser is handed a file that is there.
LEMMA ParseRestKeeps ==
  ASSUME FilesInv, program \in RestParsers, NEW f \in Given, ParseRest(f)
  PROVE  FilesInv'
<1> DEFINE h == [by |-> files[f].by, name |-> f[2], kind |-> files[f].kind,
                 outcome |-> Summary(files[f].kind)]
<1>1. /\ handed' = handed \cup {h}
      /\ UNCHANGED <<byHand, program, at, files, written, recorded>>
  BY DEF ParseRest, mode
<1>2. /\ h.by = files[f].by /\ h.name = f[2] /\ h.kind = files[f].kind
      /\ h.outcome = Summary(h.kind)
  OBVIOUS
<1> HIDE DEF h
<1>3. HandedOK'
  BY <1>1, <1>2 DEF FilesInv, HandedOK, Given
<1> QED
  BY <1>1, <1>3
  DEF FilesInv, RecordingsOK, WrittenOK, OwnFiles, RestFiles, Recording

LEMMA ParseJsonlKeeps ==
  ASSUME FilesInv, processLine \/ UNCHANGED vars
  PROVE  FilesInv'
<1>1. CASE processLine
  <2>1. /\ program \in JsonlParsers
        /\ UNCHANGED <<byHand, program, files, written, handed, recorded>>
    BY <1>1 DEF processLine, mode
  <2>2. RecordingsOK'
    BY <2>1 DEF FilesInv, RecordingsOK, Recordings, Recorders, JsonlParsers
  <2> QED
    BY <2>1, <2>2 DEF FilesInv, WrittenOK, OwnFiles, HandedOK, RestFiles, Given
<1>2. CASE UNCHANGED vars
  BY <1>2 DEF vars, mode, Given, FilesInv, RecordingsOK, WrittenOK, OwnFiles, HandedOK, RestFiles, Recording
<1> QED
  BY <1>1, <1>2

\* Every step that does not record leaves the recordings as they are.
LEMMA OthersKeepRecordings ==
  ASSUME FilesInv, Next, ~Open, ~Record
  PROVE  \A f \in Recordings \cap DOMAIN files : files'[f] = files[f]
<1>1. ASSUME NEW kind, RestCall(kind)
      PROVE  \A f \in Recordings \cap DOMAIN files : files'[f] = files[f]
  <2> DEFINE path == Path(outputDir(program), Apis(program)[at])
  <2>1. \/ files' = files
        \/ Write(path, [by |-> program, kind |-> kind])
    BY <1>1 DEF RestCall
  <2>2. path[1] \in RestDirs \cup {"output"}
    BY <1>1 DEF RestCall, outputDir, RestDirs, RestTests, RestDir, Path
  <2>3. path \notin Recordings
    BY <2>2, RecordingsApart
  <2> HIDE DEF path
  <2> QED
    BY <2>1, <2>3, WriteFile
<1>2. ASSUME ~\E kind \in Kinds : RestCall(kind)
      PROVE  files' = files
  BY <1>2 DEF Next, Step, Start, Skip, RestEnd, RecorderEnd, ParseRest, ParseRestEnd, processLine,
              ParseJsonlEnd, Exit
<1> QED
  BY <1>1, <1>2

LEMMA NextFilesInv == FilesInv /\ [Next]_vars => FilesInv'
<1> SUFFICES ASSUME FilesInv, [Next]_vars PROVE FilesInv'
  OBVIOUS
<1>1. CASE (\E p \in Programs : Start(p)) \/ Skip
  BY <1>1, StartKeeps, SkipKeeps
<1>2. CASE \E kind \in Kinds : RestCall(kind)
  BY <1>2, RestCallKeeps
<1>3. CASE RestEnd \/ RecorderEnd \/ ParseRestEnd \/ ParseJsonlEnd
  BY <1>3, ExitKeeps DEF RestEnd, RecorderEnd, ParseRestEnd, ParseJsonlEnd
<1>4. CASE Open \/ Record
  BY <1>4, RecorderKeeps
<1>5. CASE program \in RestParsers /\ \E f \in Given : ParseRest(f)
  BY <1>5, ParseRestKeeps
<1>6. CASE processLine \/ UNCHANGED vars
  BY <1>6, ParseJsonlKeeps
<1> QED
  BY <1>1, <1>2, <1>3, <1>4, <1>5, <1>6 DEF Next, Step

-----------------------------------------------------------------------------
THEOREM FilesInvariant == Spec => []FilesInv
<1>1. Init => FilesInv
  BY InitFilesInv
<1>2. FilesInv /\ [Next]_vars => FilesInv'
  BY NextFilesInv
<1> QED
  BY <1>1, <1>2, PTL DEF Spec

\* By hand, no reply is written over by another test.
THEOREM RepliesKeepApart == Spec => []NoClobber
<1>1. FilesInv => NoClobber
  <2> SUFFICES ASSUME FilesInv, byHand, NEW w \in written
               PROVE  \E f \in DOMAIN files :
                        f[2] = w.name /\ files[f] = [by |-> w.by, kind |-> w.kind]
    BY DEF NoClobber
  <2>1. FileOf(w)[2] = w.name
    BY DEF FileOf, Path
  <2> QED
    BY <2>1 DEF FilesInv, OwnFiles
<1> QED
  BY <1>1, FilesInvariant, PTL

\* By hand, the parser has been handed every reply of its test when it is done,
\* and every object has its summary.
THEOREM EverythingIsSummarised == Spec => []SummarisedByHand
<1>1. FilesInv => SummarisedByHand
  <2> SUFFICES ASSUME FilesInv, byHand, program \in RestParsers, Parsed
               PROVE  /\ \A w \in written : w.by = Parses[program] => Handed(w)
                      /\ \A h \in handed : h.kind = "object" => h.outcome = "summary"
    BY DEF SummarisedByHand
  <2>1. ASSUME NEW w \in written, w.by = Parses[program]
        PROVE  Handed(w)
    <3> DEFINE f == FileOf(w)
    <3>1. /\ f \in DOMAIN files /\ files[f] = [by |-> w.by, kind |-> w.kind]
          /\ w.by \in RestTests
      BY DEF FilesInv, OwnFiles, WrittenOK
    <3>2. f = <<RestDir[w.by], w.name>>
      BY DEF FileOf, Path
    <3>3. f \in Given
      BY <2>1, <3>1, <3>2 DEF Given
    <3> HIDE DEF f
    <3>4. PICK h \in handed : h.by = files[f].by /\ h.name = f[2]
      BY <3>3 DEF Parsed
    <3>5. PICK g \in Given : h.by = files[g].by /\ h.name = g[2] /\ h.kind = files[g].kind
      BY DEF FilesInv, HandedOK
    <3>6. g = Path(RestDir[files[g].by], g[2])
      BY GivenAreReplies DEF FilesInv, OwnFiles
    <3>7. g = f
      BY <3>1, <3>2, <3>4, <3>5, <3>6 DEF Path
    <3> QED
      BY <3>1, <3>2, <3>4, <3>5, <3>7 DEF Handed
  <2>2. \A h \in handed : h.kind = "object" => h.outcome = "summary"
    BY DEF FilesInv, HandedOK, Summary
  <2> QED
    BY <2>1, <2>2
<1> QED
  BY <1>1, FilesInvariant, PTL

\* A recording only grows.
THEOREM RecordingsGrow == Spec => RecordsKept
<1>1. FilesInv /\ [Next]_vars =>
        [\A f \in Recordings \cap DOMAIN files : IsPrefix(files[f], files'[f])]_vars
  <2> SUFFICES ASSUME FilesInv, Next
               PROVE  \A f \in Recordings \cap DOMAIN files : IsPrefix(files[f], files'[f])
    OBVIOUS
  <2>1. CASE Open \/ Record
    BY <2>1, RecorderKeeps
  <2>2. CASE ~Open /\ ~Record
    <3>1. \A f \in Recordings \cap DOMAIN files : files[f] \in Seq(Lines)
      BY DEF FilesInv, RecordingsOK
    <3> QED
      BY <2>2, <3>1, OthersKeepRecordings, OwnPrefix
  <2> QED
    BY <2>1, <2>2
<1> QED
  BY <1>1, FilesInvariant, PTL DEF Spec, RecordsKept

=============================================================================
