----------------------------- MODULE MarketTests -----------------------------
(***************************************************************************)
(* The programs that test the market data interfaces and the files they    *)
(* share: examples/test_spot_market_rest.cpp, test_futures_market_rest.cpp,*)
(* test_spot_market_ws.cpp and test_futures_market_ws.cpp write files;     *)
(* tools/parse_rest_output.cpp and parse_ws_jsonl.cpp read them again.     *)
(* They are run one at a time: by scripts/run_market_tests.sh, which       *)
(* exports MEXC_OUTPUT_DIR, or any of them by hand.  A recorder stands for *)
(* one channel of the script's loops over channels (lines 18-34), and one  *)
(* run of parse_ws_jsonl for its recording.                                *)
(*                                                                         *)
(* Of the library only the kind of a result is used here.                  *)
(***************************************************************************)
EXTENDS SequencesExt

CONSTANTS
    SpotApis,      \* names of the files of the spot REST test, in order
    FuturesApis,   \* names of the files of the futures REST test, in order
    MaxRecords,    \* bound: frames a recorder receives
    MaxRuns        \* bound: programs run by hand

VARIABLES
    byHand,     \* are programs run by hand, or by the script?
    built,      \* were the WebSocket tests built?  (CMakeLists.txt:92)
    todo,       \* what is left of the script
    program,    \* the program that runs, or "none"
    at,         \* how far it is: a REST call, a file to parse, a line
    files,      \* the files: path -> contents
    written,    \* history: path, program and kind of each reply written
    handed,     \* history: replies handed to this run of parse_rest_output
    recorded,   \* history: records of each WebSocket test
    readBack,   \* history: records this run of parse_ws_jsonl has read
    started,    \* history: programs the script has started
    runs        \* history: programs started by hand

mode == <<byHand, built>>
vars == <<mode, todo, program, at, files, written, handed, recorded, readBack, started, runs>>

RestTests == {"spotRest", "futuresRest"}
Recorders == {"spotWs", "futuresWs"}

\* parse_rest_output on the replies of a REST test, parse_ws_jsonl on a
\* recording: the test whose output it is given.
Parses == [parseSpotRest |-> "spotRest", parseFuturesRest |-> "futuresRest",
           parseSpotWs |-> "spotWs", parseFuturesWs |-> "futuresWs"]
RestParsers == {"parseSpotRest", "parseFuturesRest"}
JsonlParsers == {"parseSpotWs", "parseFuturesWs"}
Programs == RestTests \cup Recorders \cup RestParsers \cup JsonlParsers

\* The order of scripts/run_market_tests.sh.
ScriptOrder ==
    <<"spotRest", "futuresRest", "spotWs", "futuresWs",
      "parseSpotRest", "parseFuturesRest", "parseSpotWs", "parseFuturesWs">>

Apis(test) == IF test = "spotRest" THEN SpotApis ELSE FuturesApis

-----------------------------------------------------------------------------
(* Where the files are.  The script sets MEXC_OUTPUT_DIR to "output".       *)

RestDir == [spotRest |-> "output/rest_spot", futuresRest |-> "output/rest_futures"]

\* Mutant of outputDir: the directory of the program it was copied from.
oneOutputDir(test) == "output/rest_spot"
\* The variable replaces the whole directory, not only "output".
outputDir(test) == IF byHand THEN RestDir[test] ELSE "output"

WsDir == [spotWs |-> "output/ws_spot", futuresWs |-> "output/ws_futures"]

Path(dir, name) == <<dir, name>>
RecordingOf(r) == Path(WsDir[r], "channel")
Recordings == {RecordingOf(r) : r \in Recorders}
\* The files of the directory a run of parse_rest_output is given.
Given == {f \in DOMAIN files : f[1] = RestDir[Parses[program]]}

Write(path, contents) ==
    files' = [f \in DOMAIN files \cup {path} |-> IF f = path THEN contents ELSE files[f]]

-----------------------------------------------------------------------------
Init ==
    /\ byHand \in BOOLEAN /\ built \in BOOLEAN
    /\ todo = IF byHand THEN <<>> ELSE ScriptOrder
    /\ program = "none" /\ at = 0 /\ files = <<>>
    /\ written = {} /\ handed = {} /\ readBack = {}
    /\ recorded = [r \in Recorders |-> 0]
    /\ started = {} /\ runs = 0

\* A WebSocket test is there if it was built, and the script tests for it; it
\* also tests that a recording is there before it is parsed.
Runs(p) ==
    /\ p \in Recorders => built
    /\ p \in JsonlParsers /\ ~byHand => RecordingOf(Parses[p]) \in DOMAIN files

Start(p) ==
    /\ program = "none" /\ Runs(p)
    /\ IF byHand THEN runs < MaxRuns /\ runs' = runs + 1 /\ UNCHANGED <<todo, started>>
       ELSE /\ todo # <<>> /\ p = Head(todo) /\ todo' = Tail(todo)
            /\ started' = started \cup {p} /\ UNCHANGED runs
    /\ program' = p /\ at' = 1
    /\ handed' = IF p \in RestParsers THEN {} ELSE handed
    /\ readBack' = IF p \in JsonlParsers THEN {} ELSE readBack
    /\ UNCHANGED <<mode, files, written, recorded>>

\* The else of the script, or a [ -f ] that is false.
Skip ==
    /\ program = "none" /\ todo # <<>> /\ ~Runs(Head(todo))
    /\ todo' = Tail(todo)
    /\ UNCHANGED <<mode, program, at, files, written, handed, recorded, readBack, started, runs>>

\* Mutant of ScriptGoesOn: set -e without "|| true".
StopOnError(status) == status = 0
ScriptGoesOn(status) == TRUE

Exit(status) ==
    /\ program' = "none" /\ at' = 0
    /\ todo' = IF ScriptGoesOn(status) THEN todo ELSE <<>>
    /\ UNCHANGED <<mode, files, written, handed, recorded, readBack, started, runs>>

-----------------------------------------------------------------------------
(* test_spot_market_rest, test_futures_market_rest.                         *)

\* One RUN: a call that throws, and a file that cannot be opened, leave the
\* file as it was.
RestCall(kind) ==
    /\ program \in RestTests /\ at <= Len(Apis(program))
    /\ LET path == Path(outputDir(program), Apis(program)[at])
       IN  IF kind \in {"throw", "unwritable"} THEN UNCHANGED <<files, written>>
           ELSE /\ Write(path, [by |-> program, kind |-> kind])
                /\ written' = {w \in written : w.by # program \/ w.name # Apis(program)[at]}
                              \cup {[by |-> program, name |-> Apis(program)[at], kind |-> kind]}
    /\ at' = at + 1
    /\ UNCHANGED <<mode, todo, program, handed, recorded, readBack, started, runs>>

RestEnd == program \in RestTests /\ at > Len(Apis(program)) /\ Exit(0)

-----------------------------------------------------------------------------
(* test_spot_market_ws, test_futures_market_ws: main() and its callbacks.   *)

Recording == RecordingOf(program)

\* Mutant of Opened: the file is opened without std::ios::app.
OpenedEmpty(path) == <<>>
Opened(path) == IF path \in DOMAIN files THEN files[path] ELSE <<>>

Open ==
    /\ program \in Recorders /\ at = 1
    /\ Write(Recording, Opened(Recording))
    /\ at' = 2
    /\ UNCHANGED <<mode, todo, program, written, handed, recorded, readBack, started, runs>>

\* jsonToString without pretty: the default of Json::StreamWriterBuilder is to
\* indent with tabs, so that an object has its braces and members on lines of
\* their own.
jsonToString(n) ==
    <<[record |-> n, part |-> "open"], [record |-> n, part |-> "member"], [record |-> n, part |-> "close"]>>

\* onMessage or onBinary: one record, on the one thread of the loop.
Record ==
    /\ program \in Recorders /\ at = 2
    /\ recorded[program] < MaxRecords
    /\ recorded' = [recorded EXCEPT ![program] = @ + 1]
    /\ Write(Recording, files[Recording] \o jsonToString(recorded[program] + 1))
    /\ UNCHANGED <<mode, todo, program, at, written, handed, readBack, started, runs>>

\* The file cannot be opened, connect() or subscribe() fails, the connection
\* was closed, or the time is over.
RecorderEnd ==
    /\ program \in Recorders
    /\ \E status \in {0, 1} : (at = 1 => status = 1) /\ Exit(status)

-----------------------------------------------------------------------------
(* parse_rest_output: each file it is given, whatever became of the others. *)

\* isMember() throws on an array; null is reported as a parse error.
Summary(kind) == IF kind = "object" THEN "summary" ELSE "error"

ParseRest(f) ==
    /\ program \in RestParsers /\ f \in Given
    /\ LET h == [by |-> files[f].by, name |-> f[2], kind |-> files[f].kind,
                 outcome |-> Summary(files[f].kind)]
       IN  h \notin handed /\ handed' = handed \cup {h}
    /\ UNCHANGED <<mode, todo, program, at, files, written, recorded, readBack, started, runs>>

\* Mutant of Parsed: the loop ends at the first error.
ParsedUpToError ==
    \/ \E h \in handed : h.outcome = "error"
    \/ \A f \in Given : \E h \in handed : h.by = files[f].by /\ h.name = f[2]
Parsed == \A f \in Given : \E h \in handed : h.by = files[f].by /\ h.name = f[2]
ParseRestEnd == program \in RestParsers /\ Parsed /\ Exit(0)

-----------------------------------------------------------------------------
(* parse_ws_jsonl: main() takes a file line by line, processLine parses it. *)

AllLines ==
    LET f == RecordingOf(Parses[program])
    IN  IF f \in DOMAIN files THEN files[f] ELSE <<>>

\* A brace alone is not JSON: null, and skipped.  A member parses as the
\* string of its name, and isMember() throws.
ReadsAs(line) == IF line.part = "record" THEN {line.record} ELSE {}

processLine ==
    /\ program \in JsonlParsers /\ at <= Len(AllLines)
    /\ readBack' = readBack \cup ReadsAs(AllLines[at])
    /\ at' = at + 1
    /\ UNCHANGED <<mode, todo, program, files, written, handed, recorded, started, runs>>

ParseJsonlEnd == program \in JsonlParsers /\ at > Len(AllLines) /\ Exit(0)

-----------------------------------------------------------------------------
\* What a REST call may end with (see RestClients): only the unwrapping of
\* "data" throws.
Kinds == {"object", "array", "null", "unwritable"} \cup (IF program = "futuresRest" THEN {"throw"} ELSE {})

Step ==
    \/ \E kind \in Kinds : RestCall(kind)
    \/ RestEnd \/ Open \/ Record \/ RecorderEnd
    \/ program \in RestParsers /\ \E f \in Given : ParseRest(f)
    \/ ParseRestEnd \/ processLine \/ ParseJsonlEnd

Next == (\E p \in Programs : Start(p)) \/ Skip \/ Step

Spec == Init /\ [][Next]_vars

\* The shell goes on with the script, and every program goes on.  A recorder
\* ends at the latest when its time is over: this assumes that its connect()
\* and disconnect() return.
FairSpec ==
    /\ Spec
    /\ WF_vars(Step)
    /\ WF_vars(~byHand /\ (Skip \/ \E p \in Programs : Start(p)))

-----------------------------------------------------------------------------
(* Properties. *)

\* Programs run by hand, in any order and again, do not write over the replies
\* of each other.  (docs/MARKET_API_TEST.md:13 and 27)
NoClobber ==
    byHand => \A w \in written : \E f \in DOMAIN files :
        f[2] = w.name /\ files[f] = [by |-> w.by, kind |-> w.kind]

\* When parse_rest_output is done, every reply of the test whose directory it
\* was given has been handed to it.  (docs/MARKET_API_TEST.md:108,
\* scripts/run_market_tests.sh:2)
Handed(w) == \E h \in handed : h.by = w.by /\ h.name = w.name /\ h.kind = w.kind
EveryReplyParsed ==
    program \in RestParsers /\ Parsed =>
        \A w \in written : w.by = Parses[program] => Handed(w)

\* It is so when the programs are run by hand, and every object is summarised
\* even if other replies are not.  (Arrays are not: docs/MARKET_API_TEST.md:86
\* promises their length, tools/parse_rest_output.cpp:63 throws.)
SummarisedByHand ==
    byHand /\ program \in RestParsers /\ Parsed =>
        /\ \A w \in written : w.by = Parses[program] => Handed(w)
        /\ \A h \in handed : h.kind = "object" => h.outcome = "summary"

\* A recording only grows, also when its program is run again.
RecordsKept ==
    [][\A f \in Recordings \cap DOMAIN files : IsPrefix(files[f], files'[f])]_vars

\* parse_ws_jsonl reads every record the recorder wrote.
\* (tools/parse_ws_jsonl.cpp:3, docs/MARKET_API_TEST.md:37)
EveryRecordRead ==
    program \in JsonlParsers /\ at > Len(AllLines) => readBack = 1..recorded[Parses[program]]

\* The script comes to its end, whatever each program ends with.  It has then
\* started the REST tests and parse_rest_output for both, the WebSocket tests
\* if they were built, and parse_ws_jsonl on every recording there is.
ScriptEnds ==
    ~byHand ~>
        /\ todo = <<>> /\ program = "none"
        /\ RestTests \cup RestParsers \subseteq started
        /\ built => Recorders \subseteq started
        /\ \A p \in JsonlParsers : RecordingOf(Parses[p]) \in DOMAIN files => p \in started

=============================================================================
