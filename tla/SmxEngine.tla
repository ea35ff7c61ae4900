----------------------------- MODULE SmxEngine -----------------------------
(***************************************************************************)
(* The script runtime engine (tnm/generic/tnmSmx.c): a Tcl process that a  *)
(* Script MIB agent, its peer, drives over one connection.  A command      *)
(* line starts, aborts or asks after a run; every run is a script in an    *)
(* interpreter of its own.                                                 *)
(*                                                                         *)
(* SmxReceiveProc is called from the event loop, and a start command       *)
(* evaluates the profile and the script inside of it, so a script that     *)
(* enters the event loop makes the engine handle the next command before   *)
(* the start returned: smxFrames is the stack of such evaluations.  The    *)
(* static buffer with the command line is reused by the nested call.       *)
(*                                                                         *)
(* A run is freed while an evaluation may still hold a pointer to it.      *)
(* smxWild records the first use of such a pointer, or of an overwritten   *)
(* line; nothing is said about the process from there on.                  *)
(*                                                                         *)
(* SmxReply locks smxMutex inside of SmxReceiveProc, which holds it.  The  *)
(* model is of a Tcl whose mutexes may be entered again by their thread;   *)
(* where they may not, the first command never gets its reply.             *)
(***************************************************************************)
EXTENDS Integers, Sequences, SequencesExt, FiniteSets

CONSTANTS
    SmxRunIds,          \* identifiers the peer gives to its runs
    SmxReadable,        \* script files which access() finds readable
    SmxScripts,         \* names of script files
    SmxProfileNames,    \* profile names a command line can hold
    SmxTexts,           \* arguments and results: sequences of characters
    SmxMaxStarts,       \* bound: runs created in a behaviour
    SmxMaxDepth         \* bound: evaluations inside each other

ASSUME SmxAssumption ==
    /\ SmxReadable \subseteq SmxScripts
    /\ SmxMaxStarts \in Nat /\ SmxMaxDepth \in Nat

VARIABLES
    smxMode,            \* "initial", "plain" (no peer), "engine", "exited"
    smxOpen,            \* control->smx is a channel
    smxProfiles,        \* control->profileList
    smxRuns,            \* control->runList: a set of runs with distinct runid
    smxStarts,          \* number of runs created; the next one's key
    smxFrames,          \* evaluations in progress, innermost first
    smxWild,            \* freed memory has been used
    smxPeer,            \* what the peer learns: the state of each run
    smxGot              \* commands, replies and texts of the last step

smxVars == <<smxMode, smxOpen, smxProfiles, smxRuns, smxStarts, smxFrames,
             smxWild, smxPeer, smxGot>>

SmxNoCmd == [name |-> "none", id |-> 0]
SmxNoRun == [runid |-> 0, state |-> "none", key |-> 0]
SmxQuiet == [cmd |-> SmxNoCmd, replies |-> <<>>, texts |-> {}]

----------------------------------------------------------------------------
(* Strings on the line.  A character is "a", "n", "t", "r", "sp", "tab",   *)
(* "nl", "cr", "ff", "quote", "bslash"; the closing quote of a quoted      *)
(* string is the end of its body.                                          *)

(* SmxAppendQuotedString(): carriage return is meant, form feed is tested. *)
SmxQuotedChar(c) ==
    CASE c = "bslash" -> <<"bslash", "bslash">>
      [] c = "tab"    -> <<"bslash", "t">>
      [] c = "nl"     -> <<"bslash", "n">>
      [] c = "ff"     -> <<"bslash", "r">>
      [] c = "quote"  -> <<"bslash", "quote">>
      [] OTHER        -> <<c>>

SmxAppendQuotedString(text) ==
    FlattenSeq([i \in DOMAIN text |-> SmxQuotedChar(text[i])])

SmxAppendHexOrQuotedString(text) ==
    IF \E i \in DOMAIN text : text[i] = "ff"
      THEN [form |-> "hex", body |-> text]
      ELSE [form |-> "quoted", body |-> SmxAppendQuotedString(text)]

(* SmxParseQuotedString(): the character after a backslash stands for the  *)
(* one it names.  `last` is the character before, as it was replaced; an   *)
(* escaped backslash is therefore taken for the start of an escape.        *)
SmxUnescaped(body) ==
    LET Named(c) == CASE c = "t" -> "tab" [] c = "n" -> "nl"
                      [] c = "r" -> "cr"  [] OTHER   -> c
        last[i \in 0 .. Len(body)] ==
            IF i = 0 THEN "start"
            ELSE IF last[i - 1] = "bslash" THEN Named(body[i]) ELSE body[i]
        kept == {i \in DOMAIN body :
                    body[i] # "bslash" \/ last[i - 1] = "bslash"}
        order == SetToSortSeq(kept, <)
    IN  [ok |-> /\ last[Len(body)] # "bslash"      \* else the end is escaped
                /\ \A i \in DOMAIN body : body[i] \notin {"nl", "cr", "ff"},
         text |-> [k \in DOMAIN order |-> last[order[k]]]]

SmxParseQuotedString(arg) == SmxUnescaped(arg.body)

SmxParseHexString(arg) == [ok |-> arg.body # <<>>, text |-> arg.body]

SmxParseHexOrQuotedString(arg) ==
    IF arg.form = "quoted" THEN SmxParseQuotedString(arg)
                           ELSE SmxParseHexString(arg)

(* A peer following the table in the comment of SmxAppendQuotedString().   *)
PeerQuoted(text) ==
    LET Quoted(c) == CASE c = "bslash" -> <<"bslash", "bslash">>
                       [] c = "tab"    -> <<"bslash", "t">>
                       [] c = "nl"     -> <<"bslash", "n">>
                       [] c = "cr"     -> <<"bslash", "r">>
                       [] c = "quote"  -> <<"bslash", "quote">>
                       [] OTHER        -> <<c>>
    IN  [form |-> "quoted",
         body |-> FlattenSeq([i \in DOMAIN text |-> Quoted(text[i])])]

PeerReads(arg, text) ==
    arg = PeerQuoted(text) \/ (arg.form = "hex" /\ arg.body = text)

----------------------------------------------------------------------------
(* Lines to the peer.  SmxReply() writes nothing without a channel; a      *)
(* failing write closes it, and what was left to write is lost.            *)

SmxLine(code, id) ==
    [kind |-> "reply", code |-> code, id |-> id, runid |-> 0, state |-> "none"]
SmxStatusLine(id, run) == [SmxLine("status", id) EXCEPT !.state = run.state]
SmxNotice(code, run) ==
    [kind |-> "notify", code |-> code, id |-> 0, runid |-> run.runid,
     state |-> run.state]

(* What a peer that remembers its commands makes of one line. *)
PeerLearns(peer, cmd, line) ==
    CASE line.code = "status" -> [peer EXCEPT ![cmd.runid] = line.state]
      [] line.code = "abort" -> [peer EXCEPT ![cmd.runid] = "none"]
      [] line.code = "statusChange" ->
             [peer EXCEPT ![line.runid] = line.state]
      [] line.code = "termination" -> [peer EXCEPT ![line.runid] = "none"]
      [] OTHER -> peer

SmxReply(cmd, lines, texts) ==
    \E written \in BOOLEAN :
        LET out == IF written THEN lines ELSE <<>>
        IN  /\ written => smxOpen
            /\ smxOpen' = written
            /\ smxPeer' = FoldLeft(LAMBDA p, l : PeerLearns(p, cmd, l),
                                   smxPeer, out)
            /\ smxGot' = [cmd |-> cmd,
                          replies |-> SelectSeq(out,
                                          LAMBDA l : l.kind = "reply"),
                          texts |-> texts]

----------------------------------------------------------------------------
(* The list of runs. *)

SmxGetRunFromId(runid) ==
    IF \E r \in smxRuns : r.runid = runid
      THEN CHOOSE r \in smxRuns : r.runid = runid
      ELSE SmxNoRun

SmxGetRunFromInterp(key) ==
    IF \E r \in smxRuns : r.key = key
      THEN CHOOSE r \in smxRuns : r.key = key
      ELSE SmxNoRun

SmxNewRun(runid) ==
    [runid |-> runid, state |-> "initializing", key |-> smxStarts + 1]

SmxDeleteRun(runs, run) == runs \ {run}

SmxAlive(key) == \E r \in smxRuns : r.key = key

(* SmxAbortRun(): two notifications, then the interpreter and the run go.  *)
SmxAbortRunLines(run) ==
    LET dead == [run EXCEPT !.state = "terminated"]
    IN  <<SmxNotice("error", dead), SmxNotice("termination", dead)>>

----------------------------------------------------------------------------
(* The commands of the peer: SmxParse() takes a line apart and calls one   *)
(* handler.  A field that does not parse is "bad".                         *)

SmxCommands ==
    [name : {"hello", "foobar"}, id : {1}]
    \cup [name : {"suspend", "resume", "abort", "status"}, id : {1},
          runid : SmxRunIds \cup {-1}]
    \cup [name : {"start"}, id : {2}, runid : SmxRunIds \cup {-1},
          script : SmxScripts \cup {"bad"},
          profile : SmxProfileNames \cup {"bad"},
          argument : {[form |-> "hex", body |-> <<>>]}
                     \cup {PeerQuoted(t) : t \in SmxTexts}
                     \cup {[form |-> "hex", body |-> t] : t \in SmxTexts}]

SmxKeepRuns == UNCHANGED <<smxRuns, smxStarts, smxFrames>>

(* The buffer of every line being worked on is reused. *)
SmxReused(frames) == [i \in DOMAIN frames |-> [frames[i] EXCEPT !.line = FALSE]]

(* One reply and nothing else. *)
SmxAnswer(cmd, code) ==
    /\ SmxReply(cmd, <<SmxLine(code, cmd.id)>>, {})
    /\ UNCHANGED <<smxRuns, smxStarts>>
    /\ smxFrames' = SmxReused(smxFrames)

SmxHello(cmd) == SmxAnswer(cmd, "identity")

SmxSuspend(cmd) ==
    SmxAnswer(cmd, IF SmxGetRunFromId(cmd.runid) = SmxNoRun
                THEN "wrongRunid" ELSE "statusFailed")

SmxResume(cmd) ==
    SmxAnswer(cmd, IF SmxGetRunFromId(cmd.runid) = SmxNoRun
                THEN "wrongRunid" ELSE "statusFailed")

SmxStatus(cmd) ==
    LET run == SmxGetRunFromId(cmd.runid)
    IN  IF run = SmxNoRun THEN SmxAnswer(cmd, "wrongRunid")
        ELSE /\ SmxReply(cmd, <<SmxStatusLine(cmd.id, run)>>, {})
             /\ UNCHANGED <<smxRuns, smxStarts>>
             /\ smxFrames' = SmxReused(smxFrames)

SmxAbort(cmd) ==
    LET run == SmxGetRunFromId(cmd.runid)
    IN  IF run = SmxNoRun THEN SmxAnswer(cmd, "wrongRunid")
        ELSE /\ SmxReply(cmd, <<SmxLine("abort", cmd.id)>>, {})
             /\ smxRuns' = SmxDeleteRun(smxRuns, run)
             /\ smxFrames' = SmxReused(smxFrames)
             /\ UNCHANGED smxStarts

(* SmxStart() up to the evaluation of the profile; TnmInit() of the new    *)
(* interpreter may fail.  The text is the argument the script will see.    *)
SmxStart(cmd) ==
    LET run == SmxNewRun(cmd.runid)
        text == SmxParseHexOrQuotedString(cmd.argument).text
    IN  IF SmxGetRunFromId(cmd.runid) # SmxNoRun THEN SmxAnswer(cmd, "wrongRunid")
        ELSE IF cmd.script \notin SmxReadable THEN SmxAnswer(cmd, "wrongScript")
        ELSE IF cmd.profile \notin smxProfiles
               THEN SmxAnswer(cmd, "wrongProfile")
        ELSE \/ SmxAnswer(cmd, "wrongArgument")    \* not a Tcl list
             \/ /\ smxStarts < SmxMaxStarts
                /\ smxStarts' = smxStarts + 1
                /\ \/ /\ SmxReply(cmd, <<SmxStatusLine(cmd.id, run)>>,
                                  {<<cmd.argument, text>>})
                      /\ smxRuns' = smxRuns \cup {run}
                      /\ smxFrames' = <<[at |-> "profile", run |-> run,
                                         line |-> TRUE]>>
                                        \o SmxReused(smxFrames)
                   \/ /\ SmxReply(cmd, <<SmxStatusLine(cmd.id, run)>>
                                         \o SmxAbortRunLines(run), {})
                      /\ smxFrames' = SmxReused(smxFrames)
                      /\ UNCHANGED smxRuns

SmxParseStart(cmd) ==
    IF cmd.runid = -1 THEN SmxAnswer(cmd, "wrongRunid")
    ELSE IF cmd.script = "bad" THEN SmxAnswer(cmd, "wrongScript")
    ELSE IF cmd.profile = "bad" THEN SmxAnswer(cmd, "wrongProfile")
    ELSE IF ~SmxParseHexOrQuotedString(cmd.argument).ok
           THEN SmxAnswer(cmd, "wrongArgument")
    ELSE SmxStart(cmd)

SmxParse(cmd) ==
    IF cmd.name \in {"suspend", "resume", "abort", "status"} /\ cmd.runid = -1
      THEN SmxAnswer(cmd, "wrongRunid")
      ELSE CASE cmd.name = "hello"   -> SmxHello(cmd)
             [] cmd.name = "start"   -> SmxParseStart(cmd)
             [] cmd.name = "suspend" -> SmxSuspend(cmd)
             [] cmd.name = "resume"  -> SmxResume(cmd)
             [] cmd.name = "abort"   -> SmxAbort(cmd)
             [] cmd.name = "status"  -> SmxStatus(cmd)
             [] OTHER                -> SmxAnswer(cmd, "wrongCmd")

----------------------------------------------------------------------------
(* Events.  The event loop runs when nothing is evaluated, or when the     *)
(* innermost evaluation enters it.                                         *)

SmxRunning == smxMode \in {"plain", "engine"} /\ ~smxWild

(* TnmSmxInit(): the environment decides whether this is an engine; an     *)
(* illegal cookie or a refused connection is an error of Tnm's loading.    *)
TnmSmxInit ==
    /\ smxMode = "initial"
    /\ \E port \in BOOLEAN, cookie \in {"unset", "illegal", "hex"},
          accepted \in BOOLEAN :
          IF ~port \/ cookie = "unset"
            THEN smxMode' = "plain" /\ smxOpen' = FALSE
          ELSE IF cookie = "illegal" \/ ~accepted
            THEN smxMode' = "exited" /\ smxOpen' = FALSE
            ELSE smxMode' = "engine" /\ smxOpen' = TRUE
    /\ UNCHANGED <<smxProfiles, smxRuns, smxStarts, smxFrames, smxWild,
                   smxPeer, smxGot>>

SmxReceiveProc ==
    /\ SmxRunning /\ smxOpen /\ Len(smxFrames) < SmxMaxDepth
    /\ \E cmd \in SmxCommands : SmxParse(cmd)
    /\ UNCHANGED <<smxMode, smxProfiles, smxWild>>

(* A line without a command name or a transaction id gets a notice only. *)
SmxReceiveJunk ==
    /\ SmxRunning /\ smxOpen /\ Len(smxFrames) < SmxMaxDepth
    /\ SmxReply(SmxNoCmd, <<SmxNotice("notice", SmxNoRun)>>, {})
    /\ smxFrames' = SmxReused(smxFrames)
    /\ UNCHANGED <<smxMode, smxProfiles, smxRuns, smxStarts, smxWild>>

(* The connection is at its end: the process exits. *)
SmxReceiveEof ==
    /\ SmxRunning /\ smxOpen /\ Len(smxFrames) < SmxMaxDepth
    /\ smxMode' = "exited" /\ smxOpen' = FALSE /\ smxGot' = SmxQuiet
    /\ UNCHANGED <<smxProfiles, smxRuns, smxStarts, smxFrames, smxWild,
                   smxPeer>>

(* The profile procedure returned: the script starts, or the run is        *)
(* aborted.  Both read the run, and the first reads the command line.      *)
SmxProfileReturns ==
    /\ SmxRunning /\ smxFrames # <<>> /\ Head(smxFrames).at = "profile"
    /\ LET frame == Head(smxFrames)
           run == frame.run
           executing == [run EXCEPT !.state = "executing"]
           rest == Tail(smxFrames)
       IN  IF ~SmxAlive(run.key)
             THEN /\ smxWild' = TRUE
                  /\ smxGot' = SmxQuiet
                  /\ UNCHANGED <<smxOpen, smxPeer, smxRuns, smxFrames>>
             ELSE \/ /\ SmxReply(SmxNoCmd, SmxAbortRunLines(run), {})
                     /\ smxRuns' = SmxDeleteRun(smxRuns, run)
                     /\ smxFrames' = rest
                     /\ UNCHANGED smxWild
                  \/ /\ SmxReply(SmxNoCmd, <<SmxNotice("statusChange",
                                                  executing)>>, {})
                     /\ smxRuns' = (smxRuns \ {run}) \cup {executing}
                     /\ smxFrames' = <<[frame EXCEPT !.at = "script",
                                                     !.run = executing]>>
                                       \o rest
                     /\ smxWild' = ~frame.line
    /\ UNCHANGED <<smxMode, smxProfiles, smxStarts>>

(* Tcl_EvalFile() returned.  The run stays when the script was evaluated   *)
(* without error, its callbacks go on; an error aborts it.  The error of a *)
(* script that goes on after its interpreter was deleted uses a freed run. *)
SmxScriptReturns ==
    /\ SmxRunning /\ smxFrames # <<>> /\ Head(smxFrames).at = "script"
    /\ LET run == Head(smxFrames).run
       IN  \/ /\ smxFrames' = Tail(smxFrames)
              /\ smxGot' = SmxQuiet
              /\ UNCHANGED <<smxOpen, smxPeer, smxRuns, smxWild>>
           \/ /\ SmxAlive(run.key)
              /\ SmxReply(SmxNoCmd, SmxAbortRunLines(run), {})
              /\ smxRuns' = SmxDeleteRun(smxRuns, run)
              /\ smxFrames' = Tail(smxFrames)
              /\ UNCHANGED smxWild
           \/ /\ ~SmxAlive(run.key)
              /\ smxWild' = TRUE
              /\ smxGot' = SmxQuiet
              /\ UNCHANGED <<smxOpen, smxPeer, smxRuns, smxFrames>>
    /\ UNCHANGED <<smxMode, smxProfiles, smxStarts>>

----------------------------------------------------------------------------
(* The Tcl command smx, called by the script or a callback of a run whose  *)
(* interpreter exists, or by the master interpreter (key 0).               *)

SmxInterps == {0} \cup {r.key : r \in smxRuns}

SmxResultCmd(key) ==
    LET run == SmxGetRunFromInterp(key)
    IN  /\ IF run = SmxNoRun                       \* printed on stdout
             THEN smxGot' = SmxQuiet /\ UNCHANGED <<smxOpen, smxPeer>>
             ELSE \E code \in {"result", "resultEvent", "error",
                               "errorEvent"}, text \in SmxTexts :
                    SmxReply(SmxNoCmd, <<SmxNotice(code, run)>>,
                        {<<SmxAppendHexOrQuotedString(text), text>>})
        /\ SmxKeepRuns /\ UNCHANGED <<smxMode, smxProfiles, smxWild>>

SmxLogCmd(key) ==
    /\ IF smxMode = "plain"
         THEN smxGot' = SmxQuiet /\ UNCHANGED <<smxOpen, smxPeer>>
         ELSE SmxReply(SmxNoCmd, <<SmxNotice("notice", SmxNoRun)>>, {})
    /\ SmxKeepRuns /\ UNCHANGED <<smxMode, smxProfiles, smxWild>>

SmxProfilesCmd(key, list) ==
    /\ SmxGetRunFromInterp(key) = SmxNoRun         \* an error in a script
    /\ smxProfiles' = IF smxMode = "engine" THEN list ELSE smxProfiles
    /\ smxGot' = SmxQuiet
    /\ SmxKeepRuns /\ UNCHANGED <<smxMode, smxOpen, smxPeer, smxWild>>


SmxExitCmd(key) ==
    LET run == SmxGetRunFromInterp(key)
    IN  /\ IF run = SmxNoRun                       \* evaluates "exit"
             THEN /\ smxMode' = "exited" /\ smxGot' = SmxQuiet
                  /\ UNCHANGED <<smxOpen, smxPeer, smxRuns>>
             ELSE /\ SmxReply(SmxNoCmd, <<SmxNotice("termination",
                                [run EXCEPT !.state = "terminated"])>>, {})
                  /\ smxRuns' = SmxDeleteRun(smxRuns, run)
                  /\ UNCHANGED smxMode
        /\ UNCHANGED <<smxProfiles, smxStarts, smxFrames, smxWild>>

Tnm_SmxObjCmd ==
    /\ SmxRunning
    /\ \E key \in SmxInterps :
          \/ SmxResultCmd(key)
          \/ SmxLogCmd(key)
          \/ \E list \in SUBSET SmxProfileNames : SmxProfilesCmd(key, list)
          \/ SmxExitCmd(key)

SmxInit ==
    /\ smxMode = "initial" /\ smxOpen = FALSE /\ smxProfiles = {}
    /\ smxRuns = {} /\ smxStarts = 0 /\ smxFrames = <<>>
    /\ smxWild = FALSE /\ smxGot = SmxQuiet
    /\ smxPeer = [r \in SmxRunIds |-> "none"]

SmxNext ==
    \/ TnmSmxInit
    \/ SmxReceiveProc \/ SmxReceiveJunk \/ SmxReceiveEof
    \/ SmxProfileReturns \/ SmxScriptReturns
    \/ Tnm_SmxObjCmd

----------------------------------------------------------------------------
=============================================================================
