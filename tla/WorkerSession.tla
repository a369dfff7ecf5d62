--------------------------- MODULE WorkerSession ----------------------------
(***************************************************************************)
(* One connection to a worker: a client function of WorkerClients on one     *)
(* end, instanceservicesession with the handlers of WorkerHandlers on the    *)
(* other, two byte streams between them, a file that travels over the data   *)
(* port beside them, and the failures of a network and of processes.         *)
(***************************************************************************)
EXTENDS WorkerHandlers, WorkerClients, FiniteSets

CONSTANTS Rounds,   \* how often the loops over data may be entered
          MaxFaults \* how many failures may happen

ASSUME SessionBounds == Rounds \in Nat /\ MaxFaults \in Nat

VARIABLES
    dlg,     \* the client function
    h,       \* the worker's handler; "accept" and "dispatch" read a command
    path,    \* the script of a side: its own, or an error path
    pc, st, last, onfail,
    junk,    \* the texts a side holds that are not what they should be
    quit,    \* loop_exit
    chan,    \* the texts under way to a side
    open, rst, broken,
    file,    \* the file beside the conversation
    done,    \* what the worker has done
    left, faults,
    astray,  \* a text was read as something it is not
    empty    \* a text turned out empty and was not sent

vars == <<dlg, h, path, pc, st, last, onfail, junk, quit, chan, open, rst, broken,
          file, done, left, faults, astray, empty>>
control == <<dlg, h, path, onfail, quit>>
wire == <<chan, open, rst, broken>>
rest == <<file, done, left, faults, empty>>

Side == {"c", "w"}
Peer(s) == IF s = "c" THEN "w" ELSE "c"
Dialogues == DOMAIN Client
Commands == DOMAIN Handler

Init ==
    /\ dlg \in Dialogues
    /\ h = "accept"
    /\ path = [s \in Side |-> "main"]
    /\ pc = [s \in Side |-> 1]
    /\ st = [s \in Side |-> "run"]
    /\ last = [s \in Side |-> <<>>]
    /\ onfail = [s \in Side |-> "shut"]
    /\ junk = [s \in Side |-> {}]
    /\ quit = FALSE
    /\ chan = [s \in Side |-> <<>>]
    /\ open = [s \in Side |-> TRUE]
    /\ rst = [s \in Side |-> FALSE]
    /\ broken = FALSE
    /\ file = "none"
    /\ done = {}
    /\ left = Rounds
    /\ faults = 0
    /\ astray = FALSE
    /\ empty = FALSE

---------------------------------------------------------------------------
\* The scripts.

ErrorPath == [bye |-> Bye, shut |-> Shut, leak |-> <<>>]

Script(s) ==
    CASE path[s] # "main" -> ErrorPath[path[s]]
      [] s = "c" -> Client[dlg]
      [] h \in Commands -> Handler[h]
      [] OTHER -> <<>>

Reading == h \in {"accept", "dispatch"} /\ path["w"] = "main"
AtEnd(s) == st[s] = "run" /\ pc[s] > Len(Script(s)) /\ ~(s = "w" /\ Reading)
Now(s) == IF st[s] = "run" /\ pc[s] <= Len(Script(s)) THEN {Script(s)[pc[s]]} ELSE {}
At(s, ops) == \E i \in Now(s) : i.op \in ops
Go(s, n) == pc' = [pc EXCEPT ![s] = @ + n]

Dead == broken \/ ~open["c"] \/ ~open["w"]
socket == <<open, rst>>

\* A socket closed over unread bytes resets the connection at once.
Close(s) ==
    /\ open' = [open EXCEPT ![s] = FALSE]
    /\ rst' \in IF open[s] /\ chan[s] # <<>>
                THEN {rst, [rst EXCEPT ![Peer(s)] = TRUE]} ELSE {rst}

On(s, n) == Go(s, n) /\ UNCHANGED <<control, st, socket>>

\* An uncaught exception, or SIGPIPE, which nobody handles.
Die(s) ==
    /\ st' = [st EXCEPT ![s] = "dead"]
    /\ Close(s)
    /\ UNCHANGED <<pc, control>>

\* The error path of a side.
Err(s) ==
    \/ onfail[s] = "die" /\ Die(s)
    \/ /\ onfail[s] # "die"
       /\ path' = [path EXCEPT ![s] = onfail[s]]
       /\ pc' = [pc EXCEPT ![s] = 1]
       /\ UNCHANGED <<dlg, h, onfail, quit, st, socket>>

---------------------------------------------------------------------------
\* Sending.  send returns -1 on a connection that is gone; send_wrapper
\* compares it with a size_t, for which -1 is the largest number, and reports
\* success.  The second send to a closed peer raises SIGPIPE.

SizeMax == 2^16
send_wrapper(sz, size) == ~(sz % SizeMax < size)

Deliver(s, m) ==
    /\ ~Dead
    /\ chan' = [chan EXCEPT ![Peer(s)] = Append(@, m)]
    /\ On(s, 1)

\* Nothing is delivered: the kernel takes the bytes for a peer it does not
\* know to be gone, or send returns -1, which only some look at.
Lose(s, i) ==
    /\ Dead /\ UNCHANGED chan
    /\ \/ open[s] /\ rst[s] /\ Die(s)
       \/ /\ ~(open[s] /\ rst[s])
          /\ rst' = [rst EXCEPT ![s] = open[s]]
          /\ Go(s, 1) /\ UNCHANGED <<control, st, open>>
       \/ /\ i.op = "check" \/ (i.op = "send" /\ ~send_wrapper(-1, 1))
          /\ ~(open[s] /\ rst[s]) /\ Err(s)

Write(s, i) ==
    /\ i.op \in {"send", "try", "check"}
    /\ Deliver(s, i.m) \/ Lose(s, i)
    /\ UNCHANGED <<last, junk, broken, rest, astray>>

---------------------------------------------------------------------------
\* Reading.  A read of no particular length takes whatever has arrived, and
\* nothing at the end of the stream.

Over(s) == ~open[s] \/ (chan[s] = <<>> /\ Dead)

Greedy(s) ==
    IF Over(s) THEN {<<>>} ELSE {SubSeq(chan[s], 1, n) : n \in 1 .. Len(chan[s])}
Head1(s) == IF Over(s) THEN {<<>>} ELSE {<<chan[s][n]>> : n \in 1 .. Len(chan[s]) \intersect {1}}

Got(s, got) ==
    /\ last' = [last EXCEPT ![s] = got]
    /\ chan' = [chan EXCEPT ![s] = SubSeq(@, Len(got) + 1, Len(@))]

Right(got, m) == Len(got) = 1 /\ m \in {"any", got[1]}
\* A refusal is a wrong answer, and not a misunderstanding.
Strays(got, m) == ~Right(got, m) /\ got # <<"ERROR">>

\* Several texts read as one still begin with the first of them, and stoi
\* reads no further than its digits; another text may or may not be a number.
Junk(s, got, m) ==
    \/ got # <<>> /\ junk' = [junk EXCEPT ![s] = @ \ {m}]
    \/ (IF got = <<>> THEN TRUE ELSE got[1] # m) /\ m # "any"
       /\ junk' = [junk EXCEPT ![s] = @ \union {m}]
    \/ got = <<>> /\ m = "any" /\ UNCHANGED junk

read_str_wrapper(s, i) ==
    /\ i.op \in {"read", "expect"}
    /\ \E got \in Greedy(s) :
        LET m == i.m IN
        /\ Got(s, got) /\ Junk(s, got, m)
        /\ astray' = (astray \/ Strays(got, m))
        /\ IF Right(got, m) \/ i.op = "read" THEN On(s, 1) ELSE Err(s)
    /\ UNCHANGED <<broken, rest>>

\* A recv of a known length.  Bytes that are not that text may be taken for
\* it, or for a length no allocation satisfies.
recv(s, i) ==
    /\ i.op \in {"exact", "match", "listen", "blindly"}
    /\ \E got \in Head1(s) :
        LET m == i.m  op == i.op IN
        /\ Got(s, got)
        /\ astray' = (astray \/ Strays(got, m))
        /\ CASE Right(got, m) -> On(s, 1)
             [] op = "match" \/ (op = "exact" /\ got = <<>>) -> Err(s)
             [] op = "listen" -> On(s, 1)
             [] OTHER -> On(s, 1) \/ Die(s)
    /\ UNCHANGED <<junk, broken, rest>>

\* A piece of a long text: what follows depends on its last five characters.
Part == {"triangles/SEND", "compositeFileList/SEND"}
take_piece(s, i) ==
    /\ i.op = "piece"
    /\ \E got \in Greedy(s) :
        /\ Got(s, got)
        /\ astray' = (astray \/ \A m \in Part \union {i.m} : ~Right(got, m))
        /\ IF got = <<>> THEN Die(s)
           ELSE On(s, IF got[Len(got)] \in Part THEN 1 ELSE i.n)
    /\ UNCHANGED <<junk, broken, rest>>

Parsed(s, i) ==
    /\ i.op = "parse"
    /\ IF i.m \in junk[s] THEN Die(s) ELSE On(s, 1)
    /\ UNCHANGED <<last, junk, chan, broken, rest, astray>>

---------------------------------------------------------------------------
\* Control and effects.

Jump(s, i) ==
    /\ i.op \in {"goto", "was", "either", "fork", "void"}
    /\ LET n == i.n  m == i.m IN
       \/ i.op = "goto" /\ On(s, n) /\ UNCHANGED <<left, empty>>
       \/ /\ i.op = "was"
          /\ On(s, IF last[s] = (IF m = "" THEN <<>> ELSE <<m>>) THEN 1 ELSE n)
          /\ UNCHANGED <<left, empty>>
       \/ i.op = "either" /\ (On(s, 1) \/ On(s, n)) /\ UNCHANGED <<left, empty>>
       \/ i.op = "fork" /\ left > 0 /\ On(s, 1) /\ left' = left - 1 /\ UNCHANGED empty
       \/ i.op = "fork" /\ On(s, n) /\ UNCHANGED <<left, empty>>
       \/ i.op = "void" /\ On(s, 1) /\ UNCHANGED <<left, empty>>
       \/ i.op = "void" /\ On(s, n) /\ empty' = TRUE /\ UNCHANGED left
    /\ UNCHANGED <<last, junk, chan, broken, file, done, faults, astray>>

Work(s, i) ==
    /\ i.op = "do"
    /\ done' = done \union {i.m}
    /\ On(s, 1)
    /\ UNCHANGED <<last, junk, chan, broken, file, left, faults, empty, astray>>

Settle(s, i) ==
    /\ i.op \in {"exit", "onfail", "fail", "shut"}
    /\ \/ /\ i.op = "exit" /\ quit' = TRUE
          /\ Go(s, 1) /\ UNCHANGED <<dlg, h, path, onfail, st, socket>>
       \/ /\ i.op = "onfail" /\ onfail' = [onfail EXCEPT ![s] = i.m]
          /\ Go(s, 1) /\ UNCHANGED <<dlg, h, path, quit, st, socket>>
       \/ i.op = "fail" /\ Err(s)
       \/ i.op = "shut" /\ Close(s) /\ Go(s, 1) /\ UNCHANGED <<control, st>>
    /\ UNCHANGED <<last, junk, chan, broken, rest, astray>>

\* The file.  Its name exists once its first bytes have arrived.
Transfer(s, i) ==
    /\ i.op \in {"sendfile", "waitfile", "unzip", "ifwhole", "ifraw"}
    /\ \/ i.op = "sendfile" /\ file' = "sent" /\ On(s, 1)
       \/ /\ i.op = "waitfile" /\ file \in {"part", "whole", "cut"}
          /\ On(s, 1) /\ UNCHANGED file
       \/ i.op = "unzip" /\ file' = (IF file = "whole" THEN "raw" ELSE file) /\ On(s, 1)
       \/ /\ i.op = "ifwhole" /\ UNCHANGED file
          /\ On(s, IF file \in {"part", "cut"} THEN 1 ELSE i.n)
       \/ /\ i.op = "ifraw" /\ UNCHANGED file
          /\ On(s, IF file = "raw" THEN i.n ELSE 1)
    /\ UNCHANGED <<last, junk, chan, broken, done, left, faults, empty, astray>>

FileArrives ==
    /\ \/ file = "sent" /\ file' \in {"part", "whole"}
       \/ file = "part" /\ file' = "whole"
    /\ UNCHANGED <<control, pc, st, last, junk, wire, done, left, faults, empty, astray>>

---------------------------------------------------------------------------
\* The ends of a script, and the worker's dispatch.

Return ==
    /\ AtEnd("c")
    /\ st' = [st EXCEPT !["c"] = IF path["c"] = "main" THEN "ok" ELSE "failed"]
    /\ UNCHANGED <<control, pc, last, junk, wire, rest, astray>>

\* A handler that returns with loop_exit closes the session.
handled ==
    /\ AtEnd("w")
    /\ UNCHANGED <<dlg, path, onfail, quit, last, junk, chan, broken, rest, astray>>
    /\ LET leave == quit \/ path["w"] # "main" IN
       \/ leave /\ Close("w") /\ st' = [st EXCEPT !["w"] = "ended"] /\ UNCHANGED <<h, pc>>
       \/ /\ ~leave
          /\ h' = "dispatch" /\ pc' = [pc EXCEPT !["w"] = 1] /\ UNCHANGED <<st, socket>>

Known(got) == Len(got) = 1 /\ got[1] \in Commands

Obey(got) ==
    /\ Known(got)
    /\ h' = got[1] /\ pc' = [pc EXCEPT !["w"] = 1]
    /\ onfail' = [onfail EXCEPT !["w"] = "shut"]
    /\ junk' = [junk EXCEPT !["w"] = {}]
    /\ UNCHANGED <<st, socket>>

\* CLOSE, an unknown text, and nothing, which is such a text.
Leave(got) ==
    /\ ~Known(got)
    /\ st' = [st EXCEPT !["w"] = "ended"]
    /\ UNCHANGED <<h, pc, onfail, junk>>

Command(got) ==
    /\ Got("w", got)
    /\ astray' = (astray \/ ~(Known(got) \/ got \in {<<>>, <<"CLOSE">>}))
    /\ UNCHANGED <<dlg, path, quit, broken, rest>>

instanceservicesession ==
    /\ st["w"] = "run" /\ Reading /\ h = "dispatch"
    /\ \E got \in Greedy("w") :
        Command(got) /\ (Obey(got) \/ (Leave(got) /\ Close("w")))

\* The accept loop reads the first command before it forks or starts a
\* thread; an empty one is dropped, and its socket stays open.
run ==
    /\ st["w"] = "run" /\ Reading /\ h = "accept"
    /\ \E got \in Greedy("w") :
        /\ Command(got)
        /\ \/ Obey(got)
           \/ Leave(got) /\ (IF got = <<>> THEN UNCHANGED socket ELSE Close("w"))

---------------------------------------------------------------------------
\* Failures: the connection is reset, a process ends, the file is cut off.

Fault == faults < MaxFaults /\ faults' = faults + 1

Break ==
    /\ Fault /\ ~Dead
    /\ broken' = TRUE
    /\ chan' \in {chan, [s \in Side |-> <<>>]}
    /\ UNCHANGED <<control, pc, st, last, junk, open, rst, file, done, left, empty, astray>>

Crash(s) ==
    /\ Fault /\ st[s] = "run"
    /\ Die(s)
    /\ UNCHANGED <<last, junk, chan, broken, file, done, left, empty, astray>>

CutFile ==
    /\ Fault /\ file \in {"sent", "part"}
    /\ file' = IF file = "sent" THEN "lost" ELSE "cut"
    /\ UNCHANGED <<control, pc, st, last, junk, wire, done, left, empty, astray>>

Step_of(s) ==
    \E i \in Now(s) :
        \/ Write(s, i) \/ read_str_wrapper(s, i) \/ recv(s, i) \/ take_piece(s, i)
        \/ Parsed(s, i) \/ Jump(s, i) \/ Work(s, i) \/ Settle(s, i) \/ Transfer(s, i)

Client_step == Step_of("c") \/ Return
Worker_step == Step_of("w") \/ handled \/ run \/ instanceservicesession

Next ==
    \/ Client_step \/ Worker_step \/ FileArrives
    \/ Break \/ CutFile \/ \E s \in Side : Crash(s)

Spec ==
    Init /\ [][Next]_vars
    /\ WF_vars(Client_step) /\ WF_vars(Worker_step) /\ WF_vars(FileArrives)

---------------------------------------------------------------------------
\* Properties.

\* Functions that send again before the answer to what they sent has come, or
\* that talk to a handler which does.
Hasty ==
    {"degreeDistributionCommon", "duplicateCentralStore", "initiateCommon",
     "sendTrainCommand", "sendFileChunkToWorker", "doPageRank", "sendQueryToWorker",
     "collectTrainedModelThreadFunction", "calculateEgoNet", "agent_plan",
     "DataPublisher", "streamGraphToDesignatedWorker",
     "streamLocalGraphToDesignatedWorker", "extractTuples"}

\* Functions that leave their socket open when they return.
Keeping ==
    {"sendQueryPlanToWorker", "sendDataFromWorkerToWorker", "streaming_getTriangleCount",
     "streaming_countCentralStoreTriangles"}

\* Functions that can wait for a text their worker will never send.
Stranding == {"sendFileChunkToWorker", "extractTuples"}

\* Functions that read on for ever from a connection that is gone.
Stubborn == {"sendFileChunkToWorker", "sendDataFromWorkerToWorker"}

\* While nothing fails, the two ends of a conversation agree about it: every
\* text is read alone and as what it was sent for, and every command is known,
\* for all functions but the hasty ones.
InStep == faults = 0 /\ dlg \notin Hasty => ~astray

Waiting(s) ==
    /\ st[s] = "run" /\ chan[s] = <<>>
    /\ At(s, {"read", "expect", "exact", "match", "listen", "blindly", "piece"})
       \/ (s = "w" /\ Reading)

\* Both ends never wait for each other on a living connection, unless a text
\* was empty and therefore not sent, or the function is one of Stranding.
NoMutualWait ==
    Waiting("c") /\ Waiting("w") /\ ~Dead => empty \/ dlg \in Stranding

\* What the worker has done when a function returns success.  A push and an export
\* are answered according to how they went.  Nobody looks at that for a catalog
\* record, a deletion and a chunk: success says only that they were tried.
Promise ==
    [uploadFileToWorker |-> "cataloguing", removePartitionThroughService |-> "deleting",
     removeFragmentThroughService |-> "deleting", transferPartition |-> "pushed",
     exportPartitionShard |-> "exported", sendFileChunkToWorker |-> "storing"]

\* A function that returns success has had its worker do the work, or try it where
\* the worker does not look at the outcome, whatever was lost on the way: no
\* acknowledgement of an earlier step is ever taken for that of the work.  A
\* successful upload leaves the unzipped file there.
SuccessMeansDone ==
    st["c"] = "ok" /\ dlg \in DOMAIN Promise =>
        /\ Promise[dlg] \in done
        /\ dlg = "uploadFileToWorker" => file = "raw"

Returned == st["c"] # "run"
\* The session of a worker is over, or sits in the loop that waits for a file
\* to appear, which looks at nothing else.
Freed == st["w"] # "run" \/ (Dead /\ At("w", {"waitfile"}))

\* Every conversation ends and frees the worker's session, unless its socket
\* is kept, an empty text was not sent, or its file was lost.
SessionsEnd ==
    []<>(\/ empty \/ dlg \in Keeping \union Stranding \/ file \in {"lost", "cut"}
         \/ Returned /\ Freed)

\* Whatever it was doing, a conversation whose connection is gone for good ends: the
\* client returns, or dies of the signal of its second write, and the worker
\* is freed.
LossesEndBoth == []<>(Dead => (Returned \/ dlg \in Stubborn) /\ Freed)
=============================================================================
