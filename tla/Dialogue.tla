------------------------------ MODULE Dialogue ------------------------------
(***************************************************************************)
(* The steps of which both ends of a JasmineGraph socket conversation are   *)
(* made.  A worker handler and the function that talks to it are each       *)
(* written as a sequence of steps; WorkerSession gives a step its effect.   *)
(* A message is named by its constant in JasmineGraphInstanceProtocol or by *)
(* the variable that is sent; the text itself is never built.               *)
(***************************************************************************)
EXTENDS Integers, Sequences

Step(op, m, n) == <<[op |-> op, m |-> m, n |-> n]>>

\* Sending.  Send looks at what send_str_wrapper returns and takes the side's
\* error path, Check looks at what send itself returns, Try only logs.
Send(m) == Step("send", m, 0)
Check(m) == Step("check", m, 0)
Try(m) == Step("try", m, 0)

\* Reading.  read_str_wrapper returns whatever bytes have arrived, however
\* many messages they are, and "" on error or end of file.  Read goes on with
\* what it got, Expect compares it and takes the error path, Match does so
\* with as many bytes as it expects.  Parse is the stoi of a text read
\* earlier, which throws when it is no number.
Read(m) == Step("read", m, 0)
Hear == Read("any")
Expect(m) == Step("expect", m, 0)
Match(m) == Step("match", m, 0)
Parse(m) == Step("parse", m, 0)

\* A read of a known number of bytes: recv(fd, &x, length).  Exact takes the
\* error path when the connection is gone; Listen only logs; Blindly does not
\* look, and goes on with a length it never received.
Exact(m) == Step("exact", m, 0)
Listen(m) == Step("listen", m, 0)
Blindly(m) == Step("blindly", m, 0)

\* Effects: the work of a handler, loop_exit, closing the socket, giving up.
\* OnFail says what the error path does with the socket: "bye" sends CLOSE
\* and closes, "shut" closes, "leak" leaves it open, "die" throws.
\* Attempt is work whose handler does not look at how it went: it was tried, and
\* perhaps done.
Do(e) == Step("do", e, 0)
Exit == Step("exit", "", 0)
Shut == Step("shut", "", 0)
Fail == Step("fail", "", 0)
OnFail(how) == Step("onfail", how, 0)

\* The file sent over the data port beside the conversation.
SendFile == Step("sendfile", "", 0)
WaitFile == Step("waitfile", "", 0)
Unzip == Step("unzip", "", 0)

\* Control.  If looks at the last text read, "" being nothing at all; Either
\* and Repeat stand for conditions on data the model does not hold; Maybe is a
\* text that may turn out empty, so that its body sends nothing.
Goto(n) == Step("goto", "", n)
Branch(test, yes, no) == test \o yes \o Goto(Len(no) + 1) \o no
If(m, yes, no) == Branch(Step("was", m, Len(yes) + 2), yes, no)
Either(one, other) == Branch(Step("either", "", Len(one) + 2), one, other)
Maybe(body) == Step("void", "", Len(body) + 1) \o body
Attempt(try, e) == Do(try) \o Either(Do(e), <<>>)

While(test, body) == test \o body \o Goto(0 - Len(body) - 1)
Repeat(body) == While(Step("fork", "", Len(body) + 2), body)
UnlessWhole(body) == While(Step("ifwhole", "", Len(body) + 2), body)
UnlessRaw(body) == While(Step("ifraw", "", Len(body) + 2), body)
\* Read until the text is m, with a reply to anything else.
ReadUntil(m, reply) == Hear \o If(m, <<>>, reply \o Goto(0 - Len(reply) - 3))

\* Frequent phrases.
Ask(m, r) == Send(m) \o Expect(r)
Take(r, m) == Send(r) \o Read(m)
TakeNum(r, m) == Take(r, m) \o Parse(m)
Bye == Try("CLOSE") \o Shut

\* sendIntExpectResponse followed by the string, and its receiver.
SendSized(m) == Send("int") \o Match("GRAPH_STREAM_C_length_ACK") \o Send(m)
TakeSized(m) == Exact("int") \o Send("GRAPH_STREAM_C_length_ACK") \o Exact(m)

\* Asking again and again whether the other side has finished.  Nag does not
\* look at the result of its sends.
Poll(chk, ack) == Send(chk) \o Hear \o If(ack, <<>>, Goto(-4))
Nag(chk, ack) == Try(chk) \o Hear \o If(ack, <<>>, Goto(-4))
Await(chk, wait) == Expect(chk) \o Send(wait)

\* A long text in pieces of CHUNK_OFFSET, "/SEND" after all but the last.
\* The reader takes the last five characters of what it reads, which throws
\* when there is nothing.
Chunks(part, last) == Repeat(Send(part) \o Read("/SEND")) \o Send(last)
TakeChunks(more, last) == Step("piece", last, 3) \o more \o Goto(-2)
=============================================================================
