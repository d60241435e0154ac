-------------------------------- MODULE Wire --------------------------------
(***************************************************************************)
(* A connection at the level of bytes: a client dumps its requests as JSON *)
(* arrays, the network delivers them in pieces of any size, an io thread   *)
(* reads them through a buffer of fixed size (ClientInfo::Read), cuts them *)
(* apart (ClientInfo::ExportMessages) and parses them.                     *)
(*                                                                         *)
(* A request is a sequence of words, a word a sequence of characters.  Of  *)
(* the characters only those are told apart that dump, parse or the        *)
(* cutting treat in their own way.  Which interest epoll has in the        *)
(* connection is Reactor's matter: here an arrival is always reported, and *)
(* a reply makes epoll look again.                                         *)
(***************************************************************************)
EXTENDS Naturals, Sequences, SequencesExt

CONSTANTS
    Streams,   \* the sequences of requests a client may send
    BufSize    \* bytes one recv takes, 65535 in the code

ASSUME WireAssumption == BufSize \in Nat \ {0}

Open == "["
Shut == "]"
Comma == ","
Space == " "
Quote == "quote"
Slash == "backslash"
Newline == "newline"
LetterN == "n"

Chars == {Open, Shut, Comma, Space, Quote, Slash, Newline, LetterN}

VARIABLES
    sent,      \* the requests of the client
    out,       \* bytes on their way
    rx,        \* bytes in the socket's receive queue
    fin,       \* the client has hung up and no byte is on its way
    event,     \* EPOLLIN of the connection is queued for an io thread
    io,        \* io thread: pc, and whether this Read has copied anything
    recvBuf,   \* recv_buffer_
    exported,  \* the requests ExportMessages has returned
    replies,   \* commands queued whose replies are still to come
    alive,     \* the connection is in client_map_
    kept       \* history: a Read has copied bytes and returned an error since
               \* ExportMessages last ran

vars == <<sent, out, rx, fin, event, io, recvBuf, exported, replies, alive, kept>>

(***************************************************************************)
(* json11: dump of an array of strings.                                    *)
(***************************************************************************)
Escape(c) ==
    CASE c \in {Slash, Quote} -> <<Slash, c>>
      [] c = Newline          -> <<Slash, LetterN>>
      [] OTHER                -> <<c>>

DumpString(word) ==
    <<Quote>> \o FlattenSeq([i \in DOMAIN word |-> Escape(word[i])]) \o <<Quote>>

DumpArray(words) ==
    <<Open>>
    \o FlattenSeq([i \in DOMAIN words |->
         (IF i = 1 THEN <<>> ELSE <<Comma, Space>>) \o DumpString(words[i])])
    \o <<Shut>>

Dump(reqs) == FlattenSeq([i \in DOMAIN reqs |-> DumpArray(reqs[i])])

(***************************************************************************)
(* json11: parse of what ExportMessages cuts out, which has one closing    *)
(* bracket, at its end; a nested array can therefore only fail.  at is     *)
(* what the parser looks for next.                                         *)
(***************************************************************************)
Parsers ==
    [at : {"array", "first", "value", "string", "escape", "comma", "end", "failed"},
     word : Seq(Chars), words : Seq(Seq(Chars))]

ParseChar[p \in Parsers, c \in Chars] ==
    LET To(at) == [p EXCEPT !.at = at]
        Add(d) == [p EXCEPT !.at = "string", !.word = Append(@, d)]
    IN CASE p.at = "string" /\ c = Quote ->
              [at |-> "comma", word |-> <<>>, words |-> Append(p.words, p.word)]
         [] p.at = "string" /\ c = Slash              -> To("escape")
         [] p.at = "string" /\ c = Newline            -> To("failed")
         [] p.at = "string" /\ c \notin {Quote, Slash, Newline} -> Add(c)
         [] p.at = "escape" /\ c \in {Quote, Slash}   -> Add(c)
         [] p.at = "escape" /\ c = LetterN            -> Add(Newline)
         [] p.at \notin {"string", "escape", "failed"} /\ c \in {Space, Newline} -> p
         [] p.at = "array" /\ c = Open                -> To("first")
         [] p.at \in {"first", "value"} /\ c = Quote  -> To("string")
         [] p.at \in {"first", "comma"} /\ c = Shut   -> To("end")
         [] p.at = "comma" /\ c = Comma               -> To("value")
         [] OTHER                                     -> To("failed")

\* Json::parse and array_items: a failed parse is null, whose array_items
\* are an empty array.
Parse(text) ==
    LET after[i \in 0..Len(text)] ==
          IF i = 0 THEN [at |-> "array", word |-> <<>>, words |-> <<>>]
          ELSE ParseChar[after[i - 1], text[i]]
        last == after[Len(text)]
    IN IF last.at = "end" THEN last.words ELSE <<>>

(***************************************************************************)
(* ClientInfo::ExportMessages.                                             *)
(***************************************************************************)
First(buf, bracket) == SelectInSeq(buf, LAMBDA c : c = bracket)

\* The first of either bracket decides; a closing bracket ahead of the
\* opening one ends the search.
Complete(buf) == First(buf, Open) # 0 /\ First(buf, Open) < First(buf, Shut)

Message(buf) == SubSeq(buf, First(buf, Open), First(buf, Shut))

\* Mutation: the closing bracket is not erased.
RemainderWithBracket(buf) == SubSeq(buf, First(buf, Shut), Len(buf))

Remainder(buf) == SubSeq(buf, First(buf, Shut) + 1, Len(buf))

\* One round of the loop: the buffer that is left, and the requests so far.
Cut[buf \in Seq(Chars), reqs \in Seq(Seq(Seq(Chars)))] ==
    IF Complete(buf) THEN Cut[Remainder(buf), Append(reqs, Parse(Message(buf)))]
    ELSE [buf |-> buf, reqs |-> reqs]

ExportMessages(buf) == Cut[buf, <<>>]

\* RequestToCommandExec gives nothing for an empty array or an unknown
\* command word; here every word but the empty one is a command.
IsCommand(req) == req # <<>> /\ Head(req) # <<>>

(***************************************************************************)
(* The connection.                                                         *)
(***************************************************************************)
IoIdle == [pc |-> "idle", copied |-> FALSE]

Init ==
    /\ sent \in Streams
    /\ out = Dump(sent)
    /\ rx = <<>>
    /\ fin = FALSE
    /\ event = FALSE
    /\ io = IoIdle
    /\ recvBuf = <<>>
    /\ exported = <<>>
    /\ replies = 0
    /\ alive = TRUE
    /\ kept = FALSE

Arrive(n) ==
    /\ n \in 1..Len(out)
    /\ rx' = rx \o SubSeq(out, 1, n)
    /\ out' = SubSeq(out, n + 1, Len(out))
    /\ event' = TRUE
    /\ UNCHANGED <<sent, fin, io, recvBuf, exported, replies, alive, kept>>

HangUp ==
    /\ out = <<>> /\ ~fin
    /\ fin' = TRUE
    /\ event' = TRUE
    /\ UNCHANGED <<sent, out, rx, io, recvBuf, exported, replies, alive, kept>>

\* An io thread takes the event and calls ClientInfo::Read.
TakeEvent ==
    /\ io.pc = "idle" /\ event
    /\ event' = FALSE
    /\ io' = IF alive THEN [pc |-> "recv", copied |-> FALSE] ELSE IoIdle
    /\ UNCHANGED <<sent, out, rx, fin, recvBuf, exported, replies, alive, kept>>

\* Mutation: Read does not call recv again after a full buffer.
RecvOnce ==
    /\ io.pc = "recv" /\ rx # <<>>
    /\ LET n == IF Len(rx) < BufSize THEN Len(rx) ELSE BufSize
       IN /\ recvBuf' = recvBuf \o SubSeq(rx, 1, n)
          /\ rx' = SubSeq(rx, n + 1, Len(rx))
          /\ io' = [pc |-> "export", copied |-> TRUE]
    /\ UNCHANGED <<sent, out, fin, event, exported, replies, alive, kept>>

\* recv: a full buffer makes Read call it again.
Recv ==
    /\ io.pc = "recv" /\ rx # <<>>
    /\ LET n == IF Len(rx) < BufSize THEN Len(rx) ELSE BufSize
       IN /\ recvBuf' = recvBuf \o SubSeq(rx, 1, n)
          /\ rx' = SubSeq(rx, n + 1, Len(rx))
          /\ io' = [pc |-> IF n = BufSize THEN "recv" ELSE "export", copied |-> TRUE]
    /\ UNCHANGED <<sent, out, fin, event, exported, replies, alive, kept>>

\* recv fails with EAGAIN: Read returns -1 whatever it has copied, and the
\* io thread goes on to the next event.
RecvNothing ==
    /\ io.pc = "recv" /\ rx = <<>> /\ ~fin
    /\ kept' = (kept \/ io.copied)
    /\ io' = IoIdle
    /\ UNCHANGED <<sent, out, rx, fin, event, recvBuf, exported, replies, alive>>

\* recv sees the end of the stream: Read returns 0 and the io thread logs
\* the client out.
RecvEnd ==
    /\ io.pc = "recv" /\ rx = <<>> /\ fin
    /\ kept' = (kept \/ io.copied)
    /\ alive' = FALSE
    /\ io' = IoIdle
    /\ UNCHANGED <<sent, out, rx, fin, event, recvBuf, exported, replies>>

Export ==
    /\ io.pc = "export"
    /\ LET result == ExportMessages(recvBuf)
       IN /\ recvBuf' = result.buf
          /\ exported' = exported \o result.reqs
          /\ replies' = replies + Len(SelectSeq(result.reqs, IsCommand))
    /\ kept' = FALSE
    /\ io' = IoIdle
    /\ UNCHANGED <<sent, out, rx, fin, event, alive>>

\* Mutation: the switch back to reading reports nothing that is there already.
ReplyUnreported ==
    /\ replies > 0 /\ alive
    /\ replies' = replies - 1
    /\ UNCHANGED <<sent, out, rx, fin, event, io, recvBuf, exported, alive, kept>>

\* A reply has been sent and the io thread calls EnableRead: epoll reports
\* the connection again if there is anything to read.
Reply ==
    /\ replies > 0 /\ alive
    /\ replies' = replies - 1
    /\ event' = (event \/ rx # <<>> \/ fin)
    /\ UNCHANGED <<sent, out, rx, fin, io, recvBuf, exported, alive, kept>>

Network == (\E n \in 1..Len(out) : Arrive(n)) \/ HangUp
IoThread == TakeEvent \/ Recv \/ RecvNothing \/ RecvEnd \/ Export

Next == Network \/ IoThread \/ Reply

Spec == Init /\ [][Next]_vars

\* The threads run whenever they can; the client need not hang up.
FairSpec == Spec /\ WF_vars(IoThread) /\ WF_vars(Reply)

(***************************************************************************)
(* Properties.                                                             *)
(***************************************************************************)
\* No word of the request holds a bracket.
Plain(req) ==
    \A i \in DOMAIN req : ~Contains(req[i], Open) /\ ~Contains(req[i], Shut)

\* However the bytes are cut up on the way, requests without brackets come
\* out of ExportMessages as the client put them in, in order and each once,
\* up to the first request that has one; and as long as there is none, no
\* byte is lost: what has not come out yet is in recv_buffer_, in the socket
\* or on its way.
Framed ==
    LET plain == SelectInSeq(sent, LAMBDA r : ~Plain(r))
        upTo == IF plain = 0 THEN Len(sent) ELSE plain - 1
    IN /\ \A i \in DOMAIN exported : i <= upTo => exported[i] = sent[i]
       /\ plain = 0 => /\ Len(exported) <= Len(sent)
                       /\ recvBuf \o rx \o out =
                            Dump(SubSeq(sent, Len(exported) + 1, Len(sent)))

\* When the io thread is done with a connection nothing is left that no
\* event will report: the socket has been emptied, and recv_buffer_ holds no
\* complete request unless the bytes that arrived were a multiple of the
\* buffer, whose last recv fails and makes Read return an error.
Drained ==
    alive /\ io.pc = "idle" /\ ~event => rx = <<>> /\ (Complete(recvBuf) => kept)

\* A client that hangs up is logged out, if all its requests were commands,
\* whether the end of the stream arrives on its own or behind data that one
\* Read takes along without seeing it.
EndNoticed ==
    fin /\ (\A i \in DOMAIN sent : Plain(sent[i]) /\ IsCommand(sent[i])) ~> ~alive
=============================================================================
