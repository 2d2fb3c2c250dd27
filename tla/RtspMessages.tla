----------------------------- MODULE RtspMessages -----------------------------
(***************************************************************************)
(* What goes back and forth on an RTSP connection: read(), interleave()    *)
(* and Response::to_bytes() of src/src/rtsp/message.rs, between a client   *)
(* and the loop of src/src/rtsp/server.rs, with as much of the Session as  *)
(* tells where a request is to go.  RtspConnection has the rest of both.   *)
(*                                                                         *)
(* The wire is a sequence of marks: a line of a head, the end of a line,   *)
(* the three parts before a frame's payload, and what bodies and payloads  *)
(* consist of, which may look like any of these.  It arrives in pieces     *)
(* that end anywhere.  The client may say several things before it hears   *)
(* an answer, and says some that cannot be read.                           *)
(***************************************************************************)
EXTENDS RtspAddressing

CONSTANTS
  Uris,        \* what a DESCRIBE may name
  Headers,     \* Transport headers
  Others,      \* what else a client may say, frames among them
  Tracks,      \* of each path that is published: what its tracks are numbered
  Sdp, Packet, \* the marks of a description and of a packet
  MAX_HEAD, MAX_BODY,
  MaxSaid,     \* bound: how much a client says
  MaxPackets   \* bound: packets it is given

VARIABLES
  \* the client
  said,   \* everything it has said
  base,   \* the last Content-Base it was told, or None
  heard,  \* everything it has read
  \* between them
  sent,   \* marks on their way to the server
  back,   \* marks that it wrote and the client has not read
  \* connection()
  pc,     \* waiting in the select!, handling what was read, leaving after
          \* a TEARDOWN, closed
  buf, out,
  path, state,  \* Session::path and Session::state
  \* history
  taken,  \* everything that read() has returned
  given   \* every answer and packet that was written

client == <<said, base, heard>>
session == <<path, state>>
vars == <<client, sent, back, pc, buf, out, session, taken, given>>

Line(text) == [is |-> "line", text |-> text]
CRLF == [is |-> "crlf"]
DOLLAR == [is |-> "$"]
Byte(n) == [is |-> "byte", value |-> n]

IsSequence(s) == s \in Seq(ToSet(s))

Init ==
  /\ said = << >> /\ base = None /\ heard = << >>
  /\ sent = << >> /\ back = << >>
  /\ pc = "waiting" /\ buf = << >> /\ out = << >>
  /\ path = None /\ state = "Init"
  /\ taken = << >> /\ given = << >>

(***************************************************************************)
(* Heads                                                                   *)
(***************************************************************************)

\* A first line, header lines, a blank line and a body.
Text(first, headers, body) ==
  <<Line(first)>>
    \o FlattenSeq([i \in DOMAIN headers |-> <<CRLF, Line(headers[i])>>])
    \o <<CRLF, CRLF>> \o body

\* Where the blank line is: find(buf, "\r\n\r\n").
Blank(b) == {i \in 1..(Len(b) - 1) : b[i] = CRLF /\ b[i + 1] = CRLF}

\* The header lines before it: in a head, a line and its end take turns.
HeaderLines(b, end) == [i \in 1..((end - 2) \div 2) |-> b[2 * i + 1].text]

\* Headers::get: the first value of a name.
Get(headers, name) ==
  LET at == {i \in DOMAIN headers : headers[i].name = name}
  IN IF at = {} THEN None ELSE headers[Min(at)].value

Length(headers) == LET n == Get(headers, "Content-Length") IN IF n = None THEN 0 ELSE n

(***************************************************************************)
(* read                                                                    *)
(***************************************************************************)

Nothing == [is |-> "nothing"]
Refused == [is |-> "refused"]

Frame(channel, payload) == [is |-> "frame", channel |-> channel, payload |-> payload]

\* Marks after the first n of b, as many as there are up to m of them.
Cut(b, n, m) == SubSeq(b, n + 1, n + m)

\* Mutant: a frame waits for what comes after it.
read_interleaved_late(b) ==
  IF Len(b) < 3 \/ Len(b) <= 3 + b[3].value THEN Nothing
  ELSE [is |-> "taken", rest |-> SubSeq(b, 4 + b[3].value, Len(b)),
        what |-> Frame(b[2].value, Cut(b, 3, b[3].value))]

\* A frame states its own length.
read_interleaved(b) ==
  IF Len(b) < 3 \/ Len(b) < 3 + b[3].value THEN Nothing
  ELSE [is |-> "taken", rest |-> SubSeq(b, 4 + b[3].value, Len(b)),
        what |-> Frame(b[2].value, Cut(b, 3, b[3].value))]

\* The head has ended, before end; length is what it states.
Unreadable(b, end) ==
  LET first == b[1].text  headers == HeaderLines(b, end)
  IN \/ first.uri = None
     \/ first.version # "RTSP/1.0"
     \/ \E i \in DOMAIN headers : headers[i].name = None
     \/ Length(headers) \notin 0..MAX_BODY

\* Mutant: a request is taken with as much of its body as has arrived.
read_request_early(b) ==
  IF Blank(b) = {} THEN IF Len(b) > MAX_HEAD THEN Refused ELSE Nothing
  ELSE LET end == Min(Blank(b))
           headers == HeaderLines(b, end)
           length == Length(headers)
       IN IF Unreadable(b, end) THEN Refused
          ELSE [is |-> "taken", rest |-> SubSeq(b, end + 2 + length, Len(b)),
                what |-> [is |-> "request", line |-> b[1].text, headers |-> headers,
                          body |-> SubSeq(b, end + 2, Min({end + 1 + length, Len(b)}))]]

\* Only a head that has not ended can be too long.
read_request(b) ==
  IF Blank(b) = {} THEN IF Len(b) > MAX_HEAD THEN Refused ELSE Nothing
  ELSE LET end == Min(Blank(b))
           headers == HeaderLines(b, end)
           length == Length(headers)
       IN IF Unreadable(b, end) THEN Refused
          ELSE IF Len(b) < end + 1 + length THEN Nothing
          ELSE [is |-> "taken", rest |-> SubSeq(b, end + 2 + length, Len(b)),
                what |-> [is |-> "request", line |-> b[1].text, headers |-> headers,
                          body |-> Cut(b, end + 1, length)]]

\* Takes the next thing out of the buffer, and nothing that is not whole.
read(b) ==
  IF b = << >> THEN Nothing
  ELSE IF b[1] = DOLLAR THEN read_interleaved(b)
  ELSE IF b[1].is = "line" THEN read_request(b)
  ELSE Refused

(***************************************************************************)
(* What is written                                                         *)
(***************************************************************************)

\* A packet in the frame that lets it share the connection.
interleave(channel, packet) == <<DOLLAR, Byte(channel), Byte(Len(packet))>> \o packet

\* Mutant: no length is stated for a body.
to_bytes_uncounted(answer) ==
  Text([status |-> answer.status], <<[name |-> "answer", value |-> answer]>>, answer.body)

\* The headers of an answer are in one mark, and its Content-Length in another.
to_bytes(answer) ==
  Text([status |-> answer.status],
       <<[name |-> "answer", value |-> answer],
         [name |-> "Content-Length", value |-> Len(answer.body)]>>,
       answer.body)

(***************************************************************************)
(* Session::handle                                                         *)
(***************************************************************************)

\* An answer repeats the CSeq of its request, or 0 if it had none.
Reply(request, status) ==
  [status |-> status, base |-> None, transport |-> None, track |-> None, body |-> << >>,
   sequence |-> IF Get(request.headers, "CSeq") = None THEN 0 ELSE Get(request.headers, "CSeq")]

\* It is built up in out, and the request has been handled.
Respond(answer) == out' = out \o to_bytes(answer) /\ given' = Append(given, answer)

Describe(request) ==
  LET named == path_of(request.line.uri)
  IN IF named \notin DOMAIN Tracks
     THEN Respond(Reply(request, 404)) /\ UNCHANGED session
     ELSE /\ path' = named /\ UNCHANGED state
          /\ Respond([Reply(request, 200) EXCEPT !.base = ContentBase(request.line.uri), !.body = Sdp])

Setup(request) ==
  LET named == split_track(path_of(request.line.uri))
      header == Get(request.headers, "Transport")
      transport == IF header = None THEN None ELSE Chosen(header)
  IN IF state = "Playing" THEN Respond(Reply(request, 455)) /\ UNCHANGED session
     ELSE IF \/ path \notin {None, named.stream} \/ named.stream \notin DOMAIN Tracks
             \/ named.track = None
     THEN Respond(Reply(request, 404)) /\ UNCHANGED session
     ELSE IF named.track \notin Tracks[named.stream]
     THEN Respond(Reply(request, 404)) /\ UNCHANGED session
     ELSE IF transport = None THEN Respond(Reply(request, 461)) /\ UNCHANGED session
     ELSE /\ path' = named.stream /\ state' = "Ready"
          /\ Respond([Reply(request, 200) EXCEPT !.transport = to_header(transport), !.track = named.track])

Play(request) ==
  IF state = "Init" THEN UNCHANGED session /\ Respond(Reply(request, 455))
  ELSE state' = "Playing" /\ UNCHANGED path /\ Respond(Reply(request, 200))

Pause(request) ==
  IF state # "Playing" THEN UNCHANGED session /\ Respond(Reply(request, 455))
  ELSE state' = "Ready" /\ UNCHANGED path /\ Respond(Reply(request, 200))

\* What is only answered, a TEARDOWN among it, and what is not served.
Other(request) ==
  LET method == request.line.method
  IN IF method = "PLAY" THEN Play(request)
     ELSE IF method = "PAUSE" THEN Pause(request)
     ELSE /\ UNCHANGED session
          /\ Respond(Reply(request, IF method \in {"OPTIONS", "GET_PARAMETER", "TEARDOWN"}
                                    THEN 200 ELSE 405))

(***************************************************************************)
(* connection                                                              *)
(***************************************************************************)

Close ==
  /\ pc' = "closed"
  /\ buf' = << >> /\ out' = << >> /\ sent' = << >>

\* A piece of what is on its way arrives.
Arrive(n) ==
  /\ pc = "waiting"
  /\ buf' = buf \o SubSeq(sent, 1, n)
  /\ sent' = SubSeq(sent, n + 1, Len(sent))
  /\ pc' = "handling"
  /\ UNCHANGED <<client, back, out, session, taken, given>>

IsTeardown(what) == what.is = "request" /\ what.line.method = "TEARDOWN"

Take ==
  /\ pc = "handling"
  /\ LET r == read(buf)
     IN /\ r.is = "taken"
        /\ buf' = r.rest
        /\ taken' = Append(taken, r.what)
        /\ IF r.what.is = "frame" THEN UNCHANGED <<out, session, given>>
           ELSE IF r.what.line.method = "DESCRIBE" THEN Describe(r.what)
           ELSE IF r.what.line.method = "SETUP" THEN Setup(r.what)
           ELSE Other(r.what)
        /\ pc' = IF IsTeardown(r.what) THEN "leaving" ELSE pc
  /\ UNCHANGED <<client, sent, back>>

\* Nothing is taken after a TEARDOWN, but what was answered is still written.
Leave ==
  /\ pc = "leaving"
  /\ back' = back \o out
  /\ Close
  /\ UNCHANGED <<client, session, taken, given>>

\* What cannot be read ends the connection, with what was not written yet.
Refuse ==
  /\ pc = "handling"
  /\ read(buf) = Refused
  /\ Close
  /\ UNCHANGED <<client, back, session, taken, given>>

\* Everything that is whole was handled.
Write ==
  /\ pc = "handling"
  /\ read(buf) = Nothing
  /\ pc' = "waiting"
  /\ back' = back \o out
  /\ out' = << >>
  /\ UNCHANGED <<client, sent, buf, session, taken, given>>

Packets == {i \in DOMAIN given : given[i] = Frame(0, Packet)}

\* A packet of the stream, if it plays, behind what the client has still to read.
Send ==
  /\ pc = "waiting" /\ state = "Playing"
  /\ Cardinality(Packets) < MaxPackets
  /\ back' = back \o interleave(0, Packet)
  /\ given' = Append(given, Frame(0, Packet))
  /\ UNCHANGED <<client, sent, pc, buf, out, session, taken>>

(***************************************************************************)
(* The client                                                              *)
(***************************************************************************)

Request(method, uri, headers) ==
  [is |-> "request", line |-> [method |-> method, uri |-> uri, version |-> "RTSP/1.0"],
   headers |-> headers, body |-> << >>]

\* A mark for each part of what is said, in order.
Marks(what) ==
  CASE what.is = "frame" -> interleave(what.channel, what.payload)
    [] what.is = "request" -> Text(what.line, what.headers, what.body)
    [] OTHER -> <<what>>

\* It states the length of a body as it is, unless no body can be so long.
Sayable(what) ==
  CASE what.is = "frame" ->
         what = Frame(what.channel, what.payload) /\ IsSequence(what.payload)
    [] what.is = "request" ->
         /\ what = [is |-> "request", line |-> what.line, headers |-> what.headers,
                    body |-> what.body]
         /\ IsSequence(what.headers) /\ IsSequence(what.body)
         /\ Length(what.headers) \in 0..MAX_BODY => Length(what.headers) = Len(what.body)
    [] OTHER -> what.is \notin {"line", "$"}

ASSUMPTION MessagesAssumption ==
  /\ MAX_HEAD \in Nat /\ MAX_BODY \in Nat /\ MaxSaid \in Nat /\ MaxPackets \in Nat
  /\ IsSequence(Sdp) /\ IsSequence(Packet)
  /\ None \notin Int /\ None \notin DOMAIN Tracks /\ << >> \notin DOMAIN Tracks
  /\ \A what \in Others : Sayable(what)

\* A request is numbered by where it stands in what is said.
Numbered(what) ==
  IF what.is = "request"
  THEN [what EXCEPT !.headers = <<[name |-> "CSeq", value |-> Len(said) + 1]>> \o @] ELSE what

Says(what) ==
  /\ Len(said) < MaxSaid
  /\ pc # "closed"
  /\ said' = Append(said, Numbered(what))
  /\ sent' = sent \o Marks(Numbered(what))
  /\ UNCHANGED <<base, heard, back, pc, buf, out, session, taken, given>>

\* It sets up a track of the description it was given.
SaysSetup(numeral, header) ==
  /\ base # None
  /\ Says(Request("SETUP", base \o Control(numeral), <<[name |-> "Transport", value |-> header]>>))

\* An answer is read as a request is, by its head and the length that states.
HearsAnswer(b) ==
  IF b[1].is # "line" \/ Blank(b) = {} THEN Refused
  ELSE LET end == Min(Blank(b))
           headers == HeaderLines(b, end)
           length == Length(headers)
       IN [is |-> "taken", rest |-> SubSeq(b, end + 2 + length, Len(b)),
           what |-> [Get(headers, "answer") EXCEPT !.body = Cut(b, end + 1, length)]]

\* What is on its way to the client is whole, or the client is astray.
Hear ==
  /\ back # << >>
  /\ LET r == IF back[1] = DOLLAR THEN read_interleaved(back) ELSE HearsAnswer(back)
     IN IF r.is = "taken"
        THEN /\ back' = r.rest
             /\ heard' = Append(heard, r.what)
             /\ base' = IF back[1] # DOLLAR /\ r.what.base # None THEN r.what.base ELSE base
        ELSE back' = << >> /\ heard' = Append(heard, Refused) /\ UNCHANGED base
  /\ UNCHANGED <<said, sent, pc, buf, out, session, taken, given>>

Next ==
  \/ Take \/ Refuse \/ Leave \/ Write \/ Send \/ Hear
  \/ \E n \in 1..Len(sent) : Arrive(n)
  \/ \E uri \in Uris : Says(Request("DESCRIBE", uri, << >>))
  \/ \E numeral \in DOMAIN Numerals, header \in Headers : SaysSetup(numeral, header)
  \/ \E what \in Others : Says(what)

Spec == Init /\ [][Next]_vars

(***************************************************************************)
(* Properties                                                              *)
(***************************************************************************)

TypeOK ==
  /\ pc \in {"waiting", "handling", "leaving", "closed"}
  /\ state \in {"Init", "Ready", "Playing"}
  /\ path \in DOMAIN Tracks \union {None}
  /\ Len(said) <= MaxSaid /\ Len(taken) <= Len(said)

Requests == {k \in DOMAIN said : said[k].is = "request"}

\* What gives the server a reason to refuse it.
Faulty(what) ==
  CASE what.is = "frame" -> FALSE
    [] what.is = "request" ->
         \/ Unreadable(Marks(what), Min(Blank(Marks(what))))
         \/ Len(Marks(what)) - Len(what.body) > MAX_HEAD + 1
    [] OTHER -> TRUE

\* The last thing taken ended the session.
Left == taken # << >> /\ IsTeardown(Last(taken))

\* However what a client says is cut into pieces, it is taken as it was said:
\* every request with its own body and every frame, in order, nothing after a
\* TEARDOWN; and the connection ends only after one or at something that cannot
\* be read (message.rs, read; rtsp/server.rs, connection).
TakesWhatWasSent ==
  /\ IsPrefix(taken, said)
  /\ \A i \in DOMAIN taken :
       IsTeardown(taken[i]) => i = Len(taken) /\ pc \in {"leaving", "closed"}
  /\ pc = "closed" => Left \/ (Len(taken) < Len(said) /\ Faulty(said[Len(taken) + 1]))

\* Nothing that is whole waits for what comes after it: with all there, all is
\* taken; and while the server waits, or after a TEARDOWN, each request taken is
\* answered once the client has read everything.
NothingIsHeldBack ==
  /\ pc = "waiting" /\ sent = << >> => taken = said
  /\ back = << >> /\ (pc = "waiting" \/ (pc = "closed" /\ Left)) =>
       \A k \in DOMAIN taken : taken[k].is = "request" =>
         \E i \in DOMAIN heard : "sequence" \in DOMAIN heard[i] /\ heard[i].sequence = k

\* The client reads the answers and the packets it was given, each whole and in
\* the order of what was asked (message.rs, Response::to_bytes, interleave).
AnswersComeBackWhole ==
  /\ IsPrefix(heard, given)
  /\ \A i, j \in DOMAIN given :
       i < j /\ "sequence" \in DOMAIN given[i] /\ "sequence" \in DOMAIN given[j]
         => given[i].sequence < given[j].sequence

\* The last answer there is, if it is to a SETUP.
LastSetup ==
  {k \in Requests : /\ given # << >> /\ "sequence" \in DOMAIN Last(given)
                    /\ Last(given).sequence = k /\ said[k].line.method = "SETUP"}

\* What a client finds a stream at is written without a query.
EveryUriIsPlain ==
  \A uri \in Uris : IsSequence(uri) /\ Places(uri, "?") = {} /\ path_of(uri) # None

\* A client that sets up a track it found in a description gets that track, or
\* the session is of another path by then (session.rs, describe and setup).
ControlComesBack ==
  \A k \in LastSetup, uri \in Uris, n \in DOMAIN Numerals :
    /\ said[k].line.uri = ContentBase(uri) \o Control(n)
    /\ path = path_of(uri)
    /\ Numerals[n] \in Tracks[path_of(uri)]
    => /\ Last(given).status # 404
       /\ Last(given).status = 200 => Last(given).track = Numerals[n]

\* A client offers forms that name a parameter once, with two numbers or without.
OffersWell(header) ==
  /\ header # None /\ IsSequence(header)
  /\ \A i \in DOMAIN header :
       LET params == header[i].params
       IN /\ IsSequence(params)
          /\ \A j \in DOMAIN params : /\ params[j] = <<params[j][1], params[j][2]>>
                                      /\ params[j][2] \in {<< >>} \union (Nat \X Nat)
          /\ \A j, k \in DOMAIN params : params[j][1] = params[k][1] => j = k

OffersOf(what) ==
  what.is = "request" /\ what.line.method = "SETUP" => OffersWell(Get(what.headers, "Transport"))

EveryOfferIsWell ==
  (\A header \in Headers : OffersWell(header)) /\ (\A what \in Others : OffersOf(what))

\* What a client asks for on this connection: two numbers that channels can be of.
Wanted(header) ==
  {pair \in {<<a, b>> : a, b \in 0..(U8 - 1)} :
     \E f \in ToSet(header) : /\ f.protocol = "RTP/AVP/TCP"
                              /\ \A p \in ToSet(f.params) : p[1] # "multicast"
                              /\ <<"interleaved", pair>> \in ToSet(f.params)}

AgreesIn(header, answer) ==
  /\ answer.status = 200 =>
       \E pair \in Wanted(header) : <<"interleaved", pair>> \in ToSet(answer.transport.params)
  /\ answer.status = 461 => Wanted(header) = {}

\* What is agreed is one of the forms the client wrote, on this connection, and
\* nothing is refused that it wrote so (message.rs, Transport).
AgreesToWhatWasOffered ==
  \A k \in LastSetup : AgreesIn(Get(said[k].headers, "Transport"), Last(given))
=============================================================================
