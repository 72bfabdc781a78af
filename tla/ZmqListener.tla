---------------------------- MODULE ZmqListener ----------------------------
(***************************************************************************)
(* The request loop of the acquisition service (ZmqListener.run): receive  *)
(* a RequestDataMessage on a reply socket, decode it, call the handler of  *)
(* its type.  The socket alternates: after a request it receives the next  *)
(* one only when a reply was sent.  An exception the loop does not catch   *)
(* ends it, and the one it catches is outside the loop and ends it too.    *)
(*                                                                         *)
(* A request is what the handlers tell apart: whether it can be decoded,   *)
(* its type, and whether both bounds of a READ are there.                  *)
(***************************************************************************)
EXTENDS Naturals, Sequences

CONSTANT
    MaxRequests     \* bound: requests the server sends

Requests == [decodes : BOOLEAN, type : {"PING", "PONG", "READ", "ERROR"}, bounds : BOOLEAN]

VARIABLES
    inbox,      \* requests that wait at the socket
    sent,       \* requests the server has sent
    run,        \* where the loop is: "recv", "handle" or "ended"
    message,    \* the request being handled
    reply       \* type of the last reply: a request type or "DATA"

vars == <<inbox, sent, run, message, reply>>

handlers == {"PING", "READ"}

\* Of message RequestDataMessage in opq.proto and the class generated from it.
fields == {"type", "time", "back", "forward", "mid"}

Init ==
    /\ inbox = <<>> /\ sent = 0
    /\ run = "recv"
    /\ message = [decodes |-> FALSE, type |-> "none", bounds |-> FALSE]
    /\ reply = "none"

\* The server asks.
Request(r) ==
    /\ sent < MaxRequests
    /\ sent' = sent + 1
    /\ inbox' = Append(inbox, r)
    /\ UNCHANGED <<run, message, reply>>

Recv ==
    /\ run = "recv" /\ inbox # <<>>
    /\ message' = Head(inbox)
    /\ inbox' = Tail(inbox)
    /\ run' = "handle"
    /\ UNCHANGED <<sent, reply>>

\* client.send, and the loop turns to recv.
Send(type) ==
    /\ reply' = type
    /\ run' = "recv"
    /\ UNCHANGED <<inbox, sent, message>>

\* An exception leaves the loop.
Raise == run' = "ended" /\ UNCHANGED <<inbox, sent, message, reply>>

\* DecodeError, or KeyError of a type without a handler.
BadRequest ==
    /\ run = "handle"
    /\ ~message.decodes \/ message.type \notin handlers
    /\ Raise

Handles(type) == run = "handle" /\ message.decodes /\ message.type = type

ping == Handles("PING") /\ Send("PONG")

\* read looks at message.front and message.back first: a field that does not
\* exist is an AttributeError, which neither read nor run catches.  Beyond that,
\* the reply's id is an int32 and is given the string of the settings file, a
\* TypeError.
read ==
    /\ Handles("READ")
    /\ \/ ~({"front", "back"} \subseteq fields) /\ Raise
       \/ {"front", "back"} \subseteq fields /\ ~message.bounds /\ Send("ERROR")
       \/ {"front", "back"} \subseteq fields /\ message.bounds /\ Raise

Next == (\E r \in Requests : Request(r)) \/ Recv \/ BadRequest \/ ping \/ read

\* The service runs when it can; the server need not ask.
FairSpec == Init /\ [][Next]_vars /\ WF_vars(Recv \/ BadRequest \/ ping \/ read)

(***************************************************************************)
(* A READ is answered, with data or with ERROR: read has a reply for a     *)
(* good request and one for a bad one.                                     *)
(***************************************************************************)
ReadAnswered ==
    (run = "handle" /\ message.decodes /\ message.type = "READ")
        ~> (run = "recv" /\ reply \in {"DATA", "ERROR"})

=============================================================================
