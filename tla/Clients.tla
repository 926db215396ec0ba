-------------------------------- MODULE Clients --------------------------------
(* A publisher and a subscriber (publisher/pub.c, subscriber/sub.c) of one box once*)
(* their sessions are open: the publisher's stdin, its buffer, the two session     *)
(* pipes and the subscriber's loop and signals.  POSIX_C_SOURCE without the        *)
(* defaults makes signal() install a handler for one signal only, and a read that  *)
(* is interrupted fails.                                                           *)
(*                                                                                 *)
(* Between them are the two workers in publisher() and subscriber() (mbroker.c),   *)
(* from where the box has been found on.  Broker shows that they never get there:  *)
(* getBox finds no box (NotServed), and a publisher's pipe is opened for writing at*)
(* both ends (PublisherServed).  What is here is what these lines do to a session  *)
(* that does get there.                                                            *)
EXTENDS Integers, Sequences, FiniteSets

CONSTANTS
    Letters,        \* ordinary bytes
    NUL, NewLine,   \* '\0' and '\n'
    OxFF,           \* the byte that is EOF when taken for a char
    EOF,            \* the end of stdin
    MESSAGE_SIZE,
    BLOCK_SIZE,     \* bytes of a box
    PipeCapacity,   \* messages a pipe has room for
    MaxTyped,       \* bound on the bytes typed
    MaxInterrupts   \* bound on the subscriber's SIGINTs

Bytes == Letters \cup {NUL, NewLine, OxFF}

ASSUME ClientsAssumption ==
    /\ EOF \notin Bytes /\ OxFF \notin Letters \cup {NUL, NewLine}
    /\ NewLine \notin Letters \cup {NUL} /\ NUL \notin Letters
    /\ MESSAGE_SIZE \in Nat /\ MESSAGE_SIZE >= 2
    /\ BLOCK_SIZE \in Nat /\ BLOCK_SIZE >= MESSAGE_SIZE
    /\ {PipeCapacity, MaxTyped} \subseteq Nat \ {0}
    /\ MaxInterrupts \in Nat

VARIABLES
    \* the publisher
    pub_at, i, buffer,
    typed,          \* what getchar has returned so far
    sent,           \* the messages written, as strings
    \* the broker's side
    broker_up,
    pub_session,    \* publisher()'s loop goes on
    sub_session,    \* where subscriber() is: "opening", "sending" or "over"
    block,          \* the bytes written to the box's block, up to the publisher's offset
    size,           \* the box's size, 0 once it is truncated
    from_pub, to_sub,
    pipes,          \* whose session pipes the file system has
    \* the subscriber
    sub_at, running,
    handler,        \* sigint_handler is installed
    interrupts,     \* SIGINTs so far
    printed,        \* the strings on its stdout
    count           \* the number it tells its user, -1 for none

publisher == <<pub_at, i, buffer, typed, sent>>
subscriber == <<sub_at, running, handler, interrupts, printed, count>>
session == <<broker_up, pub_session, sub_session, block, size, from_pub, to_sub>>
vars == <<publisher, session, pipes, subscriber>>

Positions == 0 .. MESSAGE_SIZE - 1
Zeros == [k \in Positions |-> NUL]
NoCount == -1

Init ==
    /\ pub_at = "reading" /\ i = 0 /\ buffer = Zeros /\ typed = <<>> /\ sent = <<>>
    /\ pipes = {"pub", "sub"} /\ from_pub = <<>> /\ to_sub = <<>>
    /\ broker_up = TRUE /\ pub_session = TRUE /\ sub_session = "opening"
    /\ block = <<>> /\ size = 0
    /\ sub_at = "opened" /\ running = TRUE /\ handler = FALSE /\ interrupts = 0
    /\ printed = <<>> /\ count = NoCount

--------------------------------------------------------------------------------
(* The publisher *)

(* getchar's result is narrowed to char before it is compared. *)
IsEof(c) == c \in {EOF, OxFF}

(* Mutants: one byte less, or one more, is stored. *)
HasPlaceForOneLess == i < MESSAGE_SIZE - 2
HasPlaceForOneMore == i <= MESSAGE_SIZE - 1
HasPlace == i < MESSAGE_SIZE - 1

(* Mutant: the test for a full buffer comes before the newline is seen. *)
FullAlready(c) == ~HasPlace
Full(c) == ~HasPlace \/ c = NewLine

(* A byte is read.  A newline counts as a buffer that is full, its '\0' goes to the*)
(* buffer's end; a byte that finds the buffer full is dropped and sends it.        *)
GetChar ==
    /\ pub_at = "reading" /\ Len(typed) < MaxTyped
    /\ \E c \in Bytes \cup {EOF} :
        /\ typed' = Append(typed, c)
        /\ IF IsEof(c)
           THEN pub_at' = "closing" /\ UNCHANGED <<i, buffer>>
           ELSE LET stored == IF c = NewLine THEN MESSAGE_SIZE - 1 ELSE i
                IN  /\ buffer' = IF HasPlace
                                 THEN [buffer EXCEPT ![stored] = IF c = NewLine THEN NUL ELSE c]
                                 ELSE buffer
                    /\ IF Full(c)
                       THEN i' = stored /\ pub_at' = "sending"
                       ELSE i' = i + 1 /\ UNCHANGED pub_at
    /\ UNCHANGED <<sent, session, pipes, subscriber>>

(* A string ends at its first '\0'. *)
Strlen(b) == CHOOSE n \in Positions : b[n] = NUL /\ \A k \in 0 .. n - 1 : b[k] # NUL
String(b) == [k \in 1 .. Strlen(b) |-> b[k - 1]]

(* Mutant: the position is reset after the increment. *)
FirstPositionReset == 0
FirstPosition == 1

(* Somebody reads the publisher's pipe. *)
HasReader == broker_up /\ pub_session

(* The buffer is sent and cleared; the loop's i++ follows the i = 0. *)
SendMessage ==
    /\ pub_at = "sending" /\ HasReader /\ Len(from_pub) < PipeCapacity
    /\ sent' = Append(sent, String(buffer))
    /\ from_pub' = Append(from_pub, String(buffer))
    /\ i' = FirstPosition
    /\ buffer' = Zeros
    /\ pub_at' = "reading"
    /\ UNCHANGED <<typed, broker_up, pub_session, sub_session, block, size, to_sub, pipes,
                   subscriber>>

(* SIGPIPE is caught and the write fails. *)
SendFails ==
    /\ pub_at = "sending" /\ ~HasReader
    /\ pub_at' = "closing"
    /\ UNCHANGED <<i, buffer, typed, sent, session, pipes, subscriber>>

PubDestroy ==
    /\ pub_at = "closing"
    /\ pub_at' = "ended"
    /\ pipes' = pipes \ {"pub"}
    /\ UNCHANGED <<i, buffer, typed, sent, session, subscriber>>

--------------------------------------------------------------------------------
(* The broker *)

(* publisher() reads a message and writes its string to the box, as much of it as  *)
(* there is room for.  The handle's offset stays what it is when a subscriber      *)
(* truncates the box; the block that is taken again then has its old bytes.        *)
StoreMessage ==
    /\ broker_up /\ pub_session /\ from_pub # <<>>
    /\ from_pub' = Tail(from_pub)
    /\ LET string == Append(Head(from_pub), NUL)
           room == BLOCK_SIZE - Len(block)
           written == SubSeq(string, 1, IF Len(string) > room THEN room ELSE Len(string))
       IN  /\ block' = block \o written
           /\ size' = IF written = <<>> THEN size ELSE Len(block')
    /\ UNCHANGED <<publisher, broker_up, pub_session, sub_session, to_sub, pipes, subscriber>>

(* The read fails: at once if the pipe was opened for writing, else when the       *)
(* publisher has closed its end.                                                   *)
PublisherLeft ==
    /\ broker_up /\ pub_session
    /\ pub_session' = FALSE
    /\ UNCHANGED <<publisher, broker_up, sub_session, block, size, from_pub, to_sub, pipes,
                   subscriber>>

(* subscriber() opens the box, which truncates it. *)
OpenBox ==
    /\ broker_up /\ sub_session = "opening"
    /\ sub_session' = "sending" /\ size' = 0
    /\ UNCHANGED <<publisher, broker_up, pub_session, block, from_pub, to_sub, pipes,
                   subscriber>>

SubOver == sub_at \in {"ended", "killed"}

(* The first string of the box, in a buffer that was zeroed. *)
FirstInBox == String([k \in Positions |-> IF k < size THEN block[k + 1] ELSE NUL])

(* Mutant: only -1 is taken for a failure of write. *)
WriteSucceeds == "sending"
AfterWrite == "over"

(* The box is read and its first string written, without its '\0'.  Every result of*)
(* write but 0 is taken for a failure, after which the session is closed; a write  *)
(* to a subscriber that is over kills the broker (SIGPIPE).                        *)
WriteMessage ==
    /\ broker_up /\ sub_session = "sending"
    /\ IF SubOver
       THEN broker_up' = FALSE /\ UNCHANGED <<sub_session, to_sub>>
       ELSE /\ to_sub' = Append(to_sub, FirstInBox)
            /\ sub_session' = AfterWrite
            /\ UNCHANGED broker_up
    /\ UNCHANGED <<publisher, pub_session, block, size, from_pub, pipes, subscriber>>

(* The broker is killed, or aborts: both loops move the pointer that they free, and*)
(* publisher() writes beyond its buffer from the second message on.                *)
BrokerDies ==
    /\ broker_up /\ broker_up' = FALSE
    /\ UNCHANGED <<publisher, pub_session, sub_session, block, size, from_pub, to_sub, pipes,
                   subscriber>>

(* Nobody writes to the subscriber's pipe any more. *)
HungUp == ~broker_up \/ sub_session = "over"

--------------------------------------------------------------------------------
(* The subscriber *)

SubGo(from, to) == sub_at = from /\ sub_at' = to

InstallHandler ==
    /\ SubGo("opened", "testing")
    /\ handler' = TRUE
    /\ UNCHANGED <<publisher, session, pipes, running, interrupts, printed, count>>

(* while (running), and what follows the loop: the count, and sub_destroy. *)
TestRunning ==
    /\ IF running
       THEN SubGo("testing", "calling") /\ UNCHANGED count
       ELSE SubGo("testing", "closing") /\ count' = Len(printed)
    /\ UNCHANGED <<publisher, session, pipes, running, handler, interrupts, printed>>

(* The process enters read. *)
CallRead ==
    /\ SubGo("calling", "reading")
    /\ UNCHANGED <<publisher, session, pipes, running, handler, interrupts,
                   printed, count>>

(* A message is read and printed. *)
ReadMessage ==
    /\ to_sub # <<>>
    /\ SubGo("reading", "testing")
    /\ to_sub' = Tail(to_sub)
    /\ printed' = Append(printed, Head(to_sub))
    /\ UNCHANGED <<publisher, broker_up, pub_session, sub_session, block, size, from_pub,
                   pipes, running, handler, interrupts, count>>

(* Mutant: only -1 is taken for a failure of read. *)
EndOfPipeUnseen == "testing"
EndOfPipe == "closing"

(* The end of the pipe. *)
ReadNothing ==
    /\ to_sub = <<>> /\ HungUp
    /\ SubGo("reading", EndOfPipe)
    /\ UNCHANGED <<publisher, session, pipes, running, handler, interrupts,
                   printed, count>>

(* Mutant: the pipe is removed only after the count was given. *)
RemovedIfCounted == IF count = NoCount THEN pipes ELSE pipes \ {"sub"}
Removed == pipes \ {"sub"}

SubDestroy ==
    /\ SubGo("closing", "ended")
    /\ pipes' = Removed
    /\ UNCHANGED <<publisher, session, running, handler, interrupts,
                   printed, count>>

(* SIGINT: the handler clears running and is no longer installed; a read that waits*)
(* fails.  Without the handler the process is killed.                              *)
Interrupt ==
    /\ ~SubOver /\ interrupts < MaxInterrupts
    /\ interrupts' = interrupts + 1
    /\ IF handler
       THEN /\ running' = FALSE /\ handler' = FALSE
            /\ sub_at' = IF sub_at = "reading" /\ to_sub = <<>> /\ ~HungUp
                         THEN "interrupted" ELSE sub_at
       ELSE sub_at' = "killed" /\ UNCHANGED <<running, handler>>
    /\ UNCHANGED <<publisher, session, pipes, printed, count>>

(* Mutant: an interrupted read is tried again. *)
AfterErrorAgain == "testing"
AfterError == "closing"

(* "Error reading messages from box." *)
GiveUp ==
    /\ SubGo("interrupted", AfterError)
    /\ UNCHANGED <<publisher, session, pipes, running, handler, interrupts,
                   printed, count>>

--------------------------------------------------------------------------------
PublisherStep == SendMessage \/ SendFails \/ PubDestroy

SubscriberStep ==
    InstallHandler \/ TestRunning \/ CallRead \/ ReadMessage \/ ReadNothing \/ SubDestroy \/ GiveUp

BrokerStep == StoreMessage \/ PublisherLeft \/ OpenBox \/ WriteMessage \/ BrokerDies

Next == GetChar \/ PublisherStep \/ BrokerStep \/ SubscriberStep \/ Interrupt

Spec == Init /\ [][Next]_vars

(* The subscriber goes on when it can. *)
FairSpec == Spec /\ WF_vars(SubscriberStep)

--------------------------------------------------------------------------------
(* Properties *)

PublisherTyped ==
    /\ pub_at \in {"reading", "sending", "closing", "ended"}
    /\ i \in Positions
    /\ buffer \in [Positions -> Bytes] /\ buffer[MESSAGE_SIZE - 1] = NUL
    /\ typed \in Seq(Bytes \cup {EOF}) /\ sent \in Seq(Seq(Bytes))
SessionTyped ==
    /\ broker_up \in BOOLEAN /\ pub_session \in BOOLEAN
    /\ sub_session \in {"opening", "sending", "over"}
    /\ block \in Seq(Bytes) /\ Len(block) <= BLOCK_SIZE /\ size \in {0, Len(block)}
    /\ from_pub \in Seq(Seq(Bytes)) /\ to_sub \in Seq(Seq(Bytes))
    /\ pipes \subseteq {"pub", "sub"}
SubscriberTyped ==
    /\ sub_at \in {"opened", "testing", "calling", "reading", "interrupted", "closing",
                   "ended", "killed"}
    /\ running \in BOOLEAN /\ handler \in BOOLEAN /\ interrupts \in 0 .. MaxInterrupts
    /\ printed \in Seq(Seq(Bytes)) /\ count \in Nat \cup {NoCount}

(* The buffer is never written past its last byte, which stays '\0', so that what  *)
(* strlen reads is a string, whatever is typed; nor is the box's block.            *)
TypeOK == PublisherTyped /\ SessionTyped /\ SubscriberTyped

(* The first message is the first line, cut after MESSAGE_SIZE - 1 bytes. *)
FirstMessage ==
    sent # <<>> => \E n \in 0 .. MESSAGE_SIZE - 1 :
        /\ sent[1] = SubSeq(typed, 1, n)
        /\ \A k \in 1 .. n : typed[k] \notin {NewLine, NUL}
        /\ n = MESSAGE_SIZE - 1 \/ typed[n + 1] \in {NewLine, NUL}

(* Every other message is empty: from the second on a line is stored from the      *)
(* second byte of the buffer, and the first stays '\0'.                            *)
OthersEmpty == \A k \in 2 .. Len(sent) : sent[k] = <<>>

(* When the publisher reads on, each line that was ended has been sent. *)
LinesSent ==
    pub_at = "reading" => Cardinality({k \in 1 .. Len(typed) : typed[k] = NewLine}) <= Len(sent)

(* A subscriber that ends leaves its pipe behind only if it was interrupted twice, *)
(* or before its handler was installed (and so running was never cleared).         *)
PipeLeftBehind == SubOver /\ "sub" \in pipes => interrupts > 1 \/ running

(* Whatever the order of the publisher's stores, the truncation and the read, the  *)
(* subscriber is given at most one message, the publisher's first, whole, or an    *)
(* empty one.  The count told is of what was printed, and only an interrupt leaves *)
(* the message in the pipe of a subscriber that has ended.                         *)
OneMessage ==
    /\ Len(printed \o to_sub) <= 1
    /\ \A k \in 1 .. Len(printed \o to_sub) :
           (printed \o to_sub)[k] # <<>> => sent # <<>> /\ (printed \o to_sub)[k] = sent[1]
    /\ count # NoCount => count = Len(printed) /\ interrupts > 0
    /\ SubOver /\ interrupts = 0 => to_sub = <<>> /\ HungUp

(* A subscriber that is interrupted while it waits never tells how many messages it*)
(* has received.                                                                   *)
InterruptedIsSilent == [](sub_at = "interrupted" => [](count = NoCount))

(* When nobody writes to it any more, the subscriber ends, whatever signals came   *)
(* when.                                                                           *)
SubscriberEnds == HungUp ~> SubOver
================================================================================
