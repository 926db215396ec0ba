----------------------------- MODULE ClientsProofs -----------------------------
(* Theorems about Clients, for every MESSAGE_SIZE, every bound and every set of    *)
(* letters.                                                                        *)
EXTENDS Clients, WellFoundedInduction, FiniteSetTheorems, SequenceTheorems, TLAPS

--------------------------------------------------------------------------------
(* Strings *)

(* A nonempty set of naturals has a least member. *)
LEMMA LeastNat ==
  ASSUME NEW S \in SUBSET Nat, S # {}
  PROVE  \E n \in S : \A k \in S : n <= k
<1> DEFINE R == OpToRel(<, Nat)
<1>1. \E n \in S : \A k \in S : ~(<<k, n>> \in R)
  <2> HIDE DEF R
  <2>1. IsWellFoundedOn(R, Nat)
    BY NatLessThanWellFounded DEF R
  <2> QED
    BY <2>1, WFMin
<1>2. PICK n \in S : \A k \in S : ~(<<k, n>> \in R)
  BY <1>1
<1>3. ASSUME NEW k \in S PROVE n <= k
  <2>1. ~(<<k, n>> \in R)
    BY <1>2
  <2>2. k \in Nat /\ n \in Nat
    OBVIOUS
  <2>3. ~(k < n)
    BY <2>1, <2>2 DEF OpToRel
  <2> QED
    BY <2>2, <2>3
<1> QED
  BY <1>3

(* A buffer that has a '\0' is a string up to the first. *)
LEMMA StrlenFinds ==
  ASSUME NEW b \in [Positions -> Bytes], \E n \in Positions : b[n] = NUL
  PROVE  /\ Strlen(b) \in Positions
         /\ b[Strlen(b)] = NUL
         /\ \A k \in 0 .. Strlen(b) - 1 : b[k] # NUL
<1> USE ClientsAssumption DEF Positions
<1> DEFINE S == {n \in Positions : b[n] = NUL}
<1>1. PICK n \in S : \A k \in S : n <= k
  <2>1. S \in SUBSET Nat /\ S # {}
    OBVIOUS
  <2> QED
    BY <2>1, LeastNat
<1>2. \A k \in 0 .. n - 1 : b[k] # NUL
  BY <1>1
<1>3. \E m \in Positions : b[m] = NUL /\ \A k \in 0 .. m - 1 : b[k] # NUL
  BY <1>1, <1>2
<1> QED
  BY <1>3 DEF Strlen

(* What is sent is a sequence of bytes without '\0', shorter than a message. *)
LEMMA StringType ==
  ASSUME TypeOK
  PROVE  /\ String(buffer) \in Seq(Bytes) /\ Len(String(buffer)) < MESSAGE_SIZE
         /\ \A k \in 1 .. Len(String(buffer)) : String(buffer)[k] # NUL
<1> USE ClientsAssumption DEF Positions
<1>1. buffer \in [Positions -> Bytes] /\ \E n \in Positions : buffer[n] = NUL
  BY SMTT(30) DEF TypeOK, PublisherTyped, SessionTyped, SubscriberTyped
<1>2. Strlen(buffer) \in Positions
  BY <1>1, StrlenFinds
<1>3. \A k \in 1 .. Strlen(buffer) : buffer[k - 1] \in Bytes /\ buffer[k - 1] # NUL
  <2> SUFFICES ASSUME NEW k \in 1 .. Strlen(buffer)
               PROVE  buffer[k - 1] \in Bytes /\ buffer[k - 1] # NUL
    OBVIOUS
  <2>1. k - 1 \in Positions /\ k - 1 \in 0 .. Strlen(buffer) - 1
    BY <1>2
  <2> QED
    BY <1>1, <2>1, StrlenFinds
<1> HIDE DEF Positions
<1>4. Strlen(buffer) \in Nat /\ Strlen(buffer) < MESSAGE_SIZE
  BY <1>2 DEF Positions
<1>5. Len(String(buffer)) = Strlen(buffer)
  BY <1>4 DEF String
<1> QED
  BY <1>3, <1>4, <1>5 DEF String

--------------------------------------------------------------------------------
(* The messages on their way *)

(* The publisher's pipe holds what is not stored yet of what it sent, and the      *)
(* block, once written to, begins with the first message: a truncation does not    *)
(* change that, because the offset stays.  That is what makes OneMessage inductive,*)
(* and what lets subscriber() find a '\0' in its buffer.                           *)
Unstored ==
    /\ Len(from_pub) <= Len(sent)
    /\ \A k \in 1 .. Len(from_pub) : from_pub[k] = sent[Len(sent) - Len(from_pub) + k]
    /\ block = <<>> => from_pub = sent
FirstStored ==
    block # <<>> =>
        /\ sent # <<>> /\ Len(sent[1]) < Len(block) /\ block[Len(sent[1]) + 1] = NUL
        /\ \A k \in 1 .. Len(sent[1]) : block[k] = sent[1][k]
Strings ==
    \A m \in 1 .. Len(sent) :
        Len(sent[m]) < MESSAGE_SIZE /\ \A k \in 1 .. Len(sent[m]) : sent[m][k] # NUL
MessagesHeld == Unstored /\ FirstStored /\ Strings

(* What subscriber() sends is the publisher's first message or nothing. *)
LEMMA FirstInBoxIs ==
  ASSUME TypeOK, MessagesHeld
  PROVE  /\ FirstInBox \in Seq(Bytes)
         /\ FirstInBox # <<>> => sent # <<>> /\ FirstInBox = sent[1]
<1> USE ClientsAssumption
<1> DEFINE b == [k \in Positions |-> IF k < size THEN block[k + 1] ELSE NUL]
<1>1. /\ block \in Seq(Bytes) /\ size \in {0, Len(block)} /\ sent \in Seq(Seq(Bytes))
      /\ NUL \in Bytes
  BY DEF TypeOK, PublisherTyped, SessionTyped, SubscriberTyped, Bytes
<1>2. b \in [Positions -> Bytes]
  <2> SUFFICES ASSUME NEW k \in Positions, k < size PROVE block[k + 1] \in Bytes
    BY <1>1
  <2>1. k \in Nat
    BY DEF Positions
  <2>2. k + 1 \in 1 .. Len(block)
    BY <1>1, <2>1
  <2> QED
    BY <1>1, <2>2
<1>3. FirstInBox = String(b)
  BY DEF FirstInBox
<1>4. CASE size = 0
  <2>1. b[0] = NUL /\ 0 \in Positions
    BY <1>4 DEF Positions
  <2> HIDE DEF b
  <2>2. /\ Strlen(b) \in Positions
        /\ \A k \in 0 .. Strlen(b) - 1 : b[k] # NUL
    BY <1>2, <2>1, StrlenFinds
  <2>3. Strlen(b) = 0
    BY <2>1, <2>2 DEF Positions
  <2> QED
    BY <1>3, <2>3 DEF String
<1>5. CASE size # 0
  <2> DEFINE L == Len(sent[1])
  <2>1. size = Len(block) /\ block # <<>>
    BY <1>1, <1>5
  <2>2. /\ sent # <<>> /\ L < Len(block) /\ block[L + 1] = NUL
        /\ \A k \in 1 .. L : block[k] = sent[1][k]
    BY <2>1 DEF MessagesHeld, FirstStored
  <2>3. 1 \in 1 .. Len(sent) /\ sent[1] \in Seq(Bytes)
    BY <1>1, <2>2
  <2>4. L \in Nat /\ L < MESSAGE_SIZE /\ \A k \in 1 .. L : sent[1][k] # NUL
    BY <2>3 DEF MessagesHeld, Strings
  <2>5. L \in Positions /\ b[L] = NUL
    BY <2>1, <2>2, <2>4 DEF Positions
  <2>6. \A k \in 0 .. L - 1 : b[k] = sent[1][k + 1] /\ b[k] # NUL
    <3> SUFFICES ASSUME NEW k \in 0 .. L - 1 PROVE b[k] = sent[1][k + 1] /\ b[k] # NUL
      OBVIOUS
    <3>1. k \in Positions /\ k < size /\ k + 1 \in 1 .. L
      BY <1>1, <2>1, <2>2, <2>4 DEF Positions
    <3>2. b[k] = block[k + 1]
      BY <3>1
    <3> QED
      BY <2>2, <2>4, <3>1, <3>2
  <2> HIDE DEF b
  <2>7. /\ Strlen(b) \in Positions /\ b[Strlen(b)] = NUL
        /\ \A k \in 0 .. Strlen(b) - 1 : b[k] # NUL
    BY <1>2, <2>5, StrlenFinds
  <2>8. Strlen(b) = L
    BY <2>4, <2>5, <2>6, <2>7 DEF Positions
  <2>9. String(b) = [k \in 1 .. L |-> sent[1][k]]
    <3>1. \A k \in 1 .. L : k - 1 \in 0 .. L - 1 /\ (k - 1) + 1 = k
      BY <2>4
    <3>2. \A k \in 1 .. L : b[k - 1] = sent[1][k]
      BY <2>6, <3>1
    <3> QED
      BY <2>8, <3>2 DEF String
  <2>10. String(b) = sent[1]
    BY <2>3, <2>9
  <2> QED
    BY <1>3, <2>2, <2>3, <2>10
<1> QED
  BY <1>1, <1>4, <1>5

(* What publisher() writes to the block. *)
LEMMA BytesStored ==
  ASSUME TypeOK, StoreMessage
  PROVE  \E n \in Nat :
           /\ n = IF Len(from_pub[1]) + 1 > BLOCK_SIZE - Len(block)
                  THEN BLOCK_SIZE - Len(block) ELSE Len(from_pub[1]) + 1
           /\ SubSeq(Append(from_pub[1], NUL), 1, n) \in Seq(Bytes)
           /\ Len(SubSeq(Append(from_pub[1], NUL), 1, n)) = n
           /\ block' = block \o SubSeq(Append(from_pub[1], NUL), 1, n)
           /\ size' = IF n = 0 THEN size ELSE Len(block')
<1> USE ClientsAssumption
<1> DEFINE string == Append(from_pub[1], NUL)
           room == BLOCK_SIZE - Len(block)
           n == IF Len(string) > room THEN room ELSE Len(string)
<1>1. /\ block \in Seq(Bytes) /\ Len(block) <= BLOCK_SIZE /\ from_pub[1] \in Seq(Bytes)
      /\ Head(from_pub) = from_pub[1] /\ NUL \in Bytes
  BY DEF TypeOK, PublisherTyped, SessionTyped, SubscriberTyped, StoreMessage, Bytes
<1>2. string \in Seq(Bytes) /\ Len(string) = Len(from_pub[1]) + 1
  BY <1>1
<1>3. n \in Nat /\ n <= Len(string)
  BY <1>1, <1>2
<1>4. SubSeq(string, 1, n) \in Seq(Bytes) /\ Len(SubSeq(string, 1, n)) = n
  BY <1>2, <1>3
<1>5. /\ block' = block \o SubSeq(string, 1, n)
      /\ size' = IF SubSeq(string, 1, n) = <<>> THEN size ELSE Len(block')
  BY <1>1 DEF StoreMessage
<1>6. SubSeq(string, 1, n) = <<>> <=> n = 0
  <2> DEFINE w == SubSeq(string, 1, n)
  <2>1. w \in Seq(Bytes) /\ Len(w) = n
    BY <1>4
  <2> HIDE DEF w, n
  <2>2. w = <<>> <=> n = 0
    BY <2>1, EmptySeq
  <2> QED
    BY <2>2 DEF w
<1> QED
  BY <1>2, <1>3, <1>4, <1>5, <1>6

--------------------------------------------------------------------------------
(* Type correctness *)

(* Both programs start well typed. *)
LEMMA InitTypeOK == Init => TypeOK
<1> SUFFICES ASSUME Init PROVE TypeOK
  OBVIOUS
<1> USE ClientsAssumption DEF Init
<1>1. PublisherTyped
  BY DEF PublisherTyped, Positions, Zeros, Bytes
<1>2. SessionTyped
  BY DEF SessionTyped
<1>3. SubscriberTyped
  <2>1. interrupts \in 0 .. MaxInterrupts /\ count \in Nat \cup {NoCount}
    BY DEF NoCount
  <2>2. printed \in Seq(Seq(Bytes))
    BY EmptySeq
  <2> QED
    BY <2>1, <2>2, Zenon DEF SubscriberTyped
<1> QED
  BY <1>1, <1>2, <1>3 DEF TypeOK, PublisherTyped

(* Only the publisher's own steps change what is its own. *)
LEMMA PublisherAlone ==
  [Next]_vars => GetChar \/ SendMessage \/ SendFails \/ PubDestroy \/ UNCHANGED publisher
<1> SUFFICES ASSUME [Next]_vars
             PROVE  GetChar \/ SendMessage \/ SendFails \/ PubDestroy \/ UNCHANGED publisher
  OBVIOUS
<1>1. CASE BrokerStep \/ Interrupt
  BY <1>1 DEF BrokerStep, StoreMessage, PublisherLeft, OpenBox, WriteMessage, BrokerDies, Interrupt
<1>2. CASE SubscriberStep
  BY <1>2 DEF SubscriberStep, InstallHandler, TestRunning, CallRead, ReadMessage,
              ReadNothing, SubDestroy, GiveUp
<1>3. CASE UNCHANGED vars
  BY <1>3 DEF vars
<1> QED
  BY <1>1, <1>2, <1>3 DEF Next, PublisherStep

(* The publisher's steps keep its types. *)
LEMMA PublisherTypes ==
  ASSUME TypeOK, [Next]_vars
  PROVE  PublisherTyped'
<1> USE ClientsAssumption
<1>0. PublisherTyped
  BY DEF TypeOK, PublisherTyped
<1>1. CASE GetChar
  <2>1. PICK c \in Bytes \cup {EOF} :
          /\ typed' = Append(typed, c)
          /\ IF IsEof(c)
             THEN pub_at' = "closing" /\ UNCHANGED <<i, buffer>>
             ELSE LET stored == IF c = NewLine THEN MESSAGE_SIZE - 1 ELSE i
                  IN  /\ buffer' = IF HasPlace
                                   THEN [buffer EXCEPT ![stored] = IF c = NewLine THEN NUL ELSE c]
                                   ELSE buffer
                      /\ IF Full(c)
                         THEN i' = stored /\ pub_at' = "sending"
                         ELSE i' = i + 1 /\ UNCHANGED pub_at
    BY <1>1 DEF GetChar
  <2>2. typed' \in Seq(Bytes \cup {EOF})
    BY <1>0, <2>1 DEF PublisherTyped
  <2>3. pub_at' \in {"reading", "sending", "closing", "ended"} /\ i' \in Positions
    BY <1>0, <2>1 DEF PublisherTyped, Positions, Full, HasPlace
  <2>4. buffer' \in [Positions -> Bytes] /\ buffer'[MESSAGE_SIZE - 1] = NUL
    <3>1. c \notin {EOF, OxFF} \/ buffer' = buffer
      BY <2>1 DEF IsEof
    <3>2. c \in Bytes \/ buffer' = buffer
      BY <3>1
    <3>3. NUL \in Bytes
      BY DEF Bytes
    <3>4. HasPlace => i # MESSAGE_SIZE - 1
      BY <1>0 DEF HasPlace, PublisherTyped, Positions
    <3> QED
      BY SMTT(30), <1>0, <2>1, <3>2, <3>3, <3>4 DEF PublisherTyped, Positions
  <2> QED
    BY <1>0, <1>1, <2>2, <2>3, <2>4 DEF GetChar, PublisherTyped
<1>2. CASE SendMessage
  <2>1. String(buffer) \in Seq(Bytes)
    BY StringType
  <2>2. i' \in Positions /\ buffer' \in [Positions -> Bytes] /\ buffer'[MESSAGE_SIZE - 1] = NUL
    BY <1>2 DEF SendMessage, Positions, Zeros, Bytes, FirstPosition
  <2>3. sent' \in Seq(Seq(Bytes))
    BY <1>0, <1>2, <2>1 DEF SendMessage, PublisherTyped
  <2> QED
    BY <1>0, <1>2, <2>2, <2>3 DEF SendMessage, PublisherTyped
<1>3. CASE SendFails \/ PubDestroy
  BY <1>0, <1>3 DEF SendFails, PubDestroy, PublisherTyped
<1>4. CASE UNCHANGED publisher
  BY <1>0, <1>4 DEF publisher, PublisherTyped
<1> QED
  BY <1>1, <1>2, <1>3, <1>4, PublisherAlone

(* Every step keeps those of the pipes and of the box. *)
LEMMA SessionTypes ==
  ASSUME TypeOK, MessagesHeld, [Next]_vars
  PROVE  SessionTyped'
<1> USE ClientsAssumption
<1>0. SessionTyped
  BY DEF TypeOK, PublisherTyped
<1>1. CASE SendMessage
  <2>1. from_pub' = Append(from_pub, String(buffer)) /\ String(buffer) \in Seq(Bytes)
    BY <1>1, StringType DEF SendMessage
  <2>2. from_pub' \in Seq(Seq(Bytes))
    BY <1>0, <2>1 DEF SessionTyped
  <2> QED
    BY <1>0, <1>1, <2>2 DEF SendMessage, SessionTyped
<1>2. CASE StoreMessage
  <2>1. PICK n \in Nat :
          /\ n = IF Len(from_pub[1]) + 1 > BLOCK_SIZE - Len(block)
                 THEN BLOCK_SIZE - Len(block) ELSE Len(from_pub[1]) + 1
          /\ SubSeq(Append(from_pub[1], NUL), 1, n) \in Seq(Bytes)
          /\ Len(SubSeq(Append(from_pub[1], NUL), 1, n)) = n
          /\ block' = block \o SubSeq(Append(from_pub[1], NUL), 1, n)
          /\ size' = IF n = 0 THEN size ELSE Len(block')
    BY <1>2, BytesStored
  <2> DEFINE w == SubSeq(Append(from_pub[1], NUL), 1, n)
  <2>2. w \in Seq(Bytes) /\ Len(w) = n /\ block' = block \o w
    BY <2>1
  <2>3. from_pub[1] \in Seq(Bytes)
    BY <1>0, <1>2 DEF StoreMessage, SessionTyped
  <2>4. n <= BLOCK_SIZE - Len(block)
    BY <1>0, <2>1, <2>3 DEF SessionTyped
  <2> HIDE DEF w
  <2>5. block' \in Seq(Bytes) /\ Len(block') = Len(block) + n
    <3>1. block \in Seq(Bytes)
      BY <1>0 DEF SessionTyped
    <3> QED
      BY <2>2, <3>1, ConcatProperties
  <2>6. Len(block') <= BLOCK_SIZE /\ size' \in {0, Len(block')}
    BY <1>0, <2>1, <2>4, <2>5 DEF SessionTyped
  <2>7. from_pub' \in Seq(Seq(Bytes))
    BY <1>0, <1>2 DEF StoreMessage, SessionTyped
  <2> QED
    BY <1>0, <1>2, <2>5, <2>6, <2>7 DEF StoreMessage, SessionTyped
<1>3. CASE WriteMessage
  <2>1. to_sub' = to_sub \/ to_sub' = Append(to_sub, FirstInBox)
    BY <1>3 DEF WriteMessage
  <2>2. FirstInBox \in Seq(Bytes) /\ to_sub \in Seq(Seq(Bytes))
    BY <1>0, FirstInBoxIs DEF SessionTyped
  <2>3. to_sub' \in Seq(Seq(Bytes))
    <3>1. Append(to_sub, FirstInBox) \in Seq(Seq(Bytes))
      BY <2>2, AppendProperties
    <3> QED
      BY <2>1, <2>2, <3>1
  <2> QED
    BY <1>0, <1>3, <2>3 DEF WriteMessage, AfterWrite, SessionTyped
<1>4. CASE PublisherLeft \/ OpenBox \/ BrokerDies
  BY <1>0, <1>4 DEF PublisherLeft, OpenBox, BrokerDies, SessionTyped
<1>5. CASE ReadMessage
  <2>1. to_sub' \in Seq(Seq(Bytes))
    BY <1>0, <1>5 DEF ReadMessage, SessionTyped
  <2> QED
    BY <1>0, <1>5, <2>1 DEF ReadMessage, SessionTyped
<1>6. CASE PubDestroy \/ SubDestroy
  BY <1>0, <1>6 DEF PubDestroy, SubDestroy, Removed, session, SessionTyped
<1>7. CASE UNCHANGED <<session, pipes>>
  BY <1>0, <1>7 DEF session, SessionTyped
<1>8. CASE GetChar \/ SendFails \/ Interrupt \/ UNCHANGED vars
  BY <1>7, <1>8 DEF GetChar, SendFails, Interrupt, vars
<1>9. CASE InstallHandler \/ TestRunning \/ CallRead \/ ReadNothing \/ GiveUp
  BY <1>7, <1>9 DEF InstallHandler, TestRunning, CallRead, ReadNothing, GiveUp
<1> QED
  BY <1>1, <1>2, <1>3, <1>4, <1>5, <1>6, <1>8, <1>9
  DEF Next, PublisherStep, BrokerStep, SubscriberStep

(* And those of the subscriber. *)
LEMMA SubscriberTypes ==
  ASSUME TypeOK, [Next]_vars
  PROVE  SubscriberTyped'
<1> USE ClientsAssumption
<1>0. SubscriberTyped
  BY DEF TypeOK, PublisherTyped
<1>1. CASE TestRunning
  <2>1. Len(printed) \in Nat
    BY <1>0 DEF SubscriberTyped
  <2> QED
    BY <1>0, <1>1, <2>1 DEF TestRunning, SubGo, SubscriberTyped
<1>2. CASE ReadMessage
  <2>1. Head(to_sub) \in Seq(Bytes)
    BY <1>2 DEF ReadMessage, TypeOK, SessionTyped
  <2>2. printed' \in Seq(Seq(Bytes))
    BY <1>0, <1>2, <2>1 DEF ReadMessage, SubscriberTyped
  <2> QED
    BY <1>0, <1>2, <2>2 DEF ReadMessage, SubGo, SubscriberTyped
<1>3. CASE InstallHandler \/ CallRead \/ ReadNothing \/ GiveUp \/ SubDestroy
  BY <1>0, <1>3 DEF InstallHandler, CallRead, ReadNothing, GiveUp, SubDestroy, EndOfPipe,
                    AfterError, SubGo, SubscriberTyped
<1>4. CASE Interrupt
  <2>1. interrupts' \in 0 .. MaxInterrupts
    BY <1>0, <1>4 DEF Interrupt, SubscriberTyped
  <2>2. CASE handler
    BY <1>0, <1>4, <2>1, <2>2 DEF Interrupt, SubscriberTyped
  <2>3. CASE ~handler
    BY <1>0, <1>4, <2>1, <2>3 DEF Interrupt, SubscriberTyped
  <2> QED
    BY <2>2, <2>3
<1>5. CASE UNCHANGED subscriber
  BY <1>0, <1>5 DEF subscriber, SubscriberTyped
<1>6. CASE GetChar \/ PublisherStep \/ UNCHANGED vars
  BY <1>5, <1>6 DEF GetChar, PublisherStep, SendMessage, SendFails, PubDestroy, vars
<1>7. CASE BrokerStep
  BY <1>5, <1>7 DEF BrokerStep, StoreMessage, PublisherLeft, OpenBox, WriteMessage, BrokerDies
<1> QED
  BY <1>1, <1>2, <1>3, <1>4, <1>6, <1>7 DEF Next, SubscriberStep

(* A step keeps all types. *)
LEMMA NextTypeOK == TypeOK /\ MessagesHeld /\ [Next]_vars => TypeOK'
  BY PublisherTypes, SessionTypes, SubscriberTypes DEF TypeOK, PublisherTyped

(* A step keeps what is held of the messages. *)
LEMMA MessagesHeldStep == TypeOK /\ MessagesHeld /\ [Next]_vars => MessagesHeld'
<1> SUFFICES ASSUME TypeOK, MessagesHeld, [Next]_vars PROVE MessagesHeld'
  OBVIOUS
<1> USE ClientsAssumption
<1>1. /\ block \in Seq(Bytes) /\ Len(block) <= BLOCK_SIZE
      /\ sent \in Seq(Seq(Bytes)) /\ from_pub \in Seq(Seq(Bytes))
  BY DEF TypeOK, PublisherTyped, SessionTyped, SubscriberTyped
<1>2. CASE SendMessage
  <2> DEFINE m == String(buffer)
  <2>1. /\ m \in Seq(Bytes) /\ Len(m) < MESSAGE_SIZE
        /\ \A k \in 1 .. Len(m) : m[k] # NUL
    BY StringType
  <2> HIDE DEF m
  <2>2. sent' = Append(sent, m) /\ from_pub' = Append(from_pub, m) /\ block' = block
    BY <1>2 DEF SendMessage, m
  <2>3. /\ Len(sent') = Len(sent) + 1 /\ sent'[Len(sent) + 1] = m
        /\ \A k \in 1 .. Len(sent) : sent'[k] = sent[k]
    BY <1>1, <2>1, <2>2
  <2>4. /\ Len(from_pub') = Len(from_pub) + 1 /\ from_pub'[Len(from_pub) + 1] = m
        /\ \A k \in 1 .. Len(from_pub) : from_pub'[k] = from_pub[k]
    BY <1>1, <2>1, <2>2
  <2>5. Unstored'
    <3>1. Len(from_pub') <= Len(sent')
      BY <1>1, <2>3, <2>4 DEF MessagesHeld, Unstored
    <3>2. ASSUME NEW k \in 1 .. Len(from_pub')
          PROVE  from_pub'[k] = sent'[Len(sent') - Len(from_pub') + k]
      <4>1. CASE k = Len(from_pub) + 1
        BY <1>1, <2>3, <2>4, <4>1
      <4>2. CASE k \in 1 .. Len(from_pub)
        <5>1. from_pub[k] = sent[Len(sent) - Len(from_pub) + k]
          BY <4>2 DEF MessagesHeld, Unstored
        <5>2. Len(sent) - Len(from_pub) + k \in 1 .. Len(sent)
          BY <1>1, <4>2 DEF MessagesHeld, Unstored
        <5>3. Len(sent') - Len(from_pub') + k = Len(sent) - Len(from_pub) + k
          BY <1>1, <2>3, <2>4
        <5> QED
          BY <2>3, <2>4, <4>2, <5>1, <5>2, <5>3
      <4> QED
        BY <1>1, <2>4, <4>1, <4>2
    <3>3. block' = <<>> => from_pub' = sent'
      BY <2>2 DEF MessagesHeld, Unstored
    <3> QED
      BY <3>1, <3>2, <3>3 DEF Unstored
  <2>6. FirstStored'
    <3> SUFFICES ASSUME block # <<>>
                 PROVE  /\ sent' # <<>> /\ sent'[1] = sent[1]
      BY <2>2 DEF MessagesHeld, FirstStored
    <3>1. sent # <<>>
      BY DEF MessagesHeld, FirstStored
    <3> QED
      BY <1>1, <2>3, <3>1
  <2>7. Strings'
    <3> SUFFICES ASSUME NEW k \in 1 .. Len(sent')
                 PROVE  Len(sent'[k]) < MESSAGE_SIZE /\ \A j \in 1 .. Len(sent'[k]) : sent'[k][j] # NUL
      BY DEF Strings
    <3>1. k \in 1 .. Len(sent) \/ k = Len(sent) + 1
      BY <1>1, <2>3
    <3> QED
      BY <2>1, <2>3, <3>1 DEF MessagesHeld, Strings
  <2> QED
    BY <2>5, <2>6, <2>7 DEF MessagesHeld
<1>3. CASE StoreMessage
  <2>1. sent' = sent /\ from_pub # <<>> /\ from_pub' = Tail(from_pub)
    BY <1>3 DEF StoreMessage, publisher
  <2>2. PICK n \in Nat :
          /\ n = IF Len(from_pub[1]) + 1 > BLOCK_SIZE - Len(block)
                 THEN BLOCK_SIZE - Len(block) ELSE Len(from_pub[1]) + 1
          /\ SubSeq(Append(from_pub[1], NUL), 1, n) \in Seq(Bytes)
          /\ Len(SubSeq(Append(from_pub[1], NUL), 1, n)) = n
          /\ block' = block \o SubSeq(Append(from_pub[1], NUL), 1, n)
    BY <1>3, BytesStored
  <2>3. /\ from_pub' \in Seq(Seq(Bytes)) /\ Len(from_pub') = Len(from_pub) - 1
        /\ \A k \in 1 .. Len(from_pub) - 1 : from_pub'[k] = from_pub[k + 1]
    BY <1>1, <2>1
  <2>4. ASSUME block = <<>> PROVE FirstStored' /\ block' # <<>>
    <3>1. from_pub = sent /\ sent # <<>> /\ 1 \in 1 .. Len(sent) /\ from_pub[1] = sent[1]
          /\ sent[1] \in Seq(Bytes) /\ Len(sent[1]) < MESSAGE_SIZE
      BY <1>1, <2>1, <2>4 DEF MessagesHeld, Unstored, Strings
    <3>2. n = Len(sent[1]) + 1
      BY <2>2, <2>4, <3>1
    <3>3. SubSeq(Append(sent[1], NUL), 1, n) = Append(sent[1], NUL)
      BY <3>1, <3>2, <2>2
    <3>4. block' = Append(sent[1], NUL)
      BY <2>2, <2>4, <3>1, <3>3
    <3>5. /\ Len(block') = Len(sent[1]) + 1 /\ block'[Len(sent[1]) + 1] = NUL
          /\ \A k \in 1 .. Len(sent[1]) : block'[k] = sent[1][k]
          /\ Len(sent[1]) < Len(block') /\ block' # <<>>
      BY <3>1, <3>4
    <3> QED
      BY <2>1, <3>1, <3>5 DEF FirstStored
  <2>5. ASSUME block # <<>> PROVE FirstStored' /\ block' # <<>>
    <3>1. /\ sent # <<>> /\ Len(sent[1]) < Len(block) /\ block[Len(sent[1]) + 1] = NUL
          /\ \A k \in 1 .. Len(sent[1]) : block[k] = sent[1][k]
      BY <2>5 DEF MessagesHeld, FirstStored
    <3>2. sent[1] \in Seq(Bytes)
      BY <1>1, <3>1
    <3>3. PICK w \in Seq(Bytes) : block' = block \o w
      BY <2>2
    <3>4. Len(block') >= Len(block) /\ \A k \in 1 .. Len(block) : block'[k] = block[k]
      BY <1>1, <3>3
    <3>5. Len(sent[1]) + 1 \in 1 .. Len(block) /\ \A k \in 1 .. Len(sent[1]) : k \in 1 .. Len(block)
      BY <1>1, <3>1, <3>2
    <3>6. Len(sent[1]) < Len(block') /\ block' # <<>>
      BY <1>1, <3>1, <3>2, <3>3, <3>4
    <3>7. block'[Len(sent[1]) + 1] = NUL /\ \A k \in 1 .. Len(sent[1]) : block'[k] = sent[1][k]
      BY <3>1, <3>4, <3>5
    <3> QED
      BY <2>1, <3>1, <3>6, <3>7 DEF FirstStored
  <2>6. FirstStored'
    BY <2>4, <2>5
  <2>7. block' # <<>>
    BY <2>4, <2>5
  <2>8. Unstored'
    <3>1. ASSUME NEW k \in 1 .. Len(from_pub')
          PROVE  from_pub'[k] = sent'[Len(sent') - Len(from_pub') + k]
      <4>0. Len(from_pub) \in Nat /\ k \in 1 .. Len(from_pub) - 1
        BY <1>1, <2>3
      <4>1. k + 1 \in 1 .. Len(from_pub) /\ k \in 1 .. Len(from_pub) - 1
        BY <4>0
      <4>2. from_pub[k + 1] = sent[Len(sent) - Len(from_pub) + (k + 1)]
        BY <4>1 DEF MessagesHeld, Unstored
      <4>3. Len(sent) - Len(from_pub') + k = Len(sent) - Len(from_pub) + (k + 1)
        BY <1>1, <2>3
      <4> QED
        BY <2>1, <2>3, <4>1, <4>2, <4>3
    <3>2. Len(from_pub') <= Len(sent')
      BY <1>1, <2>1, <2>3 DEF MessagesHeld, Unstored
    <3> QED
      BY <2>7, <3>1, <3>2 DEF Unstored
  <2> QED
    BY <2>1, <2>6, <2>8 DEF MessagesHeld, Strings
<1>4. CASE UNCHANGED <<sent, from_pub, block>>
  BY <1>4 DEF MessagesHeld, Unstored, FirstStored, Strings
<1>5. CASE GetChar \/ SendFails \/ PubDestroy
  BY <1>4, <1>5 DEF GetChar, SendFails, PubDestroy, session
<1>6. CASE PublisherLeft \/ OpenBox \/ WriteMessage \/ BrokerDies
  BY <1>4, <1>6 DEF PublisherLeft, OpenBox, WriteMessage, BrokerDies, publisher
<1>7. CASE SubscriberStep
  BY <1>4, <1>7 DEF SubscriberStep, InstallHandler, TestRunning, CallRead, ReadMessage,
                    ReadNothing, SubDestroy, GiveUp, publisher, session
<1>8. CASE Interrupt \/ UNCHANGED vars
  BY <1>4, <1>8 DEF Interrupt, vars, publisher, session
<1> QED
  BY <1>2, <1>3, <1>5, <1>6, <1>7, <1>8 DEF Next, PublisherStep, BrokerStep

(* Nothing is on its way at the start. *)
LEMMA InitMessagesHeld == Init => MessagesHeld
  BY DEF Init, MessagesHeld, Unstored, FirstStored, Strings

(* The two together. *)
LEMMA MessagesKept == Spec => [](TypeOK /\ MessagesHeld)
<1> QED
  BY InitTypeOK, InitMessagesHeld, NextTypeOK, MessagesHeldStep, PTL DEF Spec

(* TypeOK: the publisher never writes past its buffer's last byte, whatever is     *)
(* typed, and the broker never past its block.                                     *)
THEOREM TypeCorrect == Spec => []TypeOK
<1> QED
  BY MessagesKept, PTL

--------------------------------------------------------------------------------
(* The publisher's messages *)

(* What a byte does to the buffer and to the position. *)
LEMMA CharStored ==
  ASSUME TypeOK, GetChar
  PROVE  \E c \in Bytes \cup {EOF} :
           /\ pub_at = "reading" /\ sent' = sent
           /\ typed' = Append(typed, c)
           /\ \/ /\ c \in {EOF, OxFF}
                 /\ pub_at' = "closing" /\ i' = i /\ buffer' = buffer
              \/ /\ c \notin {EOF, OxFF, NewLine} /\ i < MESSAGE_SIZE - 1
                 /\ pub_at' = "reading" /\ i' = i + 1 /\ buffer' = [buffer EXCEPT ![i] = c]
              \/ /\ c \notin {EOF, OxFF} /\ (c = NewLine \/ i = MESSAGE_SIZE - 1)
                 /\ pub_at' = "sending" /\ i' = MESSAGE_SIZE - 1 /\ buffer' = buffer
<1> USE ClientsAssumption DEF TypeOK, PublisherTyped, SessionTyped, SubscriberTyped, Positions
<1>1. PICK c \in Bytes \cup {EOF} :
        /\ typed' = Append(typed, c)
        /\ IF IsEof(c)
           THEN pub_at' = "closing" /\ UNCHANGED <<i, buffer>>
           ELSE LET stored == IF c = NewLine THEN MESSAGE_SIZE - 1 ELSE i
                IN  /\ buffer' = IF HasPlace
                                 THEN [buffer EXCEPT ![stored] = IF c = NewLine THEN NUL ELSE c]
                                 ELSE buffer
                    /\ IF Full(c)
                       THEN i' = stored /\ pub_at' = "sending"
                       ELSE i' = i + 1 /\ UNCHANGED pub_at
  BY DEF GetChar
<1>2. pub_at = "reading" /\ sent' = sent
  BY DEF GetChar
<1>3. CASE IsEof(c)
  BY <1>1, <1>2, <1>3 DEF IsEof
<1>4. CASE ~IsEof(c) /\ ~Full(c)
  BY <1>1, <1>2, <1>4 DEF IsEof, Full, HasPlace
<1>5. CASE ~IsEof(c) /\ Full(c)
  <2>1. [buffer EXCEPT ![MESSAGE_SIZE - 1] = NUL] = buffer
    OBVIOUS
  <2>2. buffer' = buffer
    BY <1>1, <1>5, <2>1 DEF Full, HasPlace
  <2>3. i' = MESSAGE_SIZE - 1 /\ (c = NewLine \/ i = MESSAGE_SIZE - 1)
    BY <1>1, <1>5 DEF Full, HasPlace
  <2> QED
    BY <1>1, <1>2, <1>5, <2>2, <2>3 DEF IsEof
<1> QED
  BY <1>3, <1>4, <1>5

(* Once a message is out, the first byte of the buffer is '\0' and the position is *)
(* past it: that is what makes OthersEmpty inductive.                              *)
FirstByteLost == sent # <<>> => buffer[0] = NUL /\ i >= 1

(* A step keeps the later messages empty. *)
LEMMA OthersEmptyStep ==
  TypeOK /\ FirstByteLost /\ OthersEmpty /\ [Next]_vars => FirstByteLost' /\ OthersEmpty'
<1> SUFFICES ASSUME TypeOK, FirstByteLost, OthersEmpty, [Next]_vars
             PROVE  FirstByteLost' /\ OthersEmpty'
  OBVIOUS
<1> USE ClientsAssumption DEF Positions
<1>1. CASE GetChar
  <2>1. FirstByteLost'
    BY SMTT(30), <1>1, CharStored DEF TypeOK, PublisherTyped, SessionTyped, SubscriberTyped, FirstByteLost
  <2> QED
    BY <1>1, <2>1 DEF GetChar, OthersEmpty
<1>2. CASE SendMessage
  <2>1. sent # <<>> => String(buffer) = <<>>
    <3> SUFFICES ASSUME sent # <<>> PROVE String(buffer) = <<>>
      OBVIOUS
    <3>1. buffer \in [Positions -> Bytes] /\ \E n \in Positions : buffer[n] = NUL
      BY SMTT(30) DEF TypeOK, PublisherTyped
    <3>2. buffer[0] = NUL
      BY DEF FirstByteLost
    <3>3. Strlen(buffer) = 0
      BY <3>1, <3>2, StrlenFinds
    <3> QED
      BY <3>3 DEF String
  <2>2. sent' = Append(sent, String(buffer)) /\ sent \in Seq(Seq(Bytes))
    BY <1>2 DEF SendMessage, TypeOK, PublisherTyped
  <2>3. OthersEmpty'
    <3> SUFFICES ASSUME NEW k \in 2 .. Len(sent') PROVE sent'[k] = <<>>
      BY DEF OthersEmpty
    <3>0. Len(sent') = Len(sent) + 1 /\ Len(sent) \in Nat
      BY <2>2
    <3>1. CASE k <= Len(sent)
      BY <2>2, <3>1 DEF OthersEmpty
    <3>2. CASE k = Len(sent) + 1
      BY <2>1, <2>2, <3>0, <3>2
    <3> QED
      BY <3>0, <3>1, <3>2
  <2>4. FirstByteLost'
    BY <1>2 DEF SendMessage, FirstByteLost, Zeros, FirstPosition
  <2> QED
    BY <2>3, <2>4
<1>3. CASE SendFails \/ PubDestroy \/ UNCHANGED publisher
  BY <1>3 DEF SendFails, PubDestroy, publisher, FirstByteLost, OthersEmpty
<1> QED
  BY <1>1, <1>2, <1>3, PublisherAlone

(* OthersEmpty: whatever the size of a message, of the lines typed only the first  *)
(* is ever sent.                                                                   *)
THEOREM OnlyTheFirstLine == Spec => []OthersEmpty
<1>1. Init => FirstByteLost /\ OthersEmpty
  BY DEF Init, FirstByteLost, OthersEmpty
<1> QED
  BY <1>1, TypeCorrect, OthersEmptyStep, PTL DEF Spec

(* Before the first message is out the buffer is what has been typed, without the  *)
(* byte that made the publisher send it.                                           *)
Holds(n) ==
    /\ n \in Positions
    /\ \A k \in Positions : buffer[k] = IF k < n THEN typed[k + 1] ELSE NUL
    /\ \A k \in 1 .. n : typed[k] # NewLine

FirstLineHeld ==
    sent = <<>> =>
        /\ pub_at = "reading" => i = Len(typed) /\ Holds(i)
        /\ pub_at = "sending" =>
              /\ Len(typed) > 0 /\ Holds(Len(typed) - 1)
              /\ typed[Len(typed)] = NewLine \/ Len(typed) = MESSAGE_SIZE

(* FirstMessage, with the line's end among what was typed. *)
FirstMessageTyped ==
    sent # <<>> => \E n \in 0 .. MESSAGE_SIZE - 1 :
        /\ n < Len(typed)
        /\ sent[1] = SubSeq(typed, 1, n)
        /\ \A k \in 1 .. n : typed[k] \notin {NewLine, NUL}
        /\ n = MESSAGE_SIZE - 1 \/ typed[n + 1] \in {NewLine, NUL}

(* The publisher starts with an empty buffer. *)
LEMMA FirstLineInit == Init => FirstLineHeld /\ FirstMessageTyped
<1> SUFFICES ASSUME Init PROVE FirstLineHeld /\ FirstMessageTyped
  OBVIOUS
<1> USE ClientsAssumption DEF Init
<1>1. Holds(0)
  BY DEF Holds, Positions, Zeros
<1> QED
  BY <1>1 DEF FirstLineHeld, FirstMessageTyped

(* A byte typed keeps both. *)
LEMMA FirstLineGetChar ==
  ASSUME TypeOK, FirstLineHeld, FirstMessageTyped, GetChar
  PROVE  FirstLineHeld' /\ FirstMessageTyped'
<1> USE ClientsAssumption
<1>1. PICK c \in Bytes \cup {EOF} :
        /\ pub_at = "reading" /\ sent' = sent
        /\ typed' = Append(typed, c)
        /\ \/ /\ c \in {EOF, OxFF}
              /\ pub_at' = "closing" /\ i' = i /\ buffer' = buffer
           \/ /\ c \notin {EOF, OxFF, NewLine} /\ i < MESSAGE_SIZE - 1
              /\ pub_at' = "reading" /\ i' = i + 1 /\ buffer' = [buffer EXCEPT ![i] = c]
           \/ /\ c \notin {EOF, OxFF} /\ (c = NewLine \/ i = MESSAGE_SIZE - 1)
              /\ pub_at' = "sending" /\ i' = MESSAGE_SIZE - 1 /\ buffer' = buffer
  BY CharStored
<1>2. typed \in Seq(Bytes \cup {EOF}) /\ i \in Positions /\ buffer \in [Positions -> Bytes]
  BY DEF TypeOK, PublisherTyped, SessionTyped, SubscriberTyped
<1>3. /\ Len(typed') = Len(typed) + 1 /\ typed'[Len(typed) + 1] = c
      /\ \A k \in 1 .. Len(typed) : typed'[k] = typed[k]
  BY <1>1, <1>2
<1>4. FirstMessageTyped'
  <2> SUFFICES ASSUME sent # <<>> PROVE FirstMessageTyped'
    BY <1>1 DEF FirstMessageTyped
  <2>1. PICK n \in 0 .. MESSAGE_SIZE - 1 :
          /\ n < Len(typed)
          /\ sent[1] = SubSeq(typed, 1, n)
          /\ \A k \in 1 .. n : typed[k] \notin {NewLine, NUL}
          /\ n = MESSAGE_SIZE - 1 \/ typed[n + 1] \in {NewLine, NUL}
    BY DEF FirstMessageTyped
  <2>2. SubSeq(typed', 1, n) = SubSeq(typed, 1, n)
    BY <1>1, <1>2, <2>1
  <2>3. n < Len(typed') /\ typed'[n + 1] = typed[n + 1]
    BY <1>2, <1>3, <2>1
  <2>4. \A k \in 1 .. n : typed'[k] \notin {NewLine, NUL}
    BY <1>2, <1>3, <2>1
  <2> QED
    BY <1>1, <2>1, <2>2, <2>3, <2>4 DEF FirstMessageTyped
<1>5. FirstLineHeld'
  <2> SUFFICES ASSUME sent = <<>> PROVE FirstLineHeld'
    BY <1>1 DEF FirstLineHeld
  <2>1. i = Len(typed) /\ Holds(i)
    BY <1>1 DEF FirstLineHeld
  <2>2. CASE c \in {EOF, OxFF}
    BY <1>1, <2>2 DEF FirstLineHeld
  <2>3. CASE c \notin {EOF, OxFF, NewLine} /\ i < MESSAGE_SIZE - 1
    <3>1. pub_at' = "reading" /\ i' = i + 1 /\ buffer' = [buffer EXCEPT ![i] = c]
      BY <1>1, <2>3
    <3>2. i' = Len(typed') /\ i' \in Positions
      BY <1>2, <1>3, <2>1, <2>3, <3>1 DEF Positions
    <3>3. \A k \in Positions : buffer'[k] = IF k < i' THEN typed'[k + 1] ELSE NUL
      <4> SUFFICES ASSUME NEW k \in Positions
                   PROVE  buffer'[k] = IF k < i' THEN typed'[k + 1] ELSE NUL
        OBVIOUS
      <4>1. k \in Int /\ k >= 0 /\ i \in Int
        BY <1>2 DEF Positions
      <4>2. buffer[k] = IF k < i THEN typed[k + 1] ELSE NUL
        BY <2>1 DEF Holds
      <4>3. CASE k = i
        BY <1>2, <1>3, <2>1, <3>1, <4>1, <4>3
      <4>4. CASE k < i
        <5>1. k + 1 \in 1 .. Len(typed)
          BY <1>2, <2>1, <4>1, <4>4
        <5>2. typed'[k + 1] = typed[k + 1]
          BY <1>3, <5>1
        <5>3. buffer'[k] = buffer[k]
          BY <1>2, <3>1, <4>1, <4>4
        <5> QED
          BY <3>1, <4>1, <4>2, <4>4, <5>2, <5>3
      <4>5. CASE k > i
        <5>1. buffer'[k] = buffer[k]
          BY <1>2, <3>1, <4>1, <4>5
        <5> QED
          BY <3>1, <4>1, <4>2, <4>5, <5>1
      <4> QED
        BY <4>1, <4>3, <4>4, <4>5
    <3>4. \A k \in 1 .. i' : typed'[k] # NewLine
      <4> SUFFICES ASSUME NEW k \in 1 .. i' PROVE typed'[k] # NewLine
        OBVIOUS
      <4>1. k \in 1 .. i \/ k = i + 1
        BY <1>2, <3>1 DEF Positions
      <4>2. CASE k \in 1 .. i
        <5>1. typed[k] # NewLine
          BY <2>1, <4>2 DEF Holds
        <5> QED
          BY <1>3, <2>1, <4>2, <5>1
      <4>3. CASE k = i + 1
        BY <1>3, <2>1, <2>3, <4>3
      <4> QED
        BY <4>1, <4>2, <4>3
    <3>5. Holds(i)'
      BY <3>2, <3>3, <3>4 DEF Holds, Positions
    <3> QED
      BY <3>1, <3>2, <3>5 DEF FirstLineHeld
  <2>4. CASE c \notin {EOF, OxFF} /\ (c = NewLine \/ i = MESSAGE_SIZE - 1)
    <3>1. pub_at' = "sending" /\ buffer' = buffer
      BY <1>1, <2>4
    <3>2. Len(typed') - 1 = i
      BY <1>2, <1>3, <2>1
    <3>3. \A k \in Positions : buffer'[k] = IF k < i THEN typed'[k + 1] ELSE NUL
      <4> SUFFICES ASSUME NEW k \in Positions
                   PROVE  buffer'[k] = IF k < i THEN typed'[k + 1] ELSE NUL
        OBVIOUS
      <4>1. buffer'[k] = IF k < i THEN typed[k + 1] ELSE NUL
        BY <2>1, <3>1 DEF Holds
      <4>2. k < i => k + 1 \in 1 .. Len(typed)
        BY <1>2, <2>1 DEF Positions
      <4> QED
        BY <1>3, <4>1, <4>2
    <3>4. \A k \in 1 .. i : typed'[k] # NewLine
      BY <1>2, <1>3, <2>1 DEF Holds, Positions
    <3>5. typed'[Len(typed')] = NewLine \/ Len(typed') = MESSAGE_SIZE
      BY <1>2, <1>3, <2>1, <2>4
    <3>6. Holds(Len(typed) - 1)'
      BY <1>2, <3>1, <3>2, <3>3, <3>4 DEF Holds, Positions
    <3>7. Len(typed') > 0
      BY <1>2, <1>3
    <3> QED
      BY <3>1, <3>5, <3>6, <3>7 DEF FirstLineHeld
  <2> QED
    BY <1>1, <2>2, <2>3, <2>4
<1> QED
  BY <1>4, <1>5

(* The first message sent is the line held. *)
LEMMA FirstLineSent ==
  ASSUME TypeOK, FirstLineHeld, FirstMessageTyped, SendMessage
  PROVE  FirstLineHeld' /\ FirstMessageTyped'
<1> USE ClientsAssumption
<1>1. sent' = Append(sent, String(buffer)) /\ sent \in Seq(Seq(Bytes)) /\ typed' = typed
  BY DEF SendMessage, TypeOK, PublisherTyped
<1>2. sent' # <<>>
  BY <1>1
<1>3. CASE sent # <<>>
  <2>1. sent'[1] = sent[1]
    BY <1>1, <1>3
  <2> QED
    BY <1>1, <1>2, <1>3, <2>1 DEF FirstLineHeld, FirstMessageTyped
<1>4. CASE sent = <<>>
  <2> DEFINE m == Len(typed) - 1
             n == Strlen(buffer)
  <2>1. /\ Len(typed) > 0 /\ Holds(m)
        /\ typed[Len(typed)] = NewLine \/ Len(typed) = MESSAGE_SIZE
    BY <1>4 DEF SendMessage, FirstLineHeld
  <2>2. typed \in Seq(Bytes \cup {EOF}) /\ buffer \in [Positions -> Bytes]
    BY DEF TypeOK, PublisherTyped, SessionTyped, SubscriberTyped
  <2>3. m \in Positions /\ buffer[m] = NUL
    BY <2>1, <2>2 DEF Holds, Positions
  <2>4. n \in Positions /\ buffer[n] = NUL /\ \A k \in 0 .. n - 1 : buffer[k] # NUL
    BY <2>2, <2>3, StrlenFinds
  <2> HIDE DEF n
  <2>5. n <= m
    BY <2>3, <2>4 DEF Positions
  <2>6. \A k \in 1 .. n : buffer[k - 1] = typed[k] /\ typed[k] \notin {NewLine, NUL}
    <3> SUFFICES ASSUME NEW k \in 1 .. n
                 PROVE  buffer[k - 1] = typed[k] /\ typed[k] \notin {NewLine, NUL}
      OBVIOUS
    <3>1. k \in Nat /\ k - 1 \in 0 .. n - 1 /\ k - 1 \in Positions /\ k - 1 < m /\ (k - 1) + 1 = k
          /\ k \in 1 .. m
      BY <2>2, <2>4, <2>5 DEF Positions
    <3>2. buffer[k - 1] = typed[k] /\ typed[k] # NewLine
      BY <2>1, <3>1 DEF Holds
    <3> QED
      BY <2>4, <3>1, <3>2
  <2>7. String(buffer) = SubSeq(typed, 1, n)
    <3>1. String(buffer) = [k \in 1 .. n |-> typed[k]]
      BY <2>6 DEF String, n
    <3>2. n \in Nat /\ n <= Len(typed)
      BY <2>2, <2>4, <2>5 DEF Positions
    <3> QED
      BY <2>2, <3>1, <3>2
  <2>8. n = MESSAGE_SIZE - 1 \/ typed[n + 1] \in {NewLine, NUL}
    <3>1. CASE n < m
      BY <2>1, <2>4, <3>1 DEF Holds
    <3>2. CASE n = m
      BY <2>1, <2>2, <3>2
    <3> QED
      BY <2>2, <2>4, <2>5, <3>1, <3>2 DEF Positions
  <2>9. sent'[1] = String(buffer)
    BY <1>1, <1>4
  <2>10. n \in 0 .. MESSAGE_SIZE - 1 /\ n < Len(typed)
    BY <2>2, <2>4, <2>5 DEF Positions
  <2> QED
    BY <1>1, <1>2, <2>6, <2>7, <2>8, <2>9, <2>10 DEF FirstLineHeld, FirstMessageTyped
<1> QED
  BY <1>3, <1>4

(* A step keeps both. *)
LEMMA FirstLineStep ==
  TypeOK /\ FirstLineHeld /\ FirstMessageTyped /\ [Next]_vars
    => FirstLineHeld' /\ FirstMessageTyped'
<1> SUFFICES ASSUME TypeOK, FirstLineHeld, FirstMessageTyped, [Next]_vars
             PROVE  FirstLineHeld' /\ FirstMessageTyped'
  OBVIOUS
<1>1. CASE SendFails \/ PubDestroy
  BY <1>1 DEF SendFails, PubDestroy, FirstLineHeld, FirstMessageTyped, Holds
<1>2. CASE UNCHANGED publisher
  BY <1>2 DEF publisher, FirstLineHeld, FirstMessageTyped, Holds
<1> QED
  BY <1>1, <1>2, FirstLineGetChar, FirstLineSent, PublisherAlone

(* FirstMessage: whatever MESSAGE_SIZE is, the first line arrives, cut to size. *)
THEOREM FirstLineArrives == Spec => []FirstMessage
<1>1. FirstMessageTyped => FirstMessage
  BY DEF FirstMessageTyped, FirstMessage
<1> QED
  BY <1>1, TypeCorrect, FirstLineInit, FirstLineStep, PTL DEF Spec

(* Where lines were ended. *)
LineEnds == {k \in 1 .. Len(typed) : typed[k] = NewLine}

(* LinesSent, and while the publisher sends it owes one message. *)
LinesAccounted ==
    /\ pub_at = "reading" => Cardinality(LineEnds) <= Len(sent)
    /\ pub_at = "sending" => Cardinality(LineEnds) <= Len(sent) + 1

(* A step keeps the account. *)
LEMMA LinesStep == TypeOK /\ LinesAccounted /\ [Next]_vars => LinesAccounted'
<1> SUFFICES ASSUME TypeOK, LinesAccounted, [Next]_vars PROVE LinesAccounted'
  OBVIOUS
<1>1. typed \in Seq(Bytes \cup {EOF}) /\ sent \in Seq(Seq(Bytes))
  BY DEF TypeOK, PublisherTyped, SessionTyped, SubscriberTyped
<1>2. IsFiniteSet(LineEnds) /\ Cardinality(LineEnds) \in Nat
  <2>1. IsFiniteSet(1 .. Len(typed))
    BY <1>1, FS_Interval
  <2>2. IsFiniteSet(LineEnds)
    BY <2>1, FS_Subset DEF LineEnds
  <2> QED
    BY <2>2, FS_CardinalityType
<1>3. CASE GetChar
  <2>1. PICK c \in Bytes \cup {EOF} :
          /\ pub_at = "reading" /\ sent' = sent /\ typed' = Append(typed, c)
          /\ pub_at' = "reading" => c # NewLine
    <3>1. NewLine # EOF /\ NewLine # OxFF
      BY ClientsAssumption DEF Bytes
    <3> QED
      BY <1>3, <3>1, CharStored
  <2>2. /\ Len(typed') = Len(typed) + 1 /\ typed'[Len(typed) + 1] = c
        /\ \A k \in 1 .. Len(typed) : typed'[k] = typed[k]
    BY <1>1, <2>1
  <2>3. Cardinality(LineEnds) <= Len(sent)
    BY <2>1 DEF LinesAccounted
  <2>4. CASE c = NewLine
    <3>1. LineEnds' = LineEnds \cup {Len(typed) + 1} /\ Len(typed) + 1 \notin LineEnds
      BY <1>1, <2>2, <2>4 DEF LineEnds
    <3>2. Cardinality(LineEnds') = Cardinality(LineEnds) + 1
      BY <1>2, <3>1, FS_AddElement
    <3> QED
      BY <1>1, <1>2, <2>1, <2>3, <2>4, <3>2 DEF LinesAccounted
  <2>5. CASE c # NewLine
    <3>1. LineEnds' = LineEnds
      BY <1>1, <2>2, <2>5 DEF LineEnds
    <3> QED
      BY <1>1, <1>2, <2>1, <2>3, <3>1 DEF LinesAccounted
  <2> QED
    BY <2>4, <2>5
<1>4. CASE SendMessage
  <2>1. Len(sent') = Len(sent) + 1 /\ LineEnds' = LineEnds
    BY <1>1, <1>4 DEF SendMessage, LineEnds
  <2> QED
    BY <1>1, <1>2, <1>4, <2>1 DEF SendMessage, LinesAccounted
<1>5. CASE SendFails \/ PubDestroy
  BY <1>5 DEF SendFails, PubDestroy, LinesAccounted
<1>6. CASE UNCHANGED publisher
  BY <1>6 DEF publisher, LinesAccounted, LineEnds
<1> QED
  BY <1>3, <1>4, <1>5, <1>6, PublisherAlone

(* LinesSent: no line that was ended waits while the publisher reads on. *)
THEOREM EveryLineSent == Spec => []LinesSent
<1>1. Init => LinesAccounted
  <2> SUFFICES ASSUME Init PROVE LinesAccounted
    OBVIOUS
  <2>1. LineEnds = {}
    BY DEF Init, LineEnds
  <2> QED
    BY <2>1, FS_EmptySet DEF Init, LinesAccounted
<1>2. LinesAccounted => LinesSent
  BY DEF LinesAccounted, LinesSent, LineEnds
<1> QED
  BY <1>1, <1>2, TypeCorrect, LinesStep, PTL DEF Spec

--------------------------------------------------------------------------------
(* The subscriber's end *)

(* Only a kill leaves the pipe, and a kill after the handler ran is the second     *)
(* interrupt.                                                                      *)
KilledTwice ==
    /\ sub_at = "ended" => "sub" \notin pipes
    /\ ~running => interrupts >= 1
    /\ ~running /\ sub_at = "killed" => interrupts > 1

(* As long as its loop has not ended the subscriber has told no count, and what    *)
(* begins with an interrupted read stays silent.                                   *)
NotCounted ==
    sub_at \in {"opened", "testing", "calling", "reading", "interrupted"} => count = NoCount
Silent ==
    sub_at \in {"interrupted", "closing", "ended", "killed"} /\ count = NoCount

(* A step keeps all three. *)
LEMMA SubscriberKeeps ==
  ASSUME TypeOK, [Next]_vars
  PROVE  /\ KilledTwice => KilledTwice'
         /\ NotCounted => NotCounted'
         /\ Silent => Silent'
<1> USE DEF KilledTwice, NotCounted, Silent
<1>1. interrupts \in Nat
  BY ClientsAssumption DEF TypeOK, PublisherTyped, SessionTyped, SubscriberTyped
<1>2. CASE GetChar \/ SendMessage \/ SendFails
  BY <1>2 DEF GetChar, SendMessage, SendFails, subscriber
<1>9. CASE BrokerStep
  BY <1>9 DEF BrokerStep, StoreMessage, PublisherLeft, OpenBox, WriteMessage, BrokerDies, subscriber
<1>3. CASE PubDestroy
  BY <1>3 DEF PubDestroy, subscriber
<1>4. CASE InstallHandler \/ TestRunning \/ CallRead
  BY <1>4 DEF InstallHandler, TestRunning, CallRead, SubGo
<1>5. CASE ReadMessage \/ ReadNothing \/ GiveUp
  BY <1>5 DEF ReadMessage, ReadNothing, GiveUp, SubGo, EndOfPipe, AfterError
<1>6. CASE SubDestroy
  BY <1>6 DEF SubDestroy, SubGo, Removed
<1>7. CASE Interrupt
  BY <1>1, <1>7 DEF Interrupt, SubOver
<1>8. CASE UNCHANGED vars
  BY <1>8 DEF vars, subscriber
<1> HIDE DEF KilledTwice, NotCounted, Silent
<1> QED
  BY <1>2, <1>3, <1>4, <1>5, <1>6, <1>7, <1>8, <1>9 DEF Next, PublisherStep, SubscriberStep

(* The subscriber starts in such a state. *)
LEMMA SubscriberInit == Init => KilledTwice /\ NotCounted
  BY DEF Init, KilledTwice, NotCounted

(* PipeLeftBehind: one interrupt, once the handler is installed, never leaves the  *)
(* subscriber's pipe behind.                                                       *)
THEOREM PipeRemoved == Spec => []PipeLeftBehind
<1>1. KilledTwice => PipeLeftBehind
  BY DEF KilledTwice, PipeLeftBehind, SubOver
<1>2. TypeOK /\ KilledTwice /\ [Next]_vars => KilledTwice'
  BY SubscriberKeeps
<1> QED
  BY <1>1, <1>2, TypeCorrect, SubscriberInit, PTL DEF Spec

(* InterruptedIsSilent: a subscriber interrupted while it waits never tells its    *)
(* count.                                                                          *)
THEOREM SilentForGood == Spec => InterruptedIsSilent
<1>1. NotCounted => (sub_at = "interrupted" => Silent)
  BY DEF NotCounted, Silent
<1>2. Silent => count = NoCount
  BY DEF Silent
<1>3. TypeOK /\ NotCounted /\ [Next]_vars => NotCounted'
  BY SubscriberKeeps
<1>4. TypeOK /\ Silent /\ [Next]_vars => Silent'
  BY SubscriberKeeps
<1> QED
  BY <1>1, <1>2, <1>3, <1>4, TypeCorrect, SubscriberInit, PTL DEF Spec, InterruptedIsSilent

--------------------------------------------------------------------------------
(* The one message *)

(* Before the write there is nothing, after it one message at most: the publisher's*)
(* first, or an empty one.                                                         *)
IsFirst(m) == m # <<>> => sent # <<>> /\ m = sent[1]
Given ==
    /\ sub_session # "over" => printed = <<>> /\ to_sub = <<>>
    /\ \/ printed = <<>> /\ to_sub = <<>>
       \/ printed = <<>> /\ Len(to_sub) = 1 /\ IsFirst(to_sub[1])
       \/ to_sub = <<>> /\ Len(printed) = 1 /\ IsFirst(printed[1])

(* What the subscriber counts, and that without an interrupt it ends only at the   *)
(* end of the pipe.                                                                *)
Counted ==
    /\ NotCounted
    /\ count # NoCount => count = Len(printed) /\ interrupts > 0
    /\ ~running => interrupts > 0
    /\ sub_at \in {"closing", "ended"} /\ interrupts = 0 => to_sub = <<>> /\ HungUp
    /\ sub_at \in {"interrupted", "killed"} => interrupts > 0

(* Both hold at the start. *)
LEMMA GivenInit == Init => Given /\ Counted
  BY DEF Init, Given, Counted, NotCounted, NoCount

(* A step keeps what the subscriber is given. *)
LEMMA GivenStep == TypeOK /\ MessagesHeld /\ Given /\ [Next]_vars => Given'
<1> SUFFICES ASSUME TypeOK, MessagesHeld, Given, [Next]_vars PROVE Given'
  OBVIOUS
<1>1. /\ sent \in Seq(Seq(Bytes)) /\ printed \in Seq(Seq(Bytes)) /\ to_sub \in Seq(Seq(Bytes))
  BY DEF TypeOK, PublisherTyped, SessionTyped, SubscriberTyped
<1>2. sent # <<>> => sent' # <<>> /\ sent'[1] = sent[1]
  <2>1. CASE SendMessage
    <3>1. String(buffer) \in Seq(Bytes) /\ sent' = Append(sent, String(buffer))
      BY <2>1, StringType DEF SendMessage
    <3>2. Len(sent') = Len(sent) + 1 /\ \A k \in 1 .. Len(sent) : sent'[k] = sent[k]
      BY <1>1, <3>1, AppendProperties
    <3>3. sent # <<>> => 1 \in 1 .. Len(sent)
      BY <1>1
    <3>4. sent' # <<>>
      BY <1>1, <3>1, AppendProperties
    <3> QED
      BY <3>2, <3>3, <3>4
  <2>2. CASE GetChar \/ SendFails \/ PubDestroy \/ UNCHANGED publisher
    BY <2>2 DEF GetChar, SendFails, PubDestroy, publisher
  <2> QED
    BY <2>1, <2>2, PublisherAlone
<1>3. \A m : IsFirst(m) => IsFirst(m)'
  BY <1>2 DEF IsFirst
<1>4. CASE UNCHANGED <<sub_session, printed, to_sub>>
  BY <1>3, <1>4 DEF Given
<1>5. CASE GetChar \/ PublisherStep \/ Interrupt \/ UNCHANGED vars
  BY <1>4, <1>5 DEF GetChar, PublisherStep, SendMessage, SendFails, PubDestroy, Interrupt, vars,
                    session, subscriber
<1>6. CASE StoreMessage \/ PublisherLeft \/ BrokerDies
  BY <1>4, <1>6 DEF StoreMessage, PublisherLeft, BrokerDies, subscriber
<1>7. CASE OpenBox
  BY <1>3, <1>7 DEF OpenBox, Given, subscriber
<1>8. CASE WriteMessage
  <2>1. printed = <<>> /\ to_sub = <<>> /\ printed' = printed
    BY <1>8 DEF WriteMessage, Given, subscriber
  <2>2. FirstInBox \in Seq(Bytes) /\ IsFirst(FirstInBox)
    BY FirstInBoxIs DEF IsFirst
  <2>3. IsFirst(FirstInBox)'
    BY <1>2, <1>8, <2>2 DEF WriteMessage, IsFirst, FirstInBox, String, Strlen, publisher
  <2>4. CASE SubOver
    BY <1>8, <2>1, <2>4 DEF WriteMessage, Given
  <2>5. CASE ~SubOver
    <3>1. to_sub' = Append(to_sub, FirstInBox) /\ sub_session' = "over"
      BY <1>8, <2>5 DEF WriteMessage, AfterWrite
    <3>2. Len(to_sub') = 1 /\ to_sub'[1] = FirstInBox
      BY <2>1, <2>2, <3>1
    <3>3. sent' = sent
      BY <1>8 DEF WriteMessage, publisher
    <3> QED
      BY <2>1, <2>2, <3>1, <3>2, <3>3 DEF Given, IsFirst
  <2> QED
    BY <2>4, <2>5
<1>9. CASE ReadMessage
  <2>1. /\ to_sub # <<>> /\ to_sub' = Tail(to_sub) /\ printed' = Append(printed, to_sub[1])
        /\ UNCHANGED <<sub_session, sent>>
    BY <1>1, <1>9 DEF ReadMessage, publisher
  <2>2. printed = <<>> /\ Len(to_sub) = 1 /\ IsFirst(to_sub[1]) /\ sub_session = "over"
    BY <2>1 DEF Given
  <2>3. to_sub' = <<>> /\ Len(printed') = 1 /\ printed'[1] = to_sub[1]
    <3>1. to_sub' \in Seq(Seq(Bytes)) /\ Len(to_sub') = 0
      BY <1>1, <2>1, <2>2, HeadTailProperties
    <3>2. to_sub' = <<>>
      BY <3>1, EmptySeq
    <3>3. to_sub[1] \in Seq(Bytes)
      <4>1. 1 \in 1 .. Len(to_sub)
        BY <2>2
      <4> QED
        BY <1>1, <4>1, ElementOfSeq
    <3>4. printed' = Append(<<>>, to_sub[1])
      BY <2>1, <2>2
    <3> QED
      BY <3>2, <3>3, <3>4
  <2> QED
    BY <2>1, <2>2, <2>3 DEF Given, IsFirst
<1>10. CASE InstallHandler \/ TestRunning \/ CallRead \/ ReadNothing \/ SubDestroy \/ GiveUp
  BY <1>4, <1>10 DEF InstallHandler, TestRunning, CallRead, ReadNothing, SubDestroy, GiveUp, session
<1> QED
  BY <1>5, <1>6, <1>7, <1>8, <1>9, <1>10 DEF Next, BrokerStep, SubscriberStep

(* A step keeps the count. *)
LEMMA CountedStep == TypeOK /\ Counted /\ [Next]_vars => Counted'
<1> SUFFICES ASSUME TypeOK, Counted, [Next]_vars PROVE Counted'
  OBVIOUS
<1>1. interrupts \in Nat
  BY ClientsAssumption DEF TypeOK, PublisherTyped, SessionTyped, SubscriberTyped
<1>2. NotCounted'
  BY SubscriberKeeps DEF Counted
<1>3. CASE GetChar \/ PublisherStep \/ UNCHANGED vars
  BY <1>2, <1>3 DEF GetChar, PublisherStep, SendMessage, SendFails, PubDestroy, vars, session,
                    subscriber, Counted, HungUp
<1>4. CASE StoreMessage \/ PublisherLeft \/ OpenBox \/ BrokerDies
  BY <1>2, <1>4 DEF StoreMessage, PublisherLeft, OpenBox, BrokerDies, subscriber, Counted, HungUp
<1>5. CASE WriteMessage
  BY <1>2, <1>5 DEF WriteMessage, AfterWrite, subscriber, Counted, HungUp
<1>6. CASE InstallHandler \/ CallRead \/ SubDestroy \/ GiveUp
  BY <1>2, <1>6 DEF InstallHandler, CallRead, SubDestroy, GiveUp, SubGo, AfterError, session,
                    Counted, HungUp
<1>7. CASE TestRunning
  BY <1>1, <1>2, <1>7 DEF TestRunning, SubGo, session, Counted, NotCounted, HungUp
<1>8. CASE ReadMessage
  BY <1>2, <1>8 DEF ReadMessage, SubGo, Counted, NotCounted
<1>9. CASE ReadNothing
  BY <1>2, <1>9 DEF ReadNothing, SubGo, EndOfPipe, session, Counted, HungUp
<1>10. CASE Interrupt
  BY <1>1, <1>2, <1>10 DEF Interrupt, SubOver, session, Counted, HungUp
<1> QED
  BY <1>3, <1>4, <1>5, <1>6, <1>7, <1>8, <1>9, <1>10 DEF Next, BrokerStep, SubscriberStep

(* OneMessage: of all that a publisher sends, a subscriber is given the first      *)
(* message or nothing, for every MESSAGE_SIZE and BLOCK_SIZE and every order of    *)
(* stores, truncation, read and signals.                                           *)
THEOREM OnlyOneArrives == Spec => []OneMessage
<1>1. TypeOK /\ Given /\ Counted => OneMessage
  <2> SUFFICES ASSUME TypeOK, Given, Counted PROVE OneMessage
    OBVIOUS
  <2>1. printed \in Seq(Seq(Bytes)) /\ to_sub \in Seq(Seq(Bytes))
    BY DEF TypeOK, PublisherTyped, SessionTyped, SubscriberTyped
  <2> DEFINE got == printed \o to_sub
  <2>2. got = <<>> \/ (Len(got) = 1 /\ IsFirst(got[1]))
    <3>1. CASE printed = <<>> /\ to_sub = <<>>
      BY <2>1, <3>1
    <3>2. CASE printed = <<>> /\ Len(to_sub) = 1 /\ IsFirst(to_sub[1])
      <4>1. Len(got) = 1 /\ got[1] = to_sub[1]
        BY <2>1, <3>2
      <4> QED
        BY <3>2, <4>1
    <3>3. CASE to_sub = <<>> /\ Len(printed) = 1 /\ IsFirst(printed[1])
      <4>1. Len(got) = 1 /\ got[1] = printed[1]
        BY <2>1, <3>3
      <4> QED
        BY <3>3, <4>1
    <3> QED
      BY <3>1, <3>2, <3>3 DEF Given
  <2>3. Len(got) \in {0, 1} /\ \A k \in 1 .. Len(got) : IsFirst(got[k])
    BY <2>2
  <2>4. SubOver /\ interrupts = 0 => to_sub = <<>> /\ HungUp
    BY DEF SubOver, Counted, TypeOK, PublisherTyped
  <2> QED
    BY <2>3, <2>4 DEF OneMessage, IsFirst, Counted
<1>2. TypeOK /\ MessagesHeld /\ Given /\ Counted /\ [Next]_vars => Given' /\ Counted'
  BY GivenStep, CountedStep
<1> QED
  BY <1>1, <1>2, GivenInit, MessagesKept, PTL DEF Spec

================================================================================
