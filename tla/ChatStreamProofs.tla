--------------------------- MODULE ChatStreamProofs ---------------------------
(* Proofs about ChatStream: its invariants, for completions of any length  *)
(* and connections of any capacity, and that it implements ChatDelivery.   *)
EXTENDS ChatStream, TLAPS

-----------------------------------------------------------------------------
(* The inductive invariant.  What is on the connection follows from where  *)
(* the handler is: nothing before its loop, only chunks inside it, and all *)
(* of them chunks it has taken.                                            *)
Handling ==
    /\ client = "idle" =>
          pc = "idle" /\ provider = "none" /\ produced = 0 /\ written = <<>>
    /\ pc \in {"create", "whole"} => written = <<>>
    /\ pc = "create" => provider = "none" /\ produced = 0
    /\ pc = "next" =>
          /\ Len(written) = taken
          /\ \A i \in DOMAIN written : written[i].type = "chunk"
    /\ \A i \in DOMAIN written : written[i].type = "chunk" => i <= taken

Inv == TypeOK /\ StreamsAreWellFormed /\ DoneMeansAll /\ EndIsTold /\ Handling

(* A connection before anything is written to it.                          *)
LEMMA FreshConnection ==
    /\ <<>> \in Seq(Event) /\ Len(<<>>) = 0
    /\ 0 \in 0..0 /\ 0 - 0 <= Buffer /\ 0 \in 0..MaxChunks
  BY StreamAssumption

LEMMA InvInit == Init => Inv
<1> SUFFICES ASSUME Init PROVE Inv
  OBVIOUS
<1>1. TypeOK
  BY FreshConnection DEF Init, TypeOK
<1>2. StreamsAreWellFormed /\ DoneMeansAll /\ EndIsTold /\ Handling
  BY DEF Init, StreamsAreWellFormed, DoneMeansAll, EndIsTold, Handling
<1> QED
  BY <1>1, <1>2 DEF Inv

(* An event at the end of the connection.                                  *)
LEMMA WriteExtends ==
    ASSUME Inv, NEW e \in Event, Write(e)
    PROVE  /\ written' \in Seq(Event) /\ Len(written') = Len(written) + 1
           /\ read' \in 0..Len(written') /\ Len(written') - read' <= Buffer
           /\ written'[Len(written')] = e
           /\ \A i \in DOMAIN written : i \in DOMAIN written' /\ written'[i] = written[i]
           /\ \A i \in DOMAIN written' : i \in DOMAIN written \/ i = Len(written')
  BY StreamAssumption DEF Inv, TypeOK, Write

LEMMA EndIsEvent ==
    ASSUME NEW type \in {"done", "error", "message"}
    PROVE  End(type) \in Event /\ End(type).type = type
  BY StreamAssumption DEF End, Event

(* An end is written after the chunks that were taken, and ends the        *)
(* handler.                                                                *)
LEMMA WriteLastKeepsInv ==
    ASSUME Inv, NEW type \in {"done", "error", "message"}, WriteLast(type),
           pc # "idle",
           type = "done" => pc = "next" /\ taken = produced /\ provider = "finished",
           type = "message" => provider = "finished"
    PROVE  Inv'
<1> DEFINE e == End(type)
<1>1. e \in Event /\ e.type = type
  BY EndIsEvent
<1>2. Write(e) /\ pc' = "idle" /\ UNCHANGED <<client, stream, provider, produced, taken>>
  BY DEF WriteLast
<1> HIDE DEF e
<1>3. /\ written' \in Seq(Event) /\ Len(written') = Len(written) + 1
      /\ read' \in 0..Len(written') /\ Len(written') - read' <= Buffer
      /\ written'[Len(written')] = e
      /\ \A i \in DOMAIN written : i \in DOMAIN written' /\ written'[i] = written[i]
      /\ \A i \in DOMAIN written' : i \in DOMAIN written \/ i = Len(written')
  BY <1>1, <1>2, WriteExtends
<1>4. \A i \in DOMAIN written : written[i].type = "chunk"
  BY DEF Inv, TypeOK, Handling
<1>5. TypeOK'
  BY <1>2, <1>3 DEF Inv, TypeOK
<1>6. StreamsAreWellFormed'
  BY <1>1, <1>3, <1>4 DEF Inv, StreamsAreWellFormed
<1>7. DoneMeansAll'
  BY <1>1, <1>2, <1>3, <1>4 DEF Inv, TypeOK, Handling, DoneMeansAll
<1>8. EndIsTold'
  BY <1>1, <1>3 DEF Inv, TypeOK, EndIsTold
<1>9. Handling'
  BY <1>1, <1>2, <1>3, <1>4 DEF Inv, TypeOK, Handling
<1> QED
  BY <1>5, <1>6, <1>7, <1>8, <1>9 DEF Inv

LEMMA InvStep == Inv /\ [Next]_vars => Inv'
<1> SUFFICES ASSUME Inv, [Next]_vars PROVE Inv'
  OBVIOUS
<1> USE DEF Inv
<1>1. CASE Ask
  BY <1>1 DEF Ask, TypeOK, StreamsAreWellFormed, DoneMeansAll, EndIsTold, Handling
<1>2. CASE Refuse
  <2>1. End("error") \in Event /\ End("error").type = "error"
    BY EndIsEvent
  <2>2. written = <<>> /\ pc = "idle" /\ provider = "none" /\ produced = 0
    BY <1>2 DEF Refuse, Handling
  <2>3. /\ written' \in Seq(Event) /\ Len(written') = 1 /\ written'[1] = End("error")
        /\ read' \in 0..1 /\ 1 - read' <= Buffer /\ DOMAIN written' = {1}
    BY <1>2, <2>1, <2>2, StreamAssumption DEF Refuse, Write, TypeOK
  <2>4. TypeOK'
    BY <1>2, <2>3 DEF Refuse, TypeOK
  <2>5. \A i \in DOMAIN written' : i = 1 /\ written'[i].type = "error"
    BY <2>1, <2>3
  <2>6. StreamsAreWellFormed' /\ DoneMeansAll'
    BY <2>3, <2>5 DEF StreamsAreWellFormed, DoneMeansAll
  <2>7. EndIsTold'
    <3>1. written' # <<>>
      <4>1. 1 \in DOMAIN written'
        BY <2>3
      <4> QED
        BY <4>1
    <3>2. written'[Len(written')].type # "chunk"
      BY <2>1, <2>3
    <3> QED
      BY <3>1, <3>2 DEF EndIsTold
  <2>8. Handling'
    BY <1>2, <2>2, <2>5 DEF Refuse, Handling
  <2> QED
    BY <2>4, <2>6, <2>7, <2>8
<1>3. CASE CreateFails
  BY <1>3, WriteLastKeepsInv DEF CreateFails
<1>4. CASE Created
  <2>1. TypeOK'
    BY <1>4 DEF Created, TypeOK
  <2>2. written = <<>> /\ produced \in Nat /\ taken \in 0..produced /\ client # "idle"
    BY <1>4 DEF Created, Handling, TypeOK
  <2>3. pc' \in {"next", "whole"}
    BY <1>4 DEF Created
  <2>4. Len(written) = taken
    BY <1>4, <2>2, FreshConnection DEF Created, Handling
  <2> QED
    BY <1>4, <2>1, <2>2, <2>3, <2>4
       DEF Created, StreamsAreWellFormed, DoneMeansAll, EndIsTold, Handling
<1>5. CASE YieldChunk
  <2> DEFINE e == Chunk(taken + 1)
  <2>1. taken + 1 \in 1..MaxChunks /\ taken + 1 <= produced
    BY <1>5, StreamAssumption DEF YieldChunk, TypeOK
  <2>2. e \in Event /\ e.type = "chunk" /\ e.chunk = taken + 1
    BY <2>1, StreamAssumption DEF Chunk, Event
  <2>3. Write(e) /\ pc = "next" /\ taken' = taken + 1
        /\ UNCHANGED <<client, pc, stream, provider, produced>>
    BY <1>5 DEF YieldChunk
  <2> HIDE DEF e
  <2>4. /\ written' \in Seq(Event) /\ Len(written') = Len(written) + 1
        /\ read' \in 0..Len(written') /\ Len(written') - read' <= Buffer
        /\ written'[Len(written')] = e
        /\ \A i \in DOMAIN written : i \in DOMAIN written' /\ written'[i] = written[i]
        /\ \A i \in DOMAIN written' : i \in DOMAIN written \/ i = Len(written')
    BY <2>2, <2>3, WriteExtends
  <2>5. /\ Len(written) = taken /\ taken \in Nat /\ client # "idle"
        /\ \A i \in DOMAIN written : written[i].type = "chunk"
    BY <2>3 DEF Handling, TypeOK
  <2>6. TypeOK'
    BY <2>1, <2>3, <2>4 DEF TypeOK
  <2>7. \A i \in DOMAIN written' : written'[i].type = "chunk" /\ written'[i].chunk = i
    BY <2>2, <2>4, <2>5 DEF StreamsAreWellFormed
  <2>8. StreamsAreWellFormed' /\ DoneMeansAll' /\ EndIsTold'
    BY <2>3, <2>7 DEF StreamsAreWellFormed, DoneMeansAll, EndIsTold
  <2>9. \A i \in DOMAIN written' : i <= taken'
    BY <2>3, <2>4, <2>5
  <2> QED
    BY <2>3, <2>4, <2>5, <2>6, <2>7, <2>8, <2>9 DEF Handling
<1>6. CASE YieldDone
  BY <1>6, WriteLastKeepsInv DEF YieldDone
<1>7. CASE YieldError
  BY <1>7, WriteLastKeepsInv DEF YieldError
<1>8. CASE AnswerWhole
  BY <1>8, WriteLastKeepsInv DEF AnswerWhole
<1>9. CASE AnswerError
  BY <1>9, WriteLastKeepsInv DEF AnswerError
<1>10. CASE Close
  BY <1>10 DEF Close, TypeOK, StreamsAreWellFormed, DoneMeansAll, EndIsTold, Handling
<1>11. CASE Provide
  <2>1. /\ pc \in {"next", "whole"} /\ client # "idle"
        /\ UNCHANGED <<client, pc, stream, taken, written, read>>
        /\ \A i \in DOMAIN written : written[i].type = "chunk"
    BY <1>11 DEF Provide, Handling
  <2>2. TypeOK'
    BY <1>11, StreamAssumption DEF Provide, TypeOK
  <2> QED
    BY <2>1, <2>2 DEF StreamsAreWellFormed, DoneMeansAll, EndIsTold, Handling
<1>12. CASE Read
  <2>1. TypeOK'
    BY <1>12, StreamAssumption DEF Read, TypeOK
  <2>2. UNCHANGED <<client, pc, stream, provider, produced, taken, written>>
    BY <1>12 DEF Read
  <2> QED
    BY <2>1, <2>2 DEF StreamsAreWellFormed, DoneMeansAll, EndIsTold, Handling
<1>13. CASE GoAway
  BY <1>13 DEF GoAway, TypeOK, StreamsAreWellFormed, DoneMeansAll, EndIsTold, Handling
<1>14. CASE Again
  <2>1. TypeOK'
    BY <1>14, FreshConnection DEF Again, TypeOK
  <2> QED
    BY <1>14, <2>1 DEF Again, Closed, StreamsAreWellFormed, DoneMeansAll, EndIsTold, Handling
<1>15. CASE UNCHANGED vars
  BY <1>15 DEF vars, TypeOK, StreamsAreWellFormed, DoneMeansAll, EndIsTold, Handling
<1> QED
  BY <1>1, <1>2, <1>3, <1>4, <1>5, <1>6, <1>7, <1>8, <1>9, <1>10, <1>11, <1>12,
     <1>13, <1>14, <1>15 DEF Next, Serve

LEMMA InvHolds == Spec => []Inv
  BY InvInit, InvStep, PTL DEF Spec

(* Every reachable state is well typed; a connection never holds more than *)
(* its capacity.                                                           *)
THEOREM TypeCorrect == Spec => []TypeOK
<1>1. Inv => TypeOK
  BY DEF Inv
<1> QED
  BY <1>1, InvHolds, PTL

(* What is written for a request is the provider's chunks in their order   *)
(* and at most one end.                                                    *)
THEOREM StreamsHold == Spec => []StreamsAreWellFormed
<1>1. Inv => StreamsAreWellFormed
  BY DEF Inv
<1> QED
  BY <1>1, InvHolds, PTL

(* [DONE] and a message mean that the client is sent all of a completion.  *)
THEOREM DoneHolds == Spec => []DoneMeansAll
<1>1. Inv => DoneMeansAll
  BY DEF Inv
<1> QED
  BY <1>1, InvHolds, PTL

(* No handler ends without an end event for a client that stays.           *)
THEOREM EndHolds == Spec => []EndIsTold
<1>1. Inv => EndIsTold
  BY DEF Inv
<1> QED
  BY <1>1, InvHolds, PTL

-----------------------------------------------------------------------------
(* The refinement.  Most of the handler's steps write behind the client's  *)
(* position and change nothing it can see.                                 *)

LEMMA DeliveryInit == Init => Delivery!Init
  BY DEF Init, Delivery!Init, Phase, Has, Told

\* A step that leaves the client's part of the connection as it is.
LEMMA UnseenStutters ==
    ASSUME Inv, client' = client, produced' = produced, read' = read,
           provider' = provider \/ (provider' = "streaming" /\ provider = "none"),
           \A i \in DOMAIN written : written'[i] = written[i]
    PROVE  UNCHANGED Delivery!vars
<1>1. Told' = Told /\ (Told => written'[read] = written[read])
  BY DEF Inv, TypeOK, Told
<1>2. Phase' = Phase /\ Has' = Has
  BY <1>1 DEF Phase, Has
<1> QED
  BY <1>2 DEF Delivery!vars

LEMMA WriteIsUnseen ==
    ASSUME Inv, NEW e \in Event, Write(e), UNCHANGED <<client, provider, produced>>
    PROVE  UNCHANGED Delivery!vars
<1>1. \A i \in DOMAIN written : written'[i] = written[i]
  BY WriteExtends
<1>2. client' = client /\ produced' = produced /\ read' = read /\ provider' = provider
  BY DEF Write
<1> QED
  BY <1>1, <1>2, UnseenStutters

LEMMA WriteLastIsUnseen ==
    ASSUME Inv, NEW type \in {"done", "error", "message"}, WriteLast(type)
    PROVE  UNCHANGED Delivery!vars
  BY EndIsEvent, WriteIsUnseen DEF WriteLast

LEMMA DeliveryStep == Inv /\ [Next]_vars => [Delivery!Next]_(Delivery!vars)
<1> SUFFICES ASSUME Inv, [Next]_vars PROVE Delivery!Next \/ UNCHANGED Delivery!vars
  OBVIOUS
<1>1. CASE Ask \/ Refuse
  <2>1. read = 0 /\ read' = 0
    BY <1>1, FreshConnection DEF Ask, Refuse, Write, Inv, TypeOK, Handling
  <2>2. ~Told /\ ~Told'
    BY <2>1 DEF Told
  <2> QED
    BY <1>1, <2>1, <2>2 DEF Ask, Refuse, Phase, Has, Delivery!Next, Delivery!Ask
<1>2. CASE CreateFails \/ YieldDone \/ YieldError \/ AnswerWhole \/ AnswerError
  BY <1>2, WriteLastIsUnseen DEF CreateFails, YieldDone, YieldError, AnswerWhole, AnswerError
<1>3. CASE Created \/ Close
  <2>1. client' = client /\ produced' = produced /\ read' = read /\ written' = written
    BY <1>3 DEF Created, Close
  <2>2. provider' = provider \/ (provider' = "streaming" /\ provider = "none")
    BY <1>3 DEF Created, Close, Inv, Handling
  <2> QED
    BY <2>1, <2>2, UnseenStutters
<1>4. CASE YieldChunk
  <2>1. Chunk(taken + 1) \in Event
    BY <1>4, StreamAssumption DEF YieldChunk, Inv, TypeOK, Chunk, Event
  <2> QED
    BY <1>4, <2>1, WriteIsUnseen DEF YieldChunk
<1>5. CASE Provide
  <2>1. client # "idle" /\ \A i \in DOMAIN written : written[i].type = "chunk"
    BY <1>5 DEF Provide, Inv, Handling
  <2>2. ~Told /\ ~Told'
    BY <1>5, <2>1 DEF Provide, Inv, TypeOK, Told
  <2>3. Phase \in {"open", "cut"} /\ Phase' = Phase /\ Has' = Has
    BY <1>5, <2>1, <2>2 DEF Provide, Inv, TypeOK, Phase, Has
  <2> QED
    BY <1>5, <2>3 DEF Provide, Delivery!Next, Delivery!Grow, Delivery!vars
<1>6. CASE Read
  <2> DEFINE n == read + 1
  <2>1. /\ n \in DOMAIN written /\ read' = n /\ read \in Nat
        /\ client = "reading" /\ written \in Seq(Event)
        /\ UNCHANGED <<client, provider, produced, written>>
    BY <1>6 DEF Read, Inv, TypeOK
  <2>2. ~Told
    BY <1>6, <2>1 DEF Read, Told, Inv, TypeOK, StreamsAreWellFormed
  <2>3. Phase = "open" /\ Has = read
    BY <2>1, <2>2 DEF Phase, Has
  <2>4. Told' <=> written[n].type # "chunk"
    BY <2>1 DEF Told
  <2>5. CASE written[n].type = "chunk"
    <3>1. Phase' = "open" /\ Has' = n
      BY <2>1, <2>4, <2>5 DEF Phase, Has
    <3>2. read < produced
      BY <2>1, <2>5 DEF Inv, TypeOK, Handling
    <3> QED
      BY <2>1, <2>3, <3>1, <3>2 DEF Delivery!Next, Delivery!Deliver
  <2>6. CASE written[n].type = "error"
    <3>1. Phase' = "cut" /\ Has' = read
      BY <2>1, <2>4, <2>6 DEF Phase, Has
    <3> QED
      BY <2>1, <2>3, <3>1 DEF Delivery!Next, Delivery!Cut
  <2>7. CASE written[n].type \in {"done", "message"}
    <3>1. provider = "finished" /\ (written[n].type = "done" => n = produced + 1)
      BY <2>1, <2>7 DEF Inv, DoneMeansAll
    <3>2. Phase' = "whole" /\ Has' = produced
      BY <2>1, <2>4, <2>7, <3>1 DEF Phase, Has, Inv, TypeOK
    <3> QED
      BY <2>1, <2>3, <3>1, <3>2 DEF Delivery!Next, Delivery!Complete
  <2>8. written[n] \in Event
    BY <2>1
  <2>9. written[n].type \in {"chunk", "done", "error", "message"}
    BY <2>8 DEF Event
  <2> QED
    BY <2>5, <2>6, <2>7, <2>9
<1>7. CASE GoAway
  <2>1. ~Told /\ ~Told'
    BY <1>7 DEF GoAway, Told
  <2> QED
    BY <1>7, <2>1 DEF GoAway, Phase, Has, Delivery!Next, Delivery!Cut
<1>8. CASE Again
  <2>1. client = "gone" \/ (client = "reading" /\ Told)
    <3>1. pc = "idle" /\ client \in {"reading", "gone"}
      BY <1>8 DEF Again, Closed, Inv, TypeOK
    <3>2. CASE client = "reading"
      <4>1. /\ read = Len(written) /\ written \in Seq(Event) /\ written # <<>>
            /\ written[Len(written)].type # "chunk"
        BY <1>8, <3>1, <3>2 DEF Again, Closed, Inv, TypeOK, EndIsTold
      <4>2. Len(written) > 0
        BY <4>1
      <4> QED
        BY <3>2, <4>1, <4>2 DEF Told
    <3> QED
      BY <3>1, <3>2
  <2>2. Phase \in {"cut", "whole"}
    BY <2>1 DEF Phase
  <2>3. ~Told' /\ Phase' = "idle" /\ Has' = 0
    BY <1>8 DEF Again, Told, Phase, Has
  <2> QED
    BY <1>8, <2>2, <2>3 DEF Again, Delivery!Next, Delivery!Leave
<1>9. CASE UNCHANGED vars
  <2>1. /\ client' = client /\ produced' = produced /\ read' = read
        /\ written' = written /\ provider' = provider
    BY <1>9 DEF vars
  <2> QED
    BY <2>1, UnseenStutters
<1> QED
  BY <1>1, <1>2, <1>3, <1>4, <1>5, <1>6, <1>7, <1>8, <1>9 DEF Next, Serve

(* The endpoint implements the delivery, for completions of any length and *)
(* connections of any capacity.                                            *)
THEOREM Implements == Spec => ImplementsDelivery
  BY DeliveryInit, DeliveryStep, InvHolds, PTL DEF Spec, ImplementsDelivery, Delivery!Spec
=============================================================================
