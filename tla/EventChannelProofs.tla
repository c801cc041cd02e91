------------------------- MODULE EventChannelProofs -------------------------
(***************************************************************************)
(* The byte budget of the bounded event channel, for every finite set of   *)
(* emitters, all payloads, limits and capacities: IInv of module           *)
(* EventChannel is inductive and implies BudgetExact.                      *)
(***************************************************************************)
EXTENDS EventChannel, FiniteSetTheorems, FunctionTheorems, SequenceTheorems,
        TLAPS

USE LimitsAssumption

(***************************************************************************)
(* Counting bytes                                                          *)
(***************************************************************************)

\* The bytes of one event.
LEMMA EventBytes ==
  ASSUME NEW x, NEW n \in Nat
  PROVE  /\ IsFiniteSet({x} \X (1..n))
         /\ Cardinality({x} \X (1..n)) = n
<1>1. IsFiniteSet({x}) /\ Cardinality({x}) = 1
  BY FS_Singleton
<1>2. IsFiniteSet(1..n) /\ Cardinality(1..n) = n
  BY FS_Interval
<1> DEFINE A == {x}
           B == 1..n
<1> HIDE DEF A, B
<1>3. IsFiniteSet(A) /\ IsFiniteSet(B)
  BY <1>1, <1>2 DEF A, B
<1>4. IsFiniteSet(A \X B) /\ Cardinality(A \X B) = Cardinality(A) * Cardinality(B)
  BY <1>3, FS_Product
<1>5. Cardinality(A) * Cardinality(B) = n
  BY <1>1, <1>2 DEF A, B
<1>6. QED
  BY <1>4, <1>5 DEF A, B

\* Bytes that are added to, or removed from, those of other events.
LEMMA BytesAdded ==
  ASSUME NEW S, IsFiniteSet(S), NEW x, NEW n \in Nat,
         \A b \in 1..n : <<x, b>> \notin S
  PROVE  /\ IsFiniteSet(S \cup ({x} \X (1..n)))
         /\ Cardinality(S \cup ({x} \X (1..n))) = Cardinality(S) + n
<1>1. S \cap ({x} \X (1..n)) = {}
  OBVIOUS
<1>2. Cardinality(S \cap ({x} \X (1..n))) = 0 /\ Cardinality(S) \in Nat
  BY <1>1, FS_EmptySet, FS_CardinalityType
<1> DEFINE T == {x} \X (1..n)
<1>3. IsFiniteSet(T) /\ Cardinality(T) = n
  BY EventBytes
<1>4. Cardinality(S \cap T) = 0
  BY <1>2
<1> HIDE DEF T
<1>5. IsFiniteSet(S \cup T) /\ Cardinality(S \cup T) = Cardinality(S) + n
  <2>1. /\ IsFiniteSet(S \cup T)
        /\ Cardinality(S \cup T)
             = Cardinality(S) + Cardinality(T) - Cardinality(S \cap T)
    BY <1>3, FS_Union
  <2>2. QED
    BY <1>2, <1>3, <1>4, <2>1
<1>6. QED
  BY <1>5 DEF T

\* Which bytes are in the channel and which are reserved.
LEMMA Members ==
  /\ \A x : x \in RetainedBytes <=>
       \E i \in DOMAIN channel, b \in Nat \ {0} :
            b <= channel[i] /\ x = <<i, b>>
  /\ \A x : x \in ReservedBytes <=>
       \E e \in Emitters, b \in Nat \ {0} :
            b <= Reserved(e) /\ x = <<e, b>>
BY DEF RetainedBytes, ReservedBytes

\* The channel is a sequence of sizes, and sizes are natural numbers.
LEMMA Shapes ==
  ASSUME TypeOK
  PROVE  /\ DOMAIN channel = 1..Len(channel) /\ Len(channel) \in Nat
         /\ \A i \in DOMAIN channel : channel[i] \in Nat
         /\ \A e \in Emitters : emitter[e].bytes \in Nat
         /\ receiver.bytes \in Nat
<1>1. channel \in Seq(Sizes) /\ Sizes \subseteq Nat
  BY DEF TypeOK
<1>2. DOMAIN channel = 1..Len(channel) /\ Len(channel) \in Nat
  BY <1>1
<1>3. \A i \in DOMAIN channel : channel[i] \in Nat
  BY <1>1, <1>2, ElementOfSeq
<1>4. /\ \A e \in Emitters : emitter[e].bytes \in Sizes \cup {0}
      /\ receiver.bytes \in Sizes \cup {0}
  BY DEF TypeOK
<1>5. \A n \in Sizes \cup {0} : n \in Nat
  BY <1>1
<1>6. receiver.bytes \in Nat /\ \A e \in Emitters : emitter[e].bytes \in Nat
  BY <1>4, <1>5
<1>7. QED
  BY <1>2, <1>3, <1>6

\* Both sets are finite.
LEMMA BytesFinite ==
  ASSUME TypeOK, WithinCeiling
  PROVE  /\ IsFiniteSet(RetainedBytes) /\ Cardinality(RetainedBytes) \in Nat
         /\ IsFiniteSet(ReservedBytes) /\ Cardinality(ReservedBytes) \in Nat
<1> DEFINE M == 1..max_event_bytes
           D == DOMAIN channel
<1>1. /\ D = 1..Len(channel) /\ Len(channel) \in Nat
      /\ \A i \in D : channel[i] \in Nat
  BY Shapes DEF TypeOK
<1>2. IsFiniteSet(M) /\ IsFiniteSet(D)
  BY <1>1, FS_Interval
<1>3. IsFiniteSet(D \X M) /\ IsFiniteSet(Emitters \X M)
  BY <1>2, FS_Product
<1>4. RetainedBytes \subseteq D \X M
  BY <1>1, Members DEF WithinCeiling
<1>5. ReservedBytes \subseteq Emitters \X M
  <2>1. \A e \in Emitters : Reserved(e) \in Nat /\ Reserved(e) <= max_event_bytes
    BY Shapes DEF Reserved, WithinCeiling
  <2>2. QED
    BY <2>1, Members
<1> HIDE DEF M, D
<1>6. QED
  BY <1>3, <1>4, <1>5, FS_Subset, FS_CardinalityType

\* An emitter that reserves or gives back its bytes.
LEMMA ReservationChanges ==
  ASSUME TypeOK, TypeOK', WithinCeiling, WithinCeiling', NEW e \in Emitters,
         \A f \in Emitters \ {e} : emitter'[f] = emitter[f]
  PROVE  /\ Cardinality(ReservedBytes') \in Nat
         /\ Reserved(e) \in Nat /\ Reserved(e)' \in Nat
         /\ Cardinality(ReservedBytes') + Reserved(e)
              = Cardinality(ReservedBytes) + Reserved(e)'
<1> DEFINE Others == ReservedBytes \ ({e} \X (1..Reserved(e)))
<1>1. /\ IsFiniteSet(ReservedBytes) /\ Cardinality(ReservedBytes) \in Nat
  BY BytesFinite
<1>2. IsFiniteSet(Others)
  BY <1>1, FS_Subset
<1>3. Reserved(e) \in Nat /\ Reserved(e)' \in Nat
  <2>1. emitter[e].bytes \in Nat /\ emitter'[e].bytes \in Nat
    <3>1. emitter'[e].bytes \in Sizes \cup {0}
      BY DEF TypeOK
    <3>2. Sizes \subseteq Nat /\ 0 \in Nat
      OBVIOUS
    <3> DEFINE bytes == emitter'[e].bytes
    <3> HIDE DEF bytes
    <3>5. bytes \in Sizes \cup {0}
      BY <3>1 DEF bytes
    <3>6. bytes \in Nat
      BY <3>2, <3>5
    <3>3. emitter'[e].bytes \in Nat
      BY <3>6 DEF bytes
    <3>4. QED
      BY <3>3, Shapes
  <2>2. QED
    BY <2>1 DEF Reserved
<1>4. \A f \in Emitters \ {e} : Reserved(f)' = Reserved(f)
  BY DEF Reserved
<1>5. ReservedBytes = Others \cup ({e} \X (1..Reserved(e)))
  BY Members
<1>6. ReservedBytes' = Others \cup ({e} \X (1..Reserved(e)'))
  <2>1. \A x : x \in Others <=>
          \E f \in Emitters \ {e}, b \in Nat \ {0} :
            b <= Reserved(f) /\ x = <<f, b>>
    BY Members
  <2>2. \A x : x \in ReservedBytes' <=>
          \E f \in Emitters, b \in Nat \ {0} :
            b <= Reserved(f)' /\ x = <<f, b>>
    BY DEF ReservedBytes
  <2> HIDE DEF Others
  <2>3. QED
    BY <1>4, <2>1, <2>2
<1>7. \A b : <<e, b>> \notin Others
  BY Members
<1> HIDE DEF Others
<1>8. Cardinality(ReservedBytes) = Cardinality(Others) + Reserved(e)
  BY <1>2, <1>3, <1>5, <1>7, BytesAdded
<1>9. Cardinality(ReservedBytes') = Cardinality(Others) + Reserved(e)'
  BY <1>2, <1>3, <1>6, <1>7, BytesAdded
<1>10. Cardinality(Others) \in Nat
  BY <1>2, FS_CardinalityType
<1>11. QED
  BY <1>3, <1>8, <1>9, <1>10

\* An event that enters the channel.
LEMMA EventAppended ==
  ASSUME TypeOK, WithinCeiling, NEW n \in Sizes, channel' = Append(channel, n)
  PROVE  /\ n \in Nat
         /\ Cardinality(RetainedBytes') = Cardinality(RetainedBytes) + n
<1> DEFINE k == Len(channel) + 1
<1>1. /\ DOMAIN channel = 1..Len(channel) /\ DOMAIN channel' = 1..k
      /\ Len(channel) \in Nat /\ n \in Nat /\ channel'[k] = n
      /\ \A i \in 1..Len(channel) : channel'[i] = channel[i]
  BY DEF TypeOK
<1>2. RetainedBytes' = RetainedBytes \cup ({k} \X (1..n))
  <2>1. \A x : x \in RetainedBytes' <=>
          \E i \in DOMAIN channel', b \in Nat \ {0} :
            b <= channel'[i] /\ x = <<i, b>>
    BY DEF RetainedBytes
  <2>2. \A i : i \in DOMAIN channel' <=> i \in DOMAIN channel \/ i = k
    BY <1>1
  <2> HIDE DEF k
  <2>3. QED
    BY <1>1, <2>1, <2>2, Members
<1>3. \A b \in 1..n : <<k, b>> \notin RetainedBytes
  BY <1>1, Members
<1> HIDE DEF k
<1>4. QED
  BY <1>1, <1>2, <1>3, BytesAdded, BytesFinite

\* An event that is taken from the channel: the others move up by one place.
LEMMA EventTaken ==
  ASSUME TypeOK, WithinCeiling, channel # <<>>, channel' = Tail(channel)
  PROVE  /\ Cardinality(RetainedBytes') \in Nat /\ Head(channel) \in Nat
         /\ Head(channel) = channel[1]
         /\ Cardinality(RetainedBytes)
              = Cardinality(RetainedBytes') + Head(channel)
<1> DEFINE n == Head(channel)
           Rest == RetainedBytes \ ({1} \X (1..n))
           move == [x \in Rest |-> <<x[1] - 1, x[2]>>]
<1>1. /\ DOMAIN channel = 1..Len(channel) /\ Len(channel) \in Nat \ {0}
      /\ channel[1] = n /\ n \in Nat
      /\ DOMAIN channel' = 1..(Len(channel) - 1)
      /\ \A i \in 1..(Len(channel) - 1) : channel'[i] = channel[i + 1]
  <2>1. channel \in Seq(Sizes) /\ channel # <<>> /\ Sizes \subseteq Nat
    BY DEF TypeOK
  <2>2. /\ Len(channel) \in Nat \ {0} /\ channel[1] = n
        /\ DOMAIN channel = 1..Len(channel)
    BY <2>1
  <2>3. n \in Nat
    BY <2>1, HeadTailProperties
  <2>4. /\ channel' \in Seq(Sizes) /\ Len(channel') = Len(channel) - 1
        /\ \A i \in 1..Len(channel') : channel'[i] = channel[i + 1]
    BY <2>1, HeadTailProperties
  <2>5. DOMAIN channel' = 1..Len(channel')
    BY <2>4
  <2>6. QED
    BY <2>2, <2>3, <2>4, <2>5
<1>2. IsFiniteSet(RetainedBytes)
  BY BytesFinite
<1>3. IsFiniteSet(Rest)
  BY <1>2, FS_Subset
<1>4. RetainedBytes = Rest \cup ({1} \X (1..n))
  BY <1>1, Members
<1>5. \A x : x \in Rest <=>
        \E i \in 2..Len(channel), b \in Nat \ {0} :
            b <= channel[i] /\ x = <<i, b>>
  BY <1>1, Members
<1>6. \A x : x \in RetainedBytes' <=>
        \E i \in DOMAIN channel', b \in Nat \ {0} :
            b <= channel'[i] /\ x = <<i, b>>
  BY DEF RetainedBytes
<1> HIDE DEF n, Rest
<1>7. move \in Bijection(Rest, RetainedBytes')
  <2>1. ASSUME NEW x \in Rest
        PROVE  move[x] \in RetainedBytes'
    <3>1. PICK i \in 2..Len(channel), b \in Nat \ {0} :
            b <= channel[i] /\ x = <<i, b>>
      BY <1>5
    <3>2. move[x] = <<i - 1, b>> /\ i - 1 \in 1..(Len(channel) - 1)
      BY <1>1, <3>1
    <3>3. channel'[i - 1] = channel[i]
      BY <1>1, <3>2
    <3>4. i - 1 \in DOMAIN channel' /\ b <= channel'[i - 1]
      BY <1>1, <3>1, <3>2, <3>3
    <3>5. QED
      BY <1>6, <3>1, <3>2, <3>4
  <2>2. ASSUME NEW x \in Rest, NEW y \in Rest, move[x] = move[y]
        PROVE  x = y
    <3>1. PICK i \in 2..Len(channel), b \in Nat \ {0} :
            b <= channel[i] /\ x = <<i, b>>
      BY <1>5
    <3>2. PICK j \in 2..Len(channel), c \in Nat \ {0} :
            c <= channel[j] /\ y = <<j, c>>
      BY <1>5
    <3>3. QED
      BY <1>1, <2>2, <3>1, <3>2
  <2>3. ASSUME NEW y \in RetainedBytes'
        PROVE  \E x \in Rest : move[x] = y
    <3>1. PICK i \in DOMAIN channel', b \in Nat \ {0} :
            b <= channel'[i] /\ y = <<i, b>>
      BY <1>6
    <3>2. i + 1 \in 2..Len(channel) /\ channel'[i] = channel[i + 1]
      BY <1>1, <3>1
    <3>3. <<i + 1, b>> \in Rest
      BY <1>5, <3>1, <3>2
    <3>4. move[<<i + 1, b>>] = y
      BY <1>1, <3>1, <3>3
    <3>5. QED
      BY <3>3, <3>4
  <2>4. move \in [Rest -> RetainedBytes']
    BY <2>1
  <2> HIDE DEF move
  <2>5. move \in Injection(Rest, RetainedBytes')
    BY <2>2, <2>4, Fun_IsInj
  <2>6. move \in Surjection(Rest, RetainedBytes')
    BY <2>3, <2>4, Fun_IsSurj
  <2>7. QED
    BY <2>5, <2>6 DEF Bijection
<1>8. /\ Cardinality(RetainedBytes') = Cardinality(Rest)
      /\ Cardinality(Rest) \in Nat
  BY <1>3, <1>7, FS_Bijection, FS_CardinalityType DEF ExistsBijection
<1>9. \A b \in 1..n : <<1, b>> \notin Rest
  BY <1>1, <1>5
<1>10. Cardinality(RetainedBytes) = Cardinality(Rest) + n
  <2>1. n \in Nat
    BY <1>1
  <2>2. Cardinality(Rest \cup ({1} \X (1..n))) = Cardinality(Rest) + n
    BY <1>3, <1>9, <2>1, BytesAdded, ZenonT(30)
  <2>3. QED
    BY <1>4, <2>2
<1>11. QED
  BY <1>1, <1>8, <1>10 DEF n

(***************************************************************************)
(* The invariant is preserved                                              *)
(***************************************************************************)

\* An idle channel of which nothing is reserved.
LEMMA InitIInv == Init => IInv
<1> SUFFICES ASSUME Init
             PROVE  IInv
  OBVIOUS
<1>1. TypeOK
  BY DEF Init, TypeOK, IdleEmitter, IdleReceiver
<1>2. WithinCeiling
  BY DEF Init, WithinCeiling, IdleEmitter
<1>3. RetainedBytes = {} /\ ReservedBytes = {}
  BY DEF Init, RetainedBytes, ReservedBytes, Reserved, IdleEmitter
<1>4. Cardinality(RetainedBytes) = 0 /\ Cardinality(ReservedBytes) = 0
  BY <1>3, FS_EmptySet
<1>5. CounterCovers
  BY <1>4 DEF CounterCovers, Init, IdleReceiver
<1>6. QED
  BY <1>1, <1>2, <1>5 DEF IInv, Init, IdleReceiver

\* A step of an emitter that leaves channel and receiver alone: the counter
\* changes by what the emitter reserves or gives back.
LEMMA EmitterInv ==
  ASSUME IInv, NEW e \in Emitters, UNCHANGED <<channel, receiver>>,
         TypeOK', emitter'[e].bytes <= max_event_bytes,
         emitter'[e].pc # "idle" => emitter'[e].bytes \in Sizes,
         \A f \in Emitters \ {e} : emitter'[f] = emitter[f],
         queued' + Reserved(e) = queued + Reserved(e)'
  PROVE  IInv'
<1>1. TypeOK /\ WithinCeiling /\ CounterCovers
  BY DEF IInv
<1>2. WithinCeiling'
  BY <1>1 DEF WithinCeiling
<1>3. Cardinality(ReservedBytes') + Reserved(e)
        = Cardinality(ReservedBytes) + Reserved(e)'
  BY <1>1, <1>2, ReservationChanges
<1>4. RetainedBytes' = RetainedBytes
  BY DEF RetainedBytes
<1>5. /\ Cardinality(RetainedBytes) \in Nat /\ Cardinality(ReservedBytes) \in Nat
      /\ receiver.bytes \in Nat
  BY <1>1, BytesFinite, Shapes
<1>6. /\ Cardinality(ReservedBytes') \in Nat
      /\ Reserved(e) \in Nat /\ Reserved(e)' \in Nat
  BY <1>1, <1>2, ReservationChanges
<1>7. queued \in Nat /\ queued' \in Nat
  BY <1>1 DEF TypeOK
<1>8. CounterCovers'
  BY <1>1, <1>3, <1>4, <1>5, <1>6, <1>7 DEF CounterCovers
<1>9. QED
  BY <1>2, <1>8 DEF IInv

\* The channel and what is not the emitter's, in a step of an emitter.
LEMMA EmissionTyped ==
  ASSUME TypeOK, NEW e \in Emitters,
         NEW r \in [pc : {"idle", "reserve", "send", "refund"},
                    bytes : Sizes \cup {0}, current : 0..max_queued_bytes,
                    outcome : {"none", "ok", "full", "closed"}],
         emitter' = [emitter EXCEPT ![e] = r],
         queued' \in 0..max_queued_bytes,
         channel' \in Seq(Sizes), Len(channel') <= Capacity,
         receiver' = receiver
  PROVE  TypeOK' /\ emitter'[e] = r
         /\ \A f \in Emitters \ {e} : emitter'[f] = emitter[f]
BY DEF TypeOK

\* An emitter that looks at its event's size and at the counter.
LEMMA EmitInv ==
  ASSUME IInv, NEW e \in Emitters, NEW bytes \in Sizes, Emit(e, bytes)
  PROVE  IInv'
<1>1. TypeOK /\ emitter[e].pc = "idle" /\ UNCHANGED <<queued, channel, receiver>>
  BY DEF IInv, Emit
<1>2. bytes \in Nat
  OBVIOUS
<1>3. CASE Oversized(bytes)
  <2>1. emitter' = [emitter EXCEPT ![e] = IdleEmitter("full")]
    BY <1>3 DEF Emit, Returns
  <2>2. IdleEmitter("full") \in
          [pc : {"idle", "reserve", "send", "refund"},
           bytes : Sizes \cup {0}, current : 0..max_queued_bytes,
           outcome : {"none", "ok", "full", "closed"}]
    BY DEF IdleEmitter
  <2>3. /\ TypeOK' /\ emitter'[e] = IdleEmitter("full")
        /\ \A f \in Emitters \ {e} : emitter'[f] = emitter[f]
    BY <1>1, <2>1, <2>2, EmissionTyped DEF TypeOK
  <2>4. Reserved(e) = 0 /\ Reserved(e)' = 0
    BY <1>1, <2>3 DEF Reserved, IdleEmitter
  <2>5. queued' + Reserved(e) = queued + Reserved(e)'
    BY <1>1, <2>4
  <2>6. QED
    BY <1>1, <2>3, <2>5, EmitterInv DEF IdleEmitter
<1>4. CASE ~Oversized(bytes)
  <2>1. PICK current \in 0..max_queued_bytes :
          emitter' = [emitter EXCEPT ![e] =
            [pc |-> "reserve", bytes |-> bytes, current |-> current,
             outcome |-> "none"]]
    BY <1>4 DEF Emit
  <2> DEFINE r == [pc |-> "reserve", bytes |-> bytes, current |-> current,
                   outcome |-> "none"]
  <2>2. r \in [pc : {"idle", "reserve", "send", "refund"},
               bytes : Sizes \cup {0}, current : 0..max_queued_bytes,
               outcome : {"none", "ok", "full", "closed"}]
    OBVIOUS
  <2>3. /\ TypeOK' /\ emitter'[e] = r
        /\ \A f \in Emitters \ {e} : emitter'[f] = emitter[f]
    BY <1>1, <2>1, <2>2, EmissionTyped DEF TypeOK
  <2>4. Reserved(e) = 0 /\ Reserved(e)' = 0
    BY <1>1, <2>3 DEF Reserved
  <2>5. r.bytes <= max_event_bytes
    BY <1>2, <1>4 DEF Oversized
  <2>6. queued' + Reserved(e) = queued + Reserved(e)'
    BY <1>1, <2>4
  <2>7. QED
    BY <1>1, <2>3, <2>5, <2>6, EmitterInv
<1>5. QED
  BY <1>3, <1>4

\* An emitter that is refused, that looks again, or whose exchange reserves
\* its bytes.
LEMMA ReserveInv ==
  ASSUME IInv, NEW e \in Emitters, Reserve(e)
  PROVE  IInv'
<1> DEFINE m == emitter[e]
           Type == [pc : {"idle", "reserve", "send", "refund"},
                    bytes : Sizes \cup {0}, current : 0..max_queued_bytes,
                    outcome : {"none", "ok", "full", "closed"}]
<1>1. /\ TypeOK /\ WithinCeiling /\ m.pc = "reserve"
      /\ UNCHANGED <<channel, receiver>>
  BY DEF IInv, Reserve
<1>2. /\ m \in Type /\ m.bytes \in Nat /\ m.bytes <= max_event_bytes
      /\ m.bytes \in Sizes
      /\ m.current \in 0..max_queued_bytes /\ queued \in 0..max_queued_bytes
      /\ channel \in Seq(Sizes) /\ Len(channel) <= Capacity
  BY <1>1, Shapes DEF TypeOK, WithinCeiling
<1>3. Reserved(e) = 0
  BY <1>1 DEF Reserved
<1>4. CASE m.current + m.bytes > max_queued_bytes
  <2>1. emitter' = [emitter EXCEPT ![e] = IdleEmitter("full")]
        /\ queued' = queued
    BY <1>4 DEF Reserve, Returns
  <2>2. IdleEmitter("full") \in Type
    BY DEF IdleEmitter
  <2>3. /\ TypeOK' /\ emitter'[e] = IdleEmitter("full")
        /\ \A f \in Emitters \ {e} : emitter'[f] = emitter[f]
    BY <1>1, <1>2, <2>1, <2>2, EmissionTyped
  <2>4. Reserved(e)' = 0
    BY <2>3 DEF Reserved, IdleEmitter
  <2>5. queued' + Reserved(e) = queued + Reserved(e)'
    BY <1>3, <2>1, <2>4
  <2>6. QED
    BY <1>1, <2>3, <2>5, EmitterInv DEF IdleEmitter
<1>5. CASE m.current + m.bytes <= max_queued_bytes /\ Exchanges(e)
  <2> DEFINE r == [m EXCEPT !.pc = "send"]
  <2>1. /\ queued' = m.current + m.bytes /\ queued = m.current
        /\ emitter' = [emitter EXCEPT ![e] = r]
    BY <1>2, <1>5 DEF Reserve, Exchanges
  <2>2. r \in Type /\ r.pc = "send" /\ r.bytes = m.bytes
    BY <1>2
  <2>3. queued' \in 0..max_queued_bytes
    BY <1>2, <1>5, <2>1
  <2> HIDE DEF r
  <2>4. /\ TypeOK' /\ emitter'[e] = r
        /\ \A f \in Emitters \ {e} : emitter'[f] = emitter[f]
    BY <1>1, <1>2, <2>1, <2>2, <2>3, EmissionTyped
  <2>5. Reserved(e)' = m.bytes
    BY <2>2, <2>4 DEF Reserved
  <2>6. queued' + Reserved(e) = queued + Reserved(e)'
    BY <1>2, <1>3, <2>1, <2>5
  <2>7. emitter'[e].bytes <= max_event_bytes /\ emitter'[e].bytes \in Sizes
    BY <1>2, <2>2, <2>4
  <2>8. QED
    BY <1>1, <2>4, <2>6, <2>7, EmitterInv
<1>6. CASE m.current + m.bytes <= max_queued_bytes /\ ~Exchanges(e)
  <2> DEFINE r == [m EXCEPT !.current = queued]
  <2>1. queued' = queued /\ emitter' = [emitter EXCEPT ![e] = r]
    BY <1>2, <1>6 DEF Reserve
  <2>2. r \in Type /\ r.pc = "reserve" /\ r.bytes = m.bytes
    BY <1>1, <1>2
  <2> HIDE DEF r
  <2>3. /\ TypeOK' /\ emitter'[e] = r
        /\ \A f \in Emitters \ {e} : emitter'[f] = emitter[f]
    BY <1>1, <1>2, <2>1, <2>2, EmissionTyped
  <2>4. Reserved(e)' = 0
    BY <2>2, <2>3 DEF Reserved
  <2>5. queued' + Reserved(e) = queued + Reserved(e)'
    BY <1>3, <2>1, <2>4
  <2>6. emitter'[e].bytes <= max_event_bytes /\ emitter'[e].bytes \in Sizes
    BY <1>2, <2>2, <2>3
  <2>7. QED
    BY <1>1, <2>3, <2>5, <2>6, EmitterInv
<1>7. QED
  BY <1>2, <1>4, <1>5, <1>6

\* The channel takes the event, whose bytes go from the emitter to it, or
\* refuses it, and they stay reserved until they are given back.
LEMMA TrySendInv ==
  ASSUME IInv, NEW e \in Emitters, TrySend(e)
  PROVE  IInv'
<1> DEFINE m == emitter[e]
           Type == [pc : {"idle", "reserve", "send", "refund"},
                    bytes : Sizes \cup {0}, current : 0..max_queued_bytes,
                    outcome : {"none", "ok", "full", "closed"}]
<1>1. /\ TypeOK /\ WithinCeiling /\ CounterCovers /\ m.pc = "send"
      /\ UNCHANGED <<queued, receiver>>
      /\ receiver.pc # "release" => receiver.bytes = 0
  BY DEF IInv, TrySend
<1>2. /\ m \in Type /\ m.bytes \in Nat /\ m.bytes <= max_event_bytes
      /\ m.bytes \in Sizes
      /\ queued \in 0..max_queued_bytes
      /\ channel \in Seq(Sizes) /\ Len(channel) <= Capacity
  BY <1>1, Shapes DEF TypeOK, WithinCeiling
<1>3. Reserved(e) = m.bytes
  BY <1>1 DEF Reserved
<1>4. CASE Refuses
  <2>1. PICK outcome \in {"closed", "full"} :
          emitter' = [emitter EXCEPT ![e] =
                        [m EXCEPT !.pc = "refund", !.outcome = outcome]]
    <3>1. CASE receiver.pc = "gone"
      BY <1>2, <1>4, <3>1 DEF TrySend
    <3>2. CASE receiver.pc # "gone"
      BY <1>2, <1>4, <3>2 DEF TrySend
    <3>3. QED
      BY <3>1, <3>2
  <2> DEFINE r == [m EXCEPT !.pc = "refund", !.outcome = outcome]
  <2>2. r \in Type /\ r.pc = "refund" /\ r.bytes = m.bytes
    BY <1>2
  <2>3. channel' = channel
    BY <1>4 DEF TrySend
  <2> HIDE DEF r
  <2>4. /\ TypeOK' /\ emitter'[e] = r
        /\ \A f \in Emitters \ {e} : emitter'[f] = emitter[f]
    BY <1>1, <1>2, <2>1, <2>2, <2>3, EmissionTyped DEF r
  <2>5. Reserved(e)' = m.bytes
    BY <2>2, <2>4 DEF Reserved
  <2>6. queued' + Reserved(e) = queued + Reserved(e)'
    BY <1>1, <1>3, <2>5
  <2>7. emitter'[e].bytes <= max_event_bytes /\ emitter'[e].bytes \in Sizes
    BY <1>2, <2>2, <2>4
  <2>8. QED
    BY <1>1, <2>3, <2>4, <2>6, <2>7, EmitterInv
<1>5. CASE ~Refuses
  <2>1. /\ channel' = Append(channel, m.bytes)
        /\ emitter' = [emitter EXCEPT ![e] = IdleEmitter("ok")]
        /\ receiver.pc # "gone" /\ Len(channel) < Capacity
    BY <1>2, <1>5 DEF TrySend, Returns, Refuses
  <2>2. IdleEmitter("ok") \in Type
    BY DEF IdleEmitter
  <2>3. channel' \in Seq(Sizes) /\ Len(channel') = Len(channel) + 1
        /\ Len(channel) \in Nat /\ Len(channel') <= Capacity
    BY <1>2, <2>1
  <2>4. /\ TypeOK' /\ emitter'[e] = IdleEmitter("ok")
        /\ \A f \in Emitters \ {e} : emitter'[f] = emitter[f]
    BY <1>1, <1>2, <2>1, <2>2, <2>3, EmissionTyped DEF TypeOK
  <2>5. WithinCeiling'
    <3>1. DOMAIN channel' = 1..(Len(channel) + 1)
          /\ channel'[Len(channel) + 1] = m.bytes
          /\ \A i \in 1..Len(channel) : channel'[i] = channel[i]
      BY <1>2, <2>1, <2>3
    <3>2. \A i \in DOMAIN channel' : channel'[i] <= max_event_bytes
      BY <1>1, <1>2, <2>3, <3>1, Shapes DEF WithinCeiling
    <3>3. QED
      BY <1>1, <2>4, <3>2 DEF WithinCeiling, IdleEmitter
  <2>6. /\ Cardinality(ReservedBytes') \in Nat
        /\ Cardinality(ReservedBytes') + m.bytes = Cardinality(ReservedBytes)
    <3>1. Reserved(e)' = 0
      BY <2>4 DEF Reserved, IdleEmitter
    <3>2. /\ Cardinality(ReservedBytes') \in Nat
          /\ Cardinality(ReservedBytes') + Reserved(e)
               = Cardinality(ReservedBytes) + Reserved(e)'
      BY <1>1, <2>4, <2>5, ReservationChanges
    <3>3. Cardinality(ReservedBytes) \in Nat
      BY <1>1, BytesFinite
    <3>4. QED
      BY <1>2, <1>3, <3>1, <3>2, <3>3
  <2>7. Cardinality(RetainedBytes') = Cardinality(RetainedBytes) + m.bytes
    BY <1>1, <1>2, <2>1, EventAppended
  <2>8. /\ Cardinality(RetainedBytes) \in Nat
        /\ receiver.bytes \in Nat /\ queued \in Nat
    BY <1>1, BytesFinite, Shapes DEF TypeOK
  <2>9. CounterCovers'
    <3>1. queued' = queued /\ receiver' = receiver /\ m.bytes \in Nat
          /\ receiver.pc # "gone"
      BY <1>1, <1>2, <2>1
    <3> HIDE DEF m
    <3>2. QED
      BY <1>1, <2>6, <2>7, <2>8, <3>1 DEF CounterCovers
  <2>10. QED
    BY <1>1, <2>4, <2>5, <2>9 DEF IInv
<1>6. QED
  BY <1>4, <1>5

\* A refused event's bytes are given back; they were counted, so the counter
\* does not underflow.
LEMMA RefundInv ==
  ASSUME IInv, NEW e \in Emitters, Refund(e)
  PROVE  IInv'
<1> DEFINE m == emitter[e]
           idle == IdleEmitter(m.outcome)
<1>1. /\ TypeOK /\ WithinCeiling /\ CounterCovers /\ m.pc = "refund"
      /\ queued' = queued - m.bytes /\ UNCHANGED <<channel, receiver>>
      /\ emitter' = [emitter EXCEPT ![e] = idle]
  BY DEF IInv, Refund, Returns
<1>2. Reserved(e) = m.bytes
  BY <1>1 DEF Reserved
<1>3. /\ m.bytes \in Nat /\ queued \in 0..max_queued_bytes
      /\ receiver.bytes \in Nat
      /\ channel \in Seq(Sizes) /\ Len(channel) <= Capacity
  BY <1>1, Shapes DEF TypeOK
<1>4. idle \in [pc : {"idle", "reserve", "send", "refund"},
                bytes : Sizes \cup {0}, current : 0..max_queued_bytes,
                outcome : {"none", "ok", "full", "closed"}]
  BY <1>1 DEF IdleEmitter, TypeOK
<1>5. idle.pc = "idle" /\ idle.bytes = 0
  BY DEF IdleEmitter
<1>6. m.bytes <= queued
  <2>1. {e} \X (1..m.bytes) \subseteq ReservedBytes
    BY <1>2, Members
  <2>2. Cardinality({e} \X (1..m.bytes)) = m.bytes
    BY <1>3, EventBytes
  <2>3. IsFiniteSet(ReservedBytes) /\ Cardinality(ReservedBytes) \in Nat
        /\ Cardinality(RetainedBytes) \in Nat
    BY <1>1, BytesFinite
  <2>4. m.bytes <= Cardinality(ReservedBytes)
    <3> DEFINE T == {e} \X (1..m.bytes)
    <3>1. T \in SUBSET ReservedBytes /\ Cardinality(T) = m.bytes
      BY <2>1, <2>2
    <3> HIDE DEF T, m
    <3>2. Cardinality(T) <= Cardinality(ReservedBytes)
      BY <2>3, <3>1, FS_Subset
    <3>3. QED
      BY <3>1, <3>2
  <2> HIDE DEF m
  <2>5. QED
    BY <1>1, <1>3, <2>3, <2>4 DEF CounterCovers
<1>7. queued' \in 0..max_queued_bytes
  BY <1>1, <1>3, <1>6
<1> HIDE DEF idle
<1>8. /\ TypeOK' /\ emitter'[e] = idle
      /\ \A f \in Emitters \ {e} : emitter'[f] = emitter[f]
  BY <1>1, <1>3, <1>4, <1>7, EmissionTyped
<1>9. Reserved(e)' = 0
  BY <1>5, <1>8 DEF Reserved
<1>10. queued' + Reserved(e) = queued + Reserved(e)'
  BY <1>1, <1>2, <1>3, <1>9
<1>11. QED
  BY <1>1, <1>5, <1>8, <1>10, EmitterInv

\* The event at the head is on its way out and still counted.
LEMMA ReceiveInv ==
  ASSUME IInv, Receive
  PROVE  IInv'
<1>1. /\ TypeOK /\ WithinCeiling /\ CounterCovers
      /\ receiver.pc = "idle" /\ receiver.bytes = 0 /\ channel # <<>>
      /\ receiver' = [pc |-> "release", bytes |-> Head(channel)]
      /\ channel' = Tail(channel) /\ UNCHANGED <<queued, emitter>>
  BY DEF IInv, Receive
<1>2. /\ Cardinality(RetainedBytes') \in Nat /\ Head(channel) \in Nat
      /\ Head(channel) = channel[1]
      /\ Cardinality(RetainedBytes)
           = Cardinality(RetainedBytes') + Head(channel)
  BY <1>1, EventTaken
<1>3. channel \in Seq(Sizes) /\ Len(channel) <= Capacity
  BY <1>1 DEF TypeOK
<1>4. /\ channel' \in Seq(Sizes) /\ Len(channel') = Len(channel) - 1
      /\ Head(channel) \in Sizes /\ Len(channel) \in Nat
      /\ \A i \in 1..Len(channel') : channel'[i] = channel[i + 1]
  BY <1>1, <1>3, HeadTailProperties
<1>5. TypeOK'
  <2>1. Len(channel') <= Capacity
    BY <1>3, <1>4
  <2>2. QED
    BY <1>1, <1>4, <2>1 DEF TypeOK
<1>6. WithinCeiling'
  <2>1. DOMAIN channel = 1..Len(channel) /\ DOMAIN channel' = 1..Len(channel')
    BY <1>3, <1>4
  <2>2. ASSUME NEW i \in DOMAIN channel'
        PROVE  channel'[i] <= max_event_bytes
    <3>1. i + 1 \in DOMAIN channel /\ channel'[i] = channel[i + 1]
      BY <1>4, <2>1
    <3>2. QED
      BY <1>1, <3>1 DEF WithinCeiling
  <2>3. QED
    BY <1>1, <2>2 DEF WithinCeiling
<1>7. ReservedBytes' = ReservedBytes
  BY <1>1 DEF ReservedBytes, Reserved
<1>8. Cardinality(ReservedBytes) \in Nat /\ queued \in Nat
  BY <1>1, BytesFinite DEF TypeOK
<1>9. CounterCovers'
  BY <1>1, <1>2, <1>7, <1>8 DEF CounterCovers
<1>10. QED
  BY <1>1, <1>5, <1>6, <1>9 DEF IInv

\* The bytes of the received event are returned.
LEMMA ReleaseInv ==
  ASSUME IInv, Release
  PROVE  IInv'
<1>1. /\ TypeOK /\ WithinCeiling /\ CounterCovers
      /\ receiver.pc = "release" /\ queued' = queued - receiver.bytes
      /\ receiver' = IdleReceiver /\ UNCHANGED <<channel, emitter>>
  BY DEF IInv, Release
<1>2. /\ receiver.bytes \in Nat /\ queued \in 0..max_queued_bytes
      /\ Cardinality(RetainedBytes) \in Nat
      /\ Cardinality(ReservedBytes) \in Nat
  BY <1>1, Shapes, BytesFinite DEF TypeOK
<1>3. RetainedBytes' = RetainedBytes /\ ReservedBytes' = ReservedBytes
  BY <1>1 DEF RetainedBytes, ReservedBytes, Reserved
<1>4. receiver.bytes <= queued
  BY <1>1, <1>2 DEF CounterCovers
<1>5. queued' \in 0..max_queued_bytes
  BY <1>1, <1>2, <1>4
<1>6. TypeOK'
  BY <1>1, <1>5 DEF TypeOK, IdleReceiver
<1>7. WithinCeiling'
  BY <1>1 DEF WithinCeiling
<1>8. CounterCovers'
  BY <1>1, <1>2, <1>3 DEF CounterCovers, IdleReceiver
<1>9. QED
  BY <1>1, <1>6, <1>7, <1>8 DEF IInv, IdleReceiver

\* The receiver goes, and the counter keeps what went with it.
LEMMA DropInv ==
  ASSUME IInv, DropReceiver
  PROVE  IInv'
<1>1. /\ TypeOK /\ WithinCeiling /\ CounterCovers
      /\ receiver' = [pc |-> "gone", bytes |-> 0] /\ channel' = <<>>
      /\ UNCHANGED <<queued, emitter>>
  BY DEF IInv, DropReceiver
<1>2. /\ receiver.bytes \in Nat /\ queued \in Nat
      /\ Cardinality(RetainedBytes) \in Nat
      /\ Cardinality(ReservedBytes) \in Nat
  BY <1>1, Shapes, BytesFinite DEF TypeOK
<1>3. ReservedBytes' = ReservedBytes
  BY <1>1 DEF ReservedBytes, Reserved
<1>4. Cardinality(RetainedBytes') = 0
  <2>1. RetainedBytes' = {}
    BY <1>1 DEF RetainedBytes
  <2>2. QED
    BY <2>1, FS_EmptySet
<1>5. TypeOK'
  <2>1. <<>> \in Seq(Sizes) /\ Len(<<>>) = 0
    OBVIOUS
  <2>2. QED
    BY <1>1, <2>1 DEF TypeOK
<1>6. WithinCeiling'
  BY <1>1 DEF WithinCeiling
<1>7. CounterCovers'
  BY <1>1, <1>2, <1>3, <1>4 DEF CounterCovers
<1>8. QED
  BY <1>1, <1>5, <1>6, <1>7 DEF IInv

\* Every step of an emitter or of the receiver, or one that changes nothing.
LEMMA NextIInv == IInv /\ [Next]_vars => IInv'
<1> SUFFICES ASSUME IInv, [Next]_vars
             PROVE  IInv'
  OBVIOUS
<1>1. ASSUME NEW e \in Emitters, Emission(e)
      PROVE  IInv'
  BY <1>1, EmitInv, ReserveInv, TrySendInv, RefundInv DEF Emission
<1>2. CASE Receive \/ Release \/ DropReceiver
  BY <1>2, ReceiveInv, ReleaseInv, DropInv
<1>3. CASE UNCHANGED vars
  <2>1. RetainedBytes' = RetainedBytes /\ ReservedBytes' = ReservedBytes
    BY <1>3 DEF vars, RetainedBytes, ReservedBytes, Reserved
  <2>2. QED
    BY <1>3, <2>1 DEF vars, IInv, TypeOK, WithinCeiling, CounterCovers
<1>4. QED
  BY <1>1, <1>2, <1>3 DEF Next

(***************************************************************************)
(* The theorems                                                            *)
(***************************************************************************)

\* The inductive invariant holds in every reachable state of the channel.
THEOREM Invariance == Spec => []IInv
BY InitIInv, NextIInv, PTL DEF Spec

\* The shared counter stays between zero and the backlog ceiling, so the
\* subtractions of refunds and releases do not wrap.
THEOREM CounterInRange == Spec => []TypeOK
<1>1. IInv => TypeOK
  BY DEF IInv
<1>2. QED
  BY <1>1, Invariance, PTL

\* The counter is exact while the receiver is there, and retained events
\* never exceed the backlog ceiling, for every interleaving of emitters.
THEOREM BudgetIsExact == Spec => []BudgetExact
<1>1. IInv => BudgetExact
  <2> SUFFICES ASSUME IInv
               PROVE  BudgetExact
    OBVIOUS
  <2>1. TypeOK /\ WithinCeiling /\ CounterCovers
    BY DEF IInv
  <2>2. /\ Cardinality(RetainedBytes) \in Nat
        /\ Cardinality(ReservedBytes) \in Nat /\ receiver.bytes \in Nat
        /\ queued \in 0..max_queued_bytes
    BY <2>1, BytesFinite, Shapes DEF TypeOK
  <2>3. Cardinality(RetainedBytes) + receiver.bytes <= max_queued_bytes
    BY <2>1, <2>2 DEF CounterCovers
  <2>4. QED
    BY <2>1, <2>3 DEF BudgetExact, WithinCeiling, CounterCovers
<1>2. QED
  BY <1>1, Invariance, PTL

=============================================================================
