-------------------------- MODULE SocketLayerProofs --------------------------
(***************************************************************************)
(* Lemmas about the kernel's part, which the proofs about the servers      *)
(* share: what accept, recv, close and the clients do to the descriptor    *)
(* table, the types, and the number of open descriptors.                   *)
(***************************************************************************)
EXTENDS SocketLayer, SequenceTheorems, FiniteSetTheorems, WellFoundedInduction, TLAPS

-----------------------------------------------------------------------------
(* Natural numbers.                                                        *)

(* Every nonempty set of natural numbers has a least element.              *)
LEMMA LeastNatural ==
    ASSUME NEW S \in SUBSET Nat, S # {}
    PROVE  \E n \in S : \A m \in S : n <= m
<1>1. PICK n \in S : \A m \in S : ~(<<m, n>> \in OpToRel(<, Nat))
  BY NatLessThanWellFounded, WFMin
<1>2. ASSUME NEW m \in S PROVE n <= m
  <2>1. <<m, n>> \in Nat \X Nat /\ <<m, n>>[1] = m /\ <<m, n>>[2] = n
    OBVIOUS
  <2>2. ~(m < n)
    BY <1>1, <2>1, Zenon DEF OpToRel
  <2> QED
    BY <2>2
<1> QED
  BY <1>2

(* Induction up to m, for the set of the numbers that have the property.   *)
LEMMA InductionUpTo ==
    ASSUME NEW m \in Nat, NEW S, 0 \in S, \A k \in 1 .. m : k - 1 \in S => k \in S
    PROVE  \A k \in 0 .. m : k \in S
<1> DEFINE Missing == (0 .. m) \ S
<1> SUFFICES ASSUME Missing # {} PROVE FALSE
  OBVIOUS
<1>1. Missing \in SUBSET Nat
  OBVIOUS
<1>2. PICK k \in Missing : \A j \in Missing : k <= j
  BY <1>1, LeastNatural, Zenon
<1>3. k \in 1 .. m /\ k - 1 \in 0 .. m
  BY <1>2
<1>4. k - 1 \notin Missing
  BY <1>2, <1>3
<1> QED
  BY <1>2, <1>3, <1>4

-----------------------------------------------------------------------------
(* The descriptor table, the backlog and the types.                        *)

(* The lowest free descriptor is a free descriptor.                        *)
LEMMA LowestFreeIsFree ==
    ASSUME FreeFds # {}
    PROVE  LowestFree \in FreeFds
<1>1. FreeFds \in SUBSET Nat
  BY SocketAssumption DEF FreeFds, FDs
<1>2. \E f \in FreeFds : \A g \in FreeFds : f <= g
  BY <1>1, LeastNatural, Zenon
<1> QED
  BY <1>2, Zenon DEF LowestFree

(* Closing and registering descriptors keeps the kernel's state well typed.*)
LEMMA CloseAndAddTyped ==
    ASSUME SocketTypeOK, NEW closing, NEW adding \in SUBSET FDs,
           CloseAndAdd(closing, adding)
    PROVE  SocketTypeOK' /\ backlog' = backlog
BY DEF SocketTypeOK, CloseAndAdd

(* accept into a descriptor keeps the kernel's state well typed.           *)
LEMMA AcceptAsTyped ==
    ASSUME SocketTypeOK, NEW f \in FDs, NEW adding \in SUBSET FDs,
           backlog # <<>>, AcceptAs(f, adding)
    PROVE  SocketTypeOK'
BY HeadTailProperties DEF SocketTypeOK, AcceptAs

(* accept and close at once keeps it well typed.                           *)
LEMMA AcceptAndCloseTyped ==
    ASSUME SocketTypeOK, backlog # <<>>, AcceptAndClose
    PROVE  SocketTypeOK'
BY HeadTailProperties DEF SocketTypeOK, AcceptAndClose

(* recv takes no more than has arrived.                                    *)
LEMMA TakeTyped ==
    ASSUME SocketTypeOK, NEW f \in FDs, IsOpen(f), NEW n \in Nat,
           n <= inbox[owner[f]], Take(f, n)
    PROVE  SocketTypeOK'
<1>1. owner[f] \in Conns
  BY DEF SocketTypeOK, IsOpen, OpenFds
<1> QED
  BY <1>1 DEF SocketTypeOK, Take

(* What the clients do keeps the kernel's state well typed.                *)
LEMMA ClientTyped ==
    ASSUME SocketTypeOK, NEW c \in Conns, Connect(c) \/ Deliver(c) \/ Hangup(c)
    PROVE  SocketTypeOK'
<1>1. CASE Connect(c)
  BY <1>1 DEF SocketTypeOK, Connect
<1>2. CASE Deliver(c)
  BY <1>2 DEF SocketTypeOK, Deliver
<1>3. CASE Hangup(c)
  BY <1>3 DEF SocketTypeOK, Hangup
<1> QED
  BY <1>1, <1>2, <1>3

(* The events that epoll_wait returns are on descriptors of the server.    *)
LEMMA ReadyTyped ==
    ASSUME SocketTypeOK
    PROVE  Ready \subseteq FDs \cup {ListenFd} /\ (ListenFd \in Ready => backlog # <<>>)
<1>1. ListenFd \notin FDs
  BY SocketAssumption DEF FDs, ListenFd
<1>2. registered \subseteq FDs
  BY DEF SocketTypeOK
<1> QED
  BY <1>1, <1>2 DEF Ready

(* The open descriptors can be counted.                                    *)
LEMMA OpenFdsFinite == IsFiniteSet(OpenFds) /\ Cardinality(OpenFds) \in Nat
<1>1. IsFiniteSet(FDs)
  BY SocketAssumption, FS_Interval DEF FDs
<1>2. OpenFds \subseteq FDs
  BY DEF OpenFds
<1>3. IsFiniteSet(OpenFds)
  BY <1>1, <1>2, FS_Subset
<1> QED
  BY <1>3, FS_CardinalityType

(* A set without one element has at most one element less.                 *)
LEMMA RemoveOne ==
    ASSUME NEW S, IsFiniteSet(S), NEW x
    PROVE  /\ IsFiniteSet(S \ {x})
           /\ Cardinality(S) \in Nat /\ Cardinality(S \ {x}) \in Nat
           /\ Cardinality(S \ {x}) >= Cardinality(S) - 1
<1>1. IsFiniteSet(S \ {x})
      /\ Cardinality(S \ {x}) = IF x \in S THEN Cardinality(S) - 1 ELSE Cardinality(S)
  BY FS_RemoveElement
<1>2. Cardinality(S) \in Nat /\ Cardinality(S \ {x}) \in Nat
  BY <1>1, FS_CardinalityType
<1> QED
  BY <1>1, <1>2

(* Closing one descriptor leaves at most one open descriptor less.         *)
LEMMA CloseCount ==
    ASSUME NEW e, NEW closing, NEW adding, CloseAndAdd(closing, adding)
    PROVE  /\ IsFiniteSet(OpenFds) /\ Cardinality(OpenFds) \in Nat
           /\ Cardinality(OpenFds') \in Nat
           /\ closing = {e} => Cardinality(OpenFds') >= Cardinality(OpenFds) - 1
           /\ \A g : closing = {e, g} => Cardinality(OpenFds') >= Cardinality(OpenFds) - 2
<1>2. OpenFds' = OpenFds \ closing
  BY DEF OpenFds, CloseAndAdd
<1>3. IsFiniteSet(OpenFds)
  BY OpenFdsFinite
<1>4. IsFiniteSet(OpenFds \ {e}) /\ Cardinality(OpenFds) \in Nat
      /\ Cardinality(OpenFds \ {e}) \in Nat
      /\ Cardinality(OpenFds \ {e}) >= Cardinality(OpenFds) - 1
  BY <1>3, RemoveOne
<1>5. ASSUME NEW g, closing = {e, g}
      PROVE  Cardinality(OpenFds') >= Cardinality(OpenFds) - 2
  <2>1. OpenFds' = (OpenFds \ {e}) \ {g}
    BY <1>2, <1>5
  <2>2. Cardinality((OpenFds \ {e}) \ {g}) >= Cardinality(OpenFds \ {e}) - 1
        /\ Cardinality((OpenFds \ {e}) \ {g}) \in Nat
    BY <1>4, RemoveOne
  <2> QED
    BY <1>4, <2>1, <2>2
<1>6. Cardinality(OpenFds') \in Nat
  BY <1>2, <1>3, FS_Subset, FS_CardinalityType
<1> QED
  BY <1>2, <1>3, <1>4, <1>5, <1>6

(* accept opens exactly one descriptor, which was free.                    *)
LEMMA AcceptOpensOne ==
    ASSUME SocketTypeOK, FreeFds # {}, backlog # <<>>,
           NEW adding, AcceptAs(LowestFree, adding)
    PROVE  /\ LowestFree \in FDs /\ LowestFree \notin OpenFds
           /\ OpenFds' = OpenFds \cup {LowestFree}
           /\ Cardinality(OpenFds') = Cardinality(OpenFds) + 1
<1>1. LowestFree \in FDs /\ LowestFree \notin OpenFds
  BY LowestFreeIsFree DEF FreeFds
<1>2. Head(backlog) \in Conns
  BY HeadTailProperties DEF SocketTypeOK
<1>3. OpenFds' = OpenFds \cup {LowestFree}
  BY <1>1, <1>2, SocketAssumption DEF AcceptAs, OpenFds, SocketTypeOK
<1>4. IsFiniteSet(OpenFds)
  BY OpenFdsFinite
<1>5. Cardinality(OpenFds') = Cardinality(OpenFds) + 1
  BY <1>1, <1>3, <1>4, FS_AddElement
<1> QED
  BY <1>1, <1>3, <1>5

-----------------------------------------------------------------------------
(* Connections are told apart.                                             *)

(* A connection has one descriptor, or one place in the backlog, or        *)
(* neither; those that have not been opened have neither.                  *)
EachOnce ==
    /\ \A f, g \in OpenFds : owner[f] = owner[g] => f = g
    /\ \A i, j \in 1 .. Len(backlog) : backlog[i] = backlog[j] => i = j
    /\ \A f \in OpenFds, i \in 1 .. Len(backlog) : owner[f] # backlog[i]
    /\ \A f \in OpenFds : peer[owner[f]] # "new"
    /\ \A i \in 1 .. Len(backlog) : peer[backlog[i]] # "new"

(* A client that connects is new.                                          *)
LEMMA ClientOnce ==
    ASSUME SocketTypeOK, EachOnce, NEW c \in Conns, Connect(c) \/ Deliver(c) \/ Hangup(c)
    PROVE  EachOnce'
<1>1. OpenFds' = OpenFds /\ owner' = owner
  BY DEF OpenFds, FDs, Connect, Deliver, Hangup
<1>2. \A d \in Conns : peer[d] # "new" => peer'[d] # "new"
  BY DEF Connect, Deliver, Hangup, SocketTypeOK
<1>3. Len(backlog) \in Nat /\ \A i \in 1 .. Len(backlog) : backlog[i] \in Conns
  BY LenProperties, ElementOfSeq DEF SocketTypeOK
<1>4. \A f \in OpenFds : owner[f] \in Conns
  BY DEF OpenFds, SocketTypeOK
<1>5. CASE Deliver(c) \/ Hangup(c)
  <2>1. backlog' = backlog
    BY <1>5 DEF Deliver, Hangup
  <2> QED
    BY <1>1, <1>2, <1>3, <1>4, <2>1 DEF EachOnce
<1>6. CASE Connect(c)
  <2>1. peer[c] = "new" /\ peer'[c] # "new" /\ backlog' = Append(backlog, c)
    BY <1>6 DEF Connect, SocketTypeOK
  <2>2. /\ Len(backlog') = Len(backlog) + 1
        /\ \A i \in 1 .. Len(backlog) : backlog'[i] = backlog[i]
        /\ backlog'[Len(backlog) + 1] = c
    BY <2>1, AppendProperties DEF SocketTypeOK
  <2>3. \A i \in 1 .. Len(backlog') : i \in 1 .. Len(backlog) \/ i = Len(backlog) + 1
    BY <1>3, <2>2
  <2>4. \A f \in OpenFds : owner[f] # c
    BY <2>1 DEF EachOnce
  <2>5. \A i \in 1 .. Len(backlog) : backlog[i] # c
    BY <2>1 DEF EachOnce
  <2>6. \A i, j \in 1 .. Len(backlog') : backlog'[i] = backlog'[j] => i = j
    BY <2>2, <2>3, <2>5 DEF EachOnce
  <2>7. \A f \in OpenFds, i \in 1 .. Len(backlog') : owner[f] # backlog'[i]
    BY <2>2, <2>3, <2>4 DEF EachOnce
  <2>8. \A i \in 1 .. Len(backlog') : peer'[backlog'[i]] # "new"
    BY <1>2, <1>3, <2>1, <2>2, <2>3 DEF EachOnce
  <2>9. \A f \in OpenFds : peer'[owner[f]] # "new"
    BY <1>2, <1>4 DEF EachOnce
  <2> QED
    BY <1>1, <2>6, <2>7, <2>8, <2>9 DEF EachOnce
<1> QED
  BY <1>5, <1>6

(* accept moves a connection from the backlog to a descriptor.             *)
LEMMA AcceptOnceEach ==
    ASSUME SocketTypeOK, EachOnce, FreeFds # {}, backlog # <<>>,
           NEW adding, AcceptAs(LowestFree, adding)
    PROVE  EachOnce'
<1>1. LowestFree \in FDs /\ LowestFree \notin OpenFds /\ OpenFds' = OpenFds \cup {LowestFree}
  BY AcceptOpensOne
<1>2. /\ Len(backlog) \in Nat /\ Len(backlog) >= 1 /\ Head(backlog) = backlog[1]
      /\ Len(backlog') = Len(backlog) - 1
      /\ \A i \in 1 .. Len(backlog') : backlog'[i] = backlog[i + 1]
  BY HeadTailProperties, LenProperties, EmptySeq DEF AcceptAs, SocketTypeOK
<1>3. \A i \in 1 .. Len(backlog') : i + 1 \in 1 .. Len(backlog) /\ i + 1 # 1
  BY <1>2
<1>4. /\ owner'[LowestFree] = backlog[1] /\ peer' = peer
      /\ \A f \in OpenFds : owner'[f] = owner[f] /\ f # LowestFree
  <2>1. owner' = [owner EXCEPT ![LowestFree] = Head(backlog)] /\ peer' = peer
    BY DEF AcceptAs
  <2>2. OpenFds \subseteq FDs /\ owner \in [FDs -> Conns \cup {NoConn}]
    BY DEF OpenFds, SocketTypeOK
  <2> HIDE DEF LowestFree
  <2> QED
    BY <1>1, <1>2, <2>1, <2>2
<1>5. 1 \in 1 .. Len(backlog)
  BY <1>2
<1>6. \A f, g \in OpenFds' : owner'[f] = owner'[g] => f = g
  BY <1>1, <1>4, <1>5 DEF EachOnce
<1>7. \A i, j \in 1 .. Len(backlog') : backlog'[i] = backlog'[j] => i = j
  <2> SUFFICES ASSUME NEW i \in 1 .. Len(backlog'), NEW j \in 1 .. Len(backlog'),
                      backlog'[i] = backlog'[j]
               PROVE  i = j
    OBVIOUS
  <2>1. i + 1 = j + 1
    BY <1>2, <1>3 DEF EachOnce
  <2> QED
    BY <2>1
<1>8. \A f \in OpenFds', i \in 1 .. Len(backlog') : owner'[f] # backlog'[i]
  BY <1>1, <1>2, <1>3, <1>4, <1>5 DEF EachOnce
<1>9. \A f \in OpenFds' : peer'[owner'[f]] # "new"
  BY <1>1, <1>4, <1>5 DEF EachOnce
<1>10. \A i \in 1 .. Len(backlog') : peer'[backlog'[i]] # "new"
  BY <1>2, <1>3, <1>4 DEF EachOnce
<1> QED
  BY <1>6, <1>7, <1>8, <1>9, <1>10 DEF EachOnce

(* Closing leaves fewer.                                                   *)
LEMMA CloseOnce ==
    ASSUME SocketTypeOK, EachOnce, NEW closing, NEW adding, CloseAndAdd(closing, adding)
    PROVE  EachOnce'
<1>1. OpenFds' \subseteq OpenFds /\ \A f \in OpenFds' : owner'[f] = owner[f]
  BY DEF CloseAndAdd, OpenFds
<1>2. backlog' = backlog /\ peer' = peer
  BY DEF CloseAndAdd
<1> QED
  BY <1>1, <1>2 DEF EachOnce

(* An established connection waits in the backlog or has a descriptor.     *)
LEMMA EstablishedWhere ==
    /\ SocketTypeOK =>
        \A c \in Conns : Established(c) <=> \/ \E i \in 1 .. Len(backlog) : backlog[i] = c
                                          \/ \E f \in OpenFds : owner[f] = c
    /\ SocketTypeOK' =>
        \A c \in Conns : Established(c)' <=> \/ \E i \in 1 .. Len(backlog') : backlog'[i] = c
                                           \/ \E f \in OpenFds' : owner'[f] = c
<1>1. SocketTypeOK => DOMAIN backlog = 1 .. Len(backlog)
  BY LenProperties DEF SocketTypeOK
<1>2. SocketTypeOK' => DOMAIN backlog' = 1 .. Len(backlog')
  BY LenProperties DEF SocketTypeOK
<1> QED
  BY <1>1, <1>2, SocketAssumption DEF Established, OpenFds

(* The head of the backlog and the rest of it.                             *)
LEMMA BacklogTail ==
    ASSUME SocketTypeOK, backlog # <<>>, backlog' = Tail(backlog)
    PROVE  /\ Len(backlog) \in Nat /\ 1 \in 1 .. Len(backlog) /\ Head(backlog) = backlog[1]
           /\ Head(backlog) \in Conns
           /\ backlog' \in Seq(Conns) /\ Len(backlog') = Len(backlog) - 1
           /\ \A i \in 1 .. Len(backlog') :
                    /\ backlog'[i] = backlog[i + 1]
                    /\ i + 1 \in 1 .. Len(backlog) /\ i + 1 # 1
           /\ \A i \in 1 .. Len(backlog) :
                    i = 1 \/ (i - 1 \in 1 .. Len(backlog') /\ backlog'[i - 1] = backlog[i])
<1>1. /\ backlog' \in Seq(Conns) /\ Len(backlog') = Len(backlog) - 1
      /\ Head(backlog) = backlog[1] /\ Head(backlog) \in Conns
      /\ \A i \in 1 .. Len(backlog') : backlog'[i] = backlog[i + 1]
  BY HeadTailProperties DEF SocketTypeOK
<1>2. Len(backlog) \in Nat /\ Len(backlog) # 0
  BY LenProperties, EmptySeq DEF SocketTypeOK
<1>3. \A i \in 1 .. Len(backlog) :
            i = 1 \/ (i - 1 \in 1 .. Len(backlog') /\ backlog'[i - 1] = backlog[i])
  <2> SUFFICES ASSUME NEW i \in 1 .. Len(backlog), i # 1
               PROVE  i - 1 \in 1 .. Len(backlog') /\ backlog'[i - 1] = backlog[i]
    OBVIOUS
  <2>1. i - 1 \in 1 .. Len(backlog') /\ (i - 1) + 1 = i
    BY <1>1, <1>2
  <2> QED
    BY <1>1, <2>1
<1> QED
  BY <1>1, <1>2, <1>3

(* A connection that is accepted stays established.                        *)
LEMMA AcceptEstablished ==
    ASSUME SocketTypeOK, FreeFds # {}, backlog # <<>>,
           NEW adding \in SUBSET FDs, AcceptAs(LowestFree, adding)
    PROVE  \A c \in Conns : Established(c)' <=> Established(c)
<1>1. LowestFree \in FDs /\ LowestFree \notin OpenFds /\ OpenFds' = OpenFds \cup {LowestFree}
  BY AcceptOpensOne
<1>2. SocketTypeOK'
  BY <1>1, AcceptAsTyped
<1>3. backlog' = Tail(backlog) /\ owner' = [owner EXCEPT ![LowestFree] = Head(backlog)]
  BY DEF AcceptAs
<1>4. /\ Head(backlog) = backlog[1] /\ 1 \in 1 .. Len(backlog)
      /\ \A i \in 1 .. Len(backlog') : backlog'[i] = backlog[i + 1] /\ i + 1 \in 1 .. Len(backlog)
      /\ \A i \in 1 .. Len(backlog) :
            i = 1 \/ (i - 1 \in 1 .. Len(backlog') /\ backlog'[i - 1] = backlog[i])
  BY <1>3, BacklogTail
<1>5. owner'[LowestFree] = backlog[1] /\ \A f \in OpenFds : owner'[f] = owner[f]
  <2> HIDE DEF LowestFree
  <2>1. owner \in [FDs -> Conns \cup {NoConn}] /\ OpenFds \subseteq FDs
    BY DEF OpenFds, SocketTypeOK
  <2> QED
    BY <1>1, <1>3, <1>4, <2>1
<1>6. ASSUME NEW c \in Conns
      PROVE  /\ (\E i \in 1 .. Len(backlog') : backlog'[i] = c)
                    => \E i \in 1 .. Len(backlog) : backlog[i] = c
             /\ (\E f \in OpenFds' : owner'[f] = c)
                    => \/ \E i \in 1 .. Len(backlog) : backlog[i] = c
                       \/ \E f \in OpenFds : owner[f] = c
             /\ (\E i \in 1 .. Len(backlog) : backlog[i] = c)
                    => \/ \E i \in 1 .. Len(backlog') : backlog'[i] = c
                       \/ \E f \in OpenFds' : owner'[f] = c
             /\ (\E f \in OpenFds : owner[f] = c) => \E f \in OpenFds' : owner'[f] = c
  <2> HIDE DEF LowestFree
  <2>1. (\E i \in 1 .. Len(backlog') : backlog'[i] = c)
            => \E i \in 1 .. Len(backlog) : backlog[i] = c
    BY <1>4
  <2>2. (\E f \in OpenFds' : owner'[f] = c)
            => \/ \E i \in 1 .. Len(backlog) : backlog[i] = c
               \/ \E f \in OpenFds : owner[f] = c
    BY <1>1, <1>4, <1>5
  <2>3. (\E i \in 1 .. Len(backlog) : backlog[i] = c)
            => \/ \E i \in 1 .. Len(backlog') : backlog'[i] = c
               \/ \E f \in OpenFds' : owner'[f] = c
    BY <1>1, <1>4, <1>5
  <2>4. (\E f \in OpenFds : owner[f] = c) => \E f \in OpenFds' : owner'[f] = c
    BY <1>1, <1>5
  <2> QED
    BY <2>1, <2>2, <2>3, <2>4
<1>7. \A c \in Conns :
            Established(c)' <=> \/ \E i \in 1 .. Len(backlog') : backlog'[i] = c
                                \/ \E f \in OpenFds' : owner'[f] = c
  BY <1>2, EstablishedWhere
<1> QED
  BY <1>6, <1>7, EstablishedWhere, Zenon

(* A connection that is accepted and closed at once is all that ends.      *)
LEMMA RejectEstablished ==
    ASSUME SocketTypeOK, EachOnce, backlog # <<>>, AcceptAndClose
    PROVE  /\ \A c \in Conns : Established(c)' <=> Established(c) /\ c # Head(backlog)
           /\ EachOnce'
<1>1. SocketTypeOK'
  BY AcceptAndCloseTyped
<1>2. backlog' = Tail(backlog) /\ UNCHANGED <<peer, owner>> /\ OpenFds' = OpenFds
  BY DEF AcceptAndClose, OpenFds
<1>3. /\ Head(backlog) = backlog[1] /\ Head(backlog) \in Conns /\ 1 \in 1 .. Len(backlog)
      /\ Len(backlog) \in Nat /\ Len(backlog') = Len(backlog) - 1
      /\ \A i \in 1 .. Len(backlog') :
            backlog'[i] = backlog[i + 1] /\ i + 1 \in 1 .. Len(backlog) /\ i + 1 # 1
      /\ \A i \in 1 .. Len(backlog) :
            i = 1 \/ (i - 1 \in 1 .. Len(backlog') /\ backlog'[i - 1] = backlog[i])
  BY <1>2, BacklogTail
<1>4. \A c \in Conns :
            Established(c)' <=> \/ \E i \in 1 .. Len(backlog') : backlog'[i] = c
                                \/ \E f \in OpenFds' : owner'[f] = c
  BY <1>1, EstablishedWhere
<1>5. (\A i \in 1 .. Len(backlog') : backlog'[i] # Head(backlog))
      /\ \A f \in OpenFds' : owner'[f] # Head(backlog)
  BY <1>2, <1>3 DEF EachOnce
<1>6. ASSUME NEW c \in Conns, c # Head(backlog)
      PROVE  (\E i \in 1 .. Len(backlog') : backlog'[i] = c)
                <=> \E i \in 1 .. Len(backlog) : backlog[i] = c
  BY <1>3, <1>6
<1>7. \A c \in Conns : Established(c)' <=> Established(c) /\ c # Head(backlog)
  BY <1>2, <1>4, <1>5, <1>6, EstablishedWhere, Zenon
<1>8. EachOnce'
  <2>1. ASSUME NEW i \in 1 .. Len(backlog'), NEW j \in 1 .. Len(backlog'),
               backlog'[i] = backlog'[j]
        PROVE  i = j
    <3>1. i + 1 = j + 1
      BY <1>3, <2>1 DEF EachOnce
    <3> QED
      BY <3>1
  <2>2. \A f \in OpenFds', i \in 1 .. Len(backlog') : owner'[f] # backlog'[i]
    BY <1>2, <1>3 DEF EachOnce
  <2>3. \A i \in 1 .. Len(backlog') : peer'[backlog'[i]] # "new"
    BY <1>2, <1>3 DEF EachOnce
  <2> QED
    BY <1>2, <2>1, <2>2, <2>3 DEF EachOnce
<1> QED
  BY <1>7, <1>8

(* The connections of the descriptors that are closed are all that end.    *)
LEMMA CloseEstablished ==
    ASSUME SocketTypeOK, EachOnce, NEW closing, NEW adding \in SUBSET FDs,
           CloseAndAdd(closing, adding)
    PROVE  /\ OpenFds' = OpenFds \ closing
           /\ \A f \in OpenFds' : owner'[f] = owner[f]
           /\ \A c \in Conns : Established(c)' <=>
                    Established(c) /\ \A f \in OpenFds \cap closing : owner[f] # c
<1>1. SocketTypeOK' /\ backlog' = backlog
  BY CloseAndAddTyped
<1>2. OpenFds' = OpenFds \ closing /\ \A f \in OpenFds' : owner'[f] = owner[f]
  BY DEF CloseAndAdd, OpenFds
<1>3. \A c \in Conns :
            Established(c)' <=> \/ \E i \in 1 .. Len(backlog') : backlog'[i] = c
                                \/ \E f \in OpenFds' : owner'[f] = c
  BY <1>1, EstablishedWhere
<1>4. ASSUME NEW c \in Conns
      PROVE  /\ (\E i \in 1 .. Len(backlog) : backlog[i] = c)
                    => \A f \in OpenFds : owner[f] # c
             /\ (\E f \in OpenFds' : owner'[f] = c)
                    <=> /\ \E f \in OpenFds : owner[f] = c
                        /\ \A f \in OpenFds \cap closing : owner[f] # c
  <2>1. ASSUME NEW f \in OpenFds, owner[f] = c, \A g \in OpenFds \cap closing : owner[g] # c
        PROVE  f \in OpenFds' /\ owner'[f] = c
    BY <1>2, <2>1
  <2>2. ASSUME NEW f \in OpenFds', owner'[f] = c
        PROVE  f \in OpenFds /\ owner[f] = c /\ \A g \in OpenFds \cap closing : owner[g] # c
    BY <1>2, <2>2 DEF EachOnce
  <2> QED
    BY <2>1, <2>2, Zenon DEF EachOnce
<1> QED
  BY <1>1, <1>2, <1>3, <1>4, EstablishedWhere, Zenon

(* A client that connects is established; nothing else changes that.       *)
LEMMA ClientEstablished ==
    ASSUME SocketTypeOK, NEW c \in Conns, Connect(c) \/ Deliver(c) \/ Hangup(c)
    PROVE  /\ OpenFds' = OpenFds /\ UNCHANGED <<owner, registered>>
           /\ Connect(c) => Established(c)'
           /\ \A d \in Conns : (d # c \/ ~Connect(c)) => (Established(d)' <=> Established(d))
<1>1. OpenFds' = OpenFds /\ UNCHANGED <<owner, registered>>
  BY DEF Connect, Deliver, Hangup, OpenFds
<1>2. SocketTypeOK'
  BY ClientTyped
<1>3. \A d \in Conns :
            Established(d)' <=> \/ \E i \in 1 .. Len(backlog') : backlog'[i] = d
                                \/ \E f \in OpenFds' : owner'[f] = d
  BY <1>2, EstablishedWhere
<1>4. CASE Connect(c)
  <2>1. backlog' = Append(backlog, c) /\ Len(backlog) \in Nat
    BY <1>4, LenProperties DEF Connect, SocketTypeOK
  <2>2. /\ Len(backlog') = Len(backlog) + 1
        /\ \A i \in 1 .. Len(backlog) : backlog'[i] = backlog[i]
        /\ backlog'[Len(backlog) + 1] = c
    BY <2>1, AppendProperties DEF SocketTypeOK
  <2>3. /\ Len(backlog) + 1 \in 1 .. Len(backlog')
        /\ \A i \in 1 .. Len(backlog) : i \in 1 .. Len(backlog')
        /\ \A i \in 1 .. Len(backlog') : i \in 1 .. Len(backlog) \/ i = Len(backlog) + 1
    BY <2>1, <2>2
  <2>4. Established(c)'
    BY <1>3, <2>2, <2>3
  <2>5. ASSUME NEW d \in Conns, d # c
        PROVE  (\E i \in 1 .. Len(backlog') : backlog'[i] = d)
                    <=> \E i \in 1 .. Len(backlog) : backlog[i] = d
    BY <2>2, <2>3, <2>5
  <2> QED
    BY <1>1, <1>3, <1>4, <2>4, <2>5, EstablishedWhere, Zenon
<1>5. CASE ~Connect(c)
  <2>1. backlog' = backlog
    BY <1>5 DEF Deliver, Hangup
  <2> QED
    BY <1>1, <1>3, <1>5, <2>1, EstablishedWhere, Zenon
<1> QED
  BY <1>4, <1>5

=============================================================================
