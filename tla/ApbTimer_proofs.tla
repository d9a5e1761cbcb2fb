--------------------------- MODULE ApbTimer_proofs ---------------------------
(* Theorems about the APB bridge and the timer, for any width of a word and *)
(* any addresses.                                                           *)
EXTENDS ApbTimer, TLAPS

Transactions ==
  [at : {"idle", "delay", "setup", "enable", "access"}, write : BOOLEAN,
   addr : Nat, data : Word \cup {X}, wasOn : BOOLEAN]

Signals ==
  [psel : BOOLEAN, penable : BOOLEAN, pwrite : BOOLEAN, paddr : Nat, pwdata : Word]

Timers == [en : BOOLEAN, irq : BOOLEAN, cnt : Word, div : Word, free : Word]

Replies == [pready : BOOLEAN, prdata : Word \cup {X}]

Types ==
  /\ clk \in BOOLEAN /\ trans \in Transactions /\ apb \in Signals
  /\ tmr \in Timers /\ reply \in Replies

\* The signals are those of the place where the bridge is, and the timer is not
\* ready before it is enabled.
Handshake ==
  /\ apb.psel = (trans.at # "idle")
  /\ apb.penable = (trans.at = "access")
  /\ trans.at # "idle" => apb.pwrite = trans.write
  /\ trans.at = "enable" => ~reply.pready

\* The timer has seen one edge of the access and waits for the bridge to.
Answered == trans.at = "access" /\ reply.pready

\* What was read is the register at the edge before.
ReadOne ==
  Answered /\ ~trans.write =>
    \E t \in Timers : tmr = Counted(t) /\ reply.prdata = ValueOf(t, Decoded)

\* A timer is as it was until the write, which happens at both edges: the
\* first reloads, the second counts.
WrittenOne ==
  /\ trans.at # "idle" /\ ~Answered => tmr.en = trans.wasOn
  /\ Answered /\ trans.write /\ Decoded = 0 /\ apb.pwdata % 2 = 1 /\ ~trans.wasOn
       => tmr.en /\ tmr.cnt = tmr.div

IInv == Types /\ Handshake /\ ReadOne /\ WrittenOne

-----------------------------------------------------------------------------

LEMMA WordFacts ==
  /\ WordMod \in Nat /\ {0, 1, 2, 3} \subseteq Word
  /\ \A v \in Int : v % WordMod \in Word
<1>1. WordMod \in Nat /\ WordMod > 3
  BY TimerConstants
<1>2. ASSUME NEW v \in Int PROVE v % WordMod \in Word
  BY <1>1, Z3 DEF Word
<1> QED BY <1>1, <1>2 DEF Word

\* What counting does to each register
LEMMA CountedFields ==
  ASSUME NEW t \in Timers
  PROVE  /\ Counted(t) \in Timers
         /\ Counted(t).en = t.en /\ Counted(t).div = t.div
         /\ Counted(t).irq = (t.irq \/ (t.en /\ t.cnt = 0))
         /\ Counted(t).free = (t.free + 1) % WordMod
         /\ Counted(t).cnt = IF ~t.en THEN t.cnt
                             ELSE IF t.cnt = 0 THEN t.div ELSE t.cnt - 1
<1> DEFINE c == IF ~t.en THEN t.cnt ELSE IF t.cnt = 0 THEN t.div ELSE t.cnt - 1
           i == t.irq \/ (t.en /\ t.cnt = 0)
           f == (t.free + 1) % WordMod
<1>1. Counted(t) = [t EXCEPT !.free = f, !.cnt = c, !.irq = i]
  BY DEF Counted
<1>2. t.free + 1 \in Int /\ t.cnt \in Word /\ t.div \in Word
  BY WordFacts DEF Timers, Word
<1>3. f \in Word
  BY <1>2, WordFacts
<1>4. c \in Word
  BY <1>2, WordFacts DEF Word
<1>5. i \in BOOLEAN
  OBVIOUS
<1> HIDE DEF c, i, f
<1>6. /\ Counted(t) \in Timers
      /\ Counted(t).en = t.en /\ Counted(t).div = t.div
      /\ Counted(t).irq = i /\ Counted(t).free = f /\ Counted(t).cnt = c
  BY <1>1, <1>3, <1>4, <1>5 DEF Timers
<1> QED BY <1>6 DEF c, i, f

LEMMA WrittenFields ==
  ASSUME Types, NEW t \in Timers
  PROVE  /\ Written(tmr, t) \in Timers
         /\ Decoded = 0 => LET w == Written(tmr, t)
                               en == apb.pwdata % 2 = 1
                           IN /\ w.en = en /\ w.div = t.div
                              /\ w.cnt = IF en /\ ~tmr.en THEN tmr.div ELSE t.cnt
<1> DEFINE v == apb.pwdata
           en == v % 2 = 1
           irq == v \div 2 % 2 = 1
           cnt == IF en /\ ~tmr.en THEN tmr.div ELSE t.cnt
<1>1. v \in Word /\ cnt \in Word /\ en \in BOOLEAN /\ irq \in BOOLEAN
  BY DEF Types, Signals, Timers
<1>2. CASE Decoded = 0
  <2>1. Written(tmr, t) = [t EXCEPT !.en = en, !.irq = irq, !.cnt = cnt]
    BY <1>2 DEF Written
  <2> HIDE DEF v, en, irq, cnt
  <2>2. /\ Written(tmr, t) \in Timers /\ Written(tmr, t).en = en
        /\ Written(tmr, t).div = t.div /\ Written(tmr, t).cnt = cnt
    BY <1>1, <2>1 DEF Timers
  <2> QED BY <2>2 DEF v, en, cnt
<1>3. CASE Decoded # 0
  <2>1. Written(tmr, t) \in {t, [t EXCEPT !.cnt = v], [t EXCEPT !.div = v],
                             [t EXCEPT !.free = v]}
    BY <1>3 DEF Written
  <2> QED BY <1>1, <1>3, <2>1 DEF Timers
<1> QED BY <1>2, <1>3

LEMMA ValueType ==
  ASSUME NEW t \in Timers, NEW r \in Nat
  PROVE  ValueOf(t, r) \in Word \cup {X}
<1>1. Cfg(t) \in Word
  BY WordFacts DEF Cfg
<1> QED BY <1>1 DEF ValueOf, Timers

LEMMA InitInv == Init => IInv
<1> SUFFICES ASSUME Init PROVE IInv
  OBVIOUS
<1>1. 0 \in Word
  BY WordFacts
<1>2. Types
  BY <1>1 DEF Init, Types, Transactions, Signals, Timers, Replies
<1>3. /\ trans.at = "idle" /\ apb.psel = FALSE /\ apb.penable = FALSE
  BY DEF Init
<1> QED
  BY <1>2, <1>3 DEF IInv, Handshake, ReadOne, WrittenOne, Answered

LEMMA RequestInv ==
  ASSUME IInv, NEW a \in Addresses, NEW w \in BOOLEAN, NEW v \in Word,
         Request(a, w, v)
  PROVE  IInv'
<1> DEFINE d == IF w THEN v ELSE 0
           p == Paddr(a)
<1>1. /\ trans.at = "idle"
      /\ trans' = [at |-> "delay", write |-> w, addr |-> a, data |-> v,
                   wasOn |-> tmr.en]
      /\ apb' = [apb EXCEPT !.psel = TRUE, !.pwrite = w, !.paddr = p, !.pwdata = d]
      /\ clk' = clk /\ tmr' = tmr /\ reply' = reply
  BY DEF Request
<1>2. Types /\ Handshake
  BY DEF IInv
<1>3. a \in Nat /\ p \in Nat /\ d \in Word
  <2>1. a \in Nat
    BY TimerConstants
  <2>2. a \div 4 \in Nat
    BY <2>1, Z3
  <2> QED BY <2>1, <2>2, WordFacts DEF Paddr
<1> HIDE DEF d, p
<1>4. trans' \in Transactions /\ trans'.at = "delay" /\ trans'.write = w
      /\ trans'.wasOn = tmr.en
  BY <1>1, <1>2, <1>3 DEF Types, Transactions, Timers
<1>5. /\ apb' \in Signals /\ apb'.psel = TRUE /\ apb'.penable = apb.penable
      /\ apb'.pwrite = w
  BY <1>1, <1>2, <1>3 DEF Types, Signals
<1>6. Types'
  BY <1>1, <1>2, <1>4, <1>5 DEF Types
<1>7. Handshake'
  BY <1>1, <1>2, <1>4, <1>5 DEF Handshake
<1>8. ReadOne' /\ WrittenOne'
  BY <1>1, <1>4 DEF ReadOne, WrittenOne, Answered
<1> QED BY <1>6, <1>7, <1>8 DEF IInv

LEMMA DelayOverInv == IInv /\ DelayOver => IInv'
<1> SUFFICES ASSUME IInv, DelayOver PROVE IInv'
  OBVIOUS
<1>1. /\ trans.at = "delay" /\ trans' = [trans EXCEPT !.at = "setup"]
      /\ clk' = clk /\ apb' = apb /\ tmr' = tmr /\ reply' = reply
  BY DEF DelayOver
<1>2. Types /\ Handshake /\ WrittenOne
  BY DEF IInv
<1>3. trans' \in Transactions /\ trans'.at = "setup" /\ trans'.write = trans.write
      /\ trans'.wasOn = trans.wasOn
  BY <1>1, <1>2 DEF Types, Transactions
<1>4. Types' /\ Handshake'
  BY <1>1, <1>2, <1>3 DEF Types, Handshake
<1>5. ReadOne' /\ WrittenOne'
  BY <1>1, <1>2, <1>3 DEF ReadOne, WrittenOne, Answered
<1> QED BY <1>4, <1>5 DEF IInv

LEMMA NegEdgeInv == IInv /\ NegEdge => IInv'
<1> SUFFICES ASSUME IInv, NegEdge PROVE IInv'
  OBVIOUS
<1>1. BridgeNegEdge /\ clk' = FALSE /\ tmr' = tmr /\ reply' = reply
  BY DEF NegEdge
<1>2. Types /\ Handshake /\ ReadOne /\ WrittenOne
  BY DEF IInv
<1>3. CASE trans.at = "enable"
  <2>1. /\ trans' = [trans EXCEPT !.at = "access"]
        /\ apb' = [apb EXCEPT !.penable = TRUE]
    BY <1>1, <1>3 DEF BridgeNegEdge
  <2>2. /\ trans' \in Transactions /\ trans'.at = "access"
        /\ trans'.write = trans.write /\ trans'.wasOn = trans.wasOn
    BY <1>2, <2>1 DEF Types, Transactions
  <2>3. /\ apb' \in Signals /\ apb'.penable = TRUE /\ apb'.psel = apb.psel
        /\ apb'.pwrite = apb.pwrite
    BY <1>2, <2>1 DEF Types, Signals
  <2>4. ~reply.pready
    BY <1>2, <1>3 DEF Handshake
  <2>5. Types'
    BY <1>1, <1>2, <2>2, <2>3 DEF Types
  <2>6. Handshake'
    BY <1>1, <1>2, <1>3, <2>2, <2>3 DEF Handshake
  <2>7. ReadOne' /\ WrittenOne'
    BY <1>1, <1>2, <1>3, <2>2, <2>4 DEF ReadOne, WrittenOne, Answered
  <2> QED BY <2>5, <2>6, <2>7 DEF IInv
<1>4. CASE trans.at # "enable"
  <2>1. trans' = trans /\ apb' = apb
    BY <1>1, <1>4 DEF BridgeNegEdge
  <2>2. Types' /\ Handshake'
    BY <1>1, <1>2, <2>1 DEF Types, Handshake
  <2>3. ReadOne' /\ WrittenOne'
    BY <1>1, <1>2, <2>1 DEF ReadOne, WrittenOne, Answered, Decoded
  <2> QED BY <2>2, <2>3 DEF IInv
<1> QED BY <1>3, <1>4

\* What an edge does to the timer and what it answers
LEMMA TimerEdge ==
  ASSUME IInv, TimerPosEdge
  PROVE  /\ tmr' \in Timers /\ reply' \in Replies
         /\ reply'.pready = (trans.at = "access")
         /\ apb.psel => reply'.prdata = ValueOf(tmr, Decoded)
         /\ ~Writing => tmr' = Counted(tmr) /\ tmr'.en = tmr.en
         /\ Writing => tmr' = Written(tmr, Counted(tmr))
<1>1. Types /\ Handshake /\ tmr \in Timers
  BY DEF IInv, Types
<1>2. /\ Counted(tmr) \in Timers /\ Counted(tmr).en = tmr.en
      /\ Written(tmr, Counted(tmr)) \in Timers
  BY <1>1, CountedFields, WrittenFields
<1>3. Decoded \in Nat
  <2>1. apb.paddr \in Nat
    BY <1>1 DEF Types, Signals
  <2> QED BY <2>1, Z3 DEF Decoded
<1>4. ValueOf(tmr, Decoded) \in Word \cup {X}
  BY <1>1, <1>3, ValueType
<1>5. Ready = (trans.at = "access")
  BY <1>1 DEF Handshake, Ready, Types, Signals
<1> DEFINE d == IF apb.psel THEN ValueOf(tmr, Decoded) ELSE X
<1>6. reply' = [pready |-> Ready, prdata |-> d] /\ Ready \in BOOLEAN
  BY <1>5 DEF TimerPosEdge
<1>7. d \in Word \cup {X} /\ (apb.psel => d = ValueOf(tmr, Decoded))
  BY <1>4
<1> HIDE DEF d
<1>8. reply' \in Replies /\ reply'.pready = Ready /\ reply'.prdata = d
  BY <1>6, <1>7 DEF Replies
<1>9. /\ ~Writing => tmr' = Counted(tmr)
      /\ Writing => tmr' = Written(tmr, Counted(tmr))
  BY DEF TimerPosEdge
<1> QED BY <1>2, <1>5, <1>7, <1>8, <1>9

\* and what the bridge makes of it
LEMMA BridgeEdge ==
  ASSUME IInv, BridgePosEdge
  PROVE  /\ trans' \in Transactions /\ apb' \in Signals
         /\ trans'.write = trans.write /\ trans'.wasOn = trans.wasOn
         /\ apb'.pwrite = apb.pwrite /\ apb'.paddr = apb.paddr
         /\ apb'.pwdata = apb.pwdata
         /\ trans'.at = CASE trans.at = "setup" -> "enable"
                          [] Answered -> "idle"
                          [] OTHER -> trans.at
         /\ apb'.psel = (trans'.at # "idle") /\ apb'.penable = (trans'.at = "access")
         /\ Answered /\ ~trans.write => trans'.data = reply.prdata
<1>1. /\ trans \in Transactions /\ apb \in Signals /\ reply \in Replies /\ Handshake
  BY DEF IInv, Types
<1>2. CASE trans.at = "setup"
  <2>1. trans' = [trans EXCEPT !.at = "enable"] /\ apb' = apb
    BY <1>2 DEF BridgePosEdge
  <2>2. /\ trans' \in Transactions /\ trans'.at = "enable"
        /\ trans'.write = trans.write /\ trans'.wasOn = trans.wasOn
    BY <1>1, <2>1 DEF Transactions
  <2> QED BY <1>1, <1>2, <2>1, <2>2 DEF Handshake, Answered
<1>3. CASE trans.at = "access"
  <2> DEFINE d == IF trans.write THEN trans.data ELSE reply.prdata
             p == IF reply.pready THEN "idle" ELSE "access"
             s == ~reply.pready
  <2>1. /\ trans' = [trans EXCEPT !.data = d, !.at = p]
        /\ apb' = [apb EXCEPT !.psel = s, !.penable = s]
    BY <1>3 DEF BridgePosEdge
  <2>2. /\ d \in Word \cup {X} /\ s \in BOOLEAN
        /\ p \in {"idle", "delay", "setup", "enable", "access"}
        /\ s = (p # "idle") /\ s = (p = "access")
        /\ (~trans.write => d = reply.prdata)
        /\ p = (IF Answered THEN "idle" ELSE "access")
    BY <1>1, <1>3 DEF Transactions, Replies, Answered
  <2> HIDE DEF d, p, s
  <2>3. /\ trans' \in Transactions /\ trans'.at = p /\ trans'.data = d
        /\ trans'.write = trans.write /\ trans'.wasOn = trans.wasOn
    BY <1>1, <2>1, <2>2 DEF Transactions
  <2>4. /\ apb' \in Signals /\ apb'.psel = s /\ apb'.penable = s
        /\ apb'.pwrite = apb.pwrite /\ apb'.paddr = apb.paddr
        /\ apb'.pwdata = apb.pwdata
    BY <1>1, <2>1, <2>2 DEF Signals
  <2> QED BY <1>3, <2>2, <2>3, <2>4
<1>4. CASE trans.at \notin {"setup", "access"}
  <2>1. trans' = trans /\ apb' = apb
    BY <1>4 DEF BridgePosEdge
  <2> QED BY <1>1, <1>4, <2>1 DEF Handshake, Answered
<1> QED BY <1>2, <1>3, <1>4

LEMMA PosEdgeInv == IInv /\ PosEdge => IInv'
<1> SUFFICES ASSUME IInv, PosEdge PROVE IInv'
  OBVIOUS
<1>1. Types /\ Handshake /\ ReadOne /\ WrittenOne /\ tmr \in Timers
  BY DEF IInv, Types
<1>2. BridgePosEdge /\ TimerPosEdge /\ clk' = TRUE
  BY DEF PosEdge
<1>3. /\ trans' \in Transactions /\ apb' \in Signals
      /\ trans'.write = trans.write /\ trans'.wasOn = trans.wasOn
      /\ apb'.pwrite = apb.pwrite /\ apb'.paddr = apb.paddr
      /\ apb'.pwdata = apb.pwdata
      /\ trans'.at = CASE trans.at = "setup" -> "enable"
                       [] Answered -> "idle"
                       [] OTHER -> trans.at
      /\ apb'.psel = (trans'.at # "idle") /\ apb'.penable = (trans'.at = "access")
  BY <1>2, BridgeEdge
<1>4. /\ tmr' \in Timers /\ reply' \in Replies
      /\ reply'.pready = (trans.at = "access")
      /\ apb.psel => reply'.prdata = ValueOf(tmr, Decoded)
      /\ ~Writing => tmr' = Counted(tmr) /\ tmr'.en = tmr.en
      /\ Writing => tmr' = Written(tmr, Counted(tmr))
  BY <1>2, TimerEdge
<1>5. Types'
  BY <1>2, <1>3, <1>4 DEF Types
<1>6. Decoded' = Decoded
  BY <1>3 DEF Decoded
<1>7. Answered' <=> trans.at = "access" /\ ~Answered
  BY <1>3, <1>4 DEF Answered
<1>8. Handshake'
  BY <1>1, <1>3, <1>4 DEF Handshake, Answered
<1>9. Writing <=> trans.at = "access" /\ trans.write
  BY <1>1 DEF Handshake, Writing
<1>10. ReadOne'
  <2> SUFFICES ASSUME Answered', ~trans'.write
               PROVE  \E t \in Timers : tmr' = Counted(t) /\ reply'.prdata = ValueOf(t, Decoded)
    BY <1>6 DEF ReadOne
  <2>1. tmr' = Counted(tmr) /\ reply'.prdata = ValueOf(tmr, Decoded)
    BY <1>1, <1>3, <1>4, <1>7, <1>9 DEF Handshake
  <2> QED BY <1>1, <2>1
<1>11. WrittenOne'
  <2>1. ASSUME trans'.at # "idle", ~Answered' PROVE tmr'.en = trans'.wasOn
    <3>1. trans.at \notin {"idle", "access"}
      BY <1>3, <1>7, <2>1 DEF Answered
    <3>2. tmr.en = trans.wasOn
      BY <1>1, <3>1 DEF WrittenOne, Answered
    <3> QED BY <1>3, <1>4, <1>9, <3>1, <3>2
  <2>2. ASSUME Answered', trans.write, Decoded = 0, apb.pwdata % 2 = 1, ~trans.wasOn
        PROVE  tmr'.en /\ tmr'.cnt = tmr'.div
    <3>1. trans.at = "access" /\ ~Answered /\ ~tmr.en
      BY <1>1, <1>7, <2>2 DEF WrittenOne
    <3>2. tmr' = Written(tmr, Counted(tmr)) /\ Counted(tmr) \in Timers
          /\ Counted(tmr).div = tmr.div
      BY <1>1, <1>4, <1>9, <2>2, <3>1, CountedFields
    <3>3. tmr'.en /\ tmr'.div = tmr.div /\ tmr'.cnt = tmr.div
      BY <1>1, <2>2, <3>1, <3>2, WrittenFields
    <3> QED BY <3>3
  <2> QED BY <1>3, <1>6, <2>1, <2>2 DEF WrittenOne
<1> QED BY <1>5, <1>8, <1>10, <1>11 DEF IInv

LEMMA NextInv == IInv /\ [Next]_vars => IInv'
<1> SUFFICES ASSUME IInv, [Next]_vars PROVE IInv'
  OBVIOUS
<1>1. CASE \E a \in Addresses : \/ Request(a, FALSE, 0)
                                \/ \E v \in Word : Request(a, TRUE, v)
  <2>1. 0 \in Word
    BY WordFacts
  <2> QED BY <1>1, <2>1, RequestInv
<1>2. CASE UNCHANGED vars
  BY <1>2 DEF vars, IInv, Types, Handshake, ReadOne, WrittenOne, Answered, Decoded
<1> QED
  BY <1>1, <1>2, DelayOverInv, PosEdgeInv, NegEdgeInv DEF Next

LEMMA Always == Spec => []IInv
BY InitInv, NextInv, PTL DEF Spec

\* An access returns at a rising edge, and only when the timer has answered.
LEMMA CompletesAtEdge ==
  ASSUME IInv, Next, Completes
  PROVE  PosEdge /\ Answered
<1>1. trans \in Transactions /\ trans.at = "access" /\ trans'.at = "idle"
  BY DEF IInv, Types, Completes
<1>2. ~(\E a \in Addresses : \/ Request(a, FALSE, 0)
                            \/ \E v \in Word : Request(a, TRUE, v))
  BY <1>1 DEF Request
<1>3. ~DelayOver
  BY <1>1 DEF DelayOver
<1>4. ~NegEdge
  BY <1>1 DEF NegEdge, BridgeNegEdge
<1>5. PosEdge
  BY <1>2, <1>3, <1>4 DEF Next
<1>6. trans'.at = CASE trans.at = "setup" -> "enable"
                    [] Answered -> "idle"
                    [] OTHER -> trans.at
  BY <1>5, BridgeEdge DEF PosEdge
<1> QED BY <1>1, <1>5, <1>6

\* The registers keep their width: the counter reaches 0 before it would wrap.
THEOREM TimerTypeCorrect == Spec => []TypeOK
<1>1. IInv => TypeOK
  BY DEF IInv, Types, TypeOK, Transactions, Signals, Timers, Replies
<1> QED
  BY <1>1, Always, PTL

\* A read returns the register as it was at the edge before it returns, whatever
\* the access before it was and wherever between the edges it began.
THEOREM TimerReadsFresh == Spec => ReadsFresh
<1> DEFINE Fresh == Completes /\ ~trans.write =>
       CASE Decoded = 0 -> trans'.data \in {Cfg(tmr), Cfg([tmr EXCEPT !.irq = FALSE])}
         [] Decoded = 1 -> tmr.cnt = Counted([tmr EXCEPT !.cnt = trans'.data]).cnt
         [] Decoded = 2 -> trans'.data = tmr.div
         [] Decoded = 3 -> tmr.free = (trans'.data + 1) % WordMod
         [] OTHER -> trans'.data = X
<1>1. ASSUME IInv, [Next]_vars PROVE [Fresh]_vars
  <2> SUFFICES ASSUME Next, Completes, ~trans.write
               PROVE  Fresh
    BY <1>1
  <2>1. PosEdge /\ Answered
    BY <1>1, CompletesAtEdge
  <2>2. trans'.data = reply.prdata
    BY <1>1, <2>1, BridgeEdge DEF PosEdge
  <2>3. PICK t \in Timers : tmr = Counted(t) /\ reply.prdata = ValueOf(t, Decoded)
    BY <1>1, <2>1 DEF IInv, ReadOne
  <2>4. tmr \in Timers
    BY <1>1 DEF IInv, Types
  <2>5. /\ tmr.en = t.en /\ tmr.div = t.div
        /\ tmr.irq = (t.irq \/ (t.en /\ t.cnt = 0))
        /\ tmr.free = (t.free + 1) % WordMod
        /\ tmr.cnt = IF ~t.en THEN t.cnt
                     ELSE IF t.cnt = 0 THEN t.div ELSE t.cnt - 1
    BY <2>3, CountedFields
  <2>6. CASE Decoded = 0
    <3>1. trans'.data = Cfg(t)
      BY <2>2, <2>3, <2>6 DEF ValueOf
    <3> DEFINE u == [tmr EXCEPT !.irq = FALSE]
    <3>2. u.irq = FALSE /\ u.en = tmr.en
      BY <2>4 DEF Timers
    <3> HIDE DEF u
    <3>3. t.irq \in BOOLEAN /\ tmr.irq \in BOOLEAN /\ (t.irq => tmr.irq)
      <4>1. t.irq \in BOOLEAN /\ tmr.irq \in BOOLEAN
        BY <2>4 DEF Timers
      <4>2. tmr.irq = (t.irq \/ (t.en /\ t.cnt = 0))
        BY <2>5
      <4>3. t.irq => tmr.irq
        BY <4>2, Zenon
      <4> QED BY <4>1, <4>3
    <3>4. t.irq => Cfg(t) = Cfg(tmr)
      BY <2>5, <3>3 DEF Cfg
    <3>5. ~t.irq => Cfg(t) = Cfg(u)
      BY <2>5, <3>2, <3>3 DEF Cfg
    <3>6. trans'.data \in {Cfg(tmr), Cfg(u)}
      BY <3>1, <3>4, <3>5
    <3>7. trans'.data \in {Cfg(tmr), Cfg([tmr EXCEPT !.irq = FALSE])}
      BY <3>6 DEF u
    <3> QED BY <2>6, <3>7
  <2>7. CASE Decoded = 1
    <3>1. trans'.data = t.cnt /\ t.cnt \in Word
      BY <2>2, <2>3, <2>7 DEF ValueOf, Timers
    <3> DEFINE u == [tmr EXCEPT !.cnt = trans'.data]
    <3>2. u \in Timers /\ u.cnt = t.cnt /\ u.en = t.en /\ u.div = t.div
      BY <2>4, <2>5, <3>1 DEF Timers
    <3> HIDE DEF u
    <3>3. Counted(u).cnt = tmr.cnt
      BY <2>5, <3>2, CountedFields
    <3>4. tmr.cnt = Counted([tmr EXCEPT !.cnt = trans'.data]).cnt
      BY <3>3 DEF u
    <3> QED BY <2>7, <3>4
  <2>8. CASE Decoded = 2
    BY <2>2, <2>3, <2>5, <2>8 DEF ValueOf
  <2>9. CASE Decoded = 3
    BY <2>2, <2>3, <2>5, <2>9 DEF ValueOf
  <2>10. CASE Decoded \notin {0, 1, 2, 3}
    BY <2>2, <2>3, <2>10 DEF ValueOf
  <2> QED BY <2>6, <2>7, <2>8, <2>9, <2>10
<1> QED
  BY <1>1, Always, PTL DEF Spec, ReadsFresh

\* Enabling the timer reloads the divisor, although the write is made at two
\* edges, between which the timer runs.
THEOREM TimerEnableReloads == Spec => EnableReloads
<1> DEFINE Reloads == Completes /\ trans.write /\ Decoded = 0 /\ apb.pwdata % 2 = 1
                        /\ ~trans.wasOn
                      => tmr'.cnt = (IF tmr.div = 0 THEN 0 ELSE tmr.div - 1)
<1>1. ASSUME IInv, [Next]_vars PROVE [Reloads]_vars
  <2> SUFFICES ASSUME Next, Completes, trans.write, Decoded = 0, apb.pwdata % 2 = 1,
                      ~trans.wasOn
               PROVE  tmr'.cnt = (IF tmr.div = 0 THEN 0 ELSE tmr.div - 1)
    BY <1>1
  <2>1. PosEdge /\ Answered
    BY <1>1, CompletesAtEdge
  <2>2. tmr.en /\ tmr.cnt = tmr.div /\ tmr \in Timers /\ Types
    BY <1>1, <2>1 DEF IInv, WrittenOne, Types
  <2>3. Writing
    BY <1>1, <2>1 DEF IInv, Handshake, Writing, Answered
  <2>4. tmr' = Written(tmr, Counted(tmr))
    BY <2>1, <2>3 DEF PosEdge, TimerPosEdge
  <2>5. tmr'.cnt = Counted(tmr).cnt
    BY <2>2, <2>4, CountedFields, WrittenFields
  <2> QED BY <2>2, <2>5, CountedFields
<1> QED
  BY <1>1, Always, PTL DEF Spec, EnableReloads
=============================================================================
