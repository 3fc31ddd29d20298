--------------------------- MODULE OrderStock_proofs ---------------------------
(***************************************************************************)
(* What holds of OrderStock for every set of orders, lines, SKUs and       *)
(* requests: the types of its columns and counters and, as long as the     *)
(* staff follow none of the practices that OrderStock names, the agreement *)
(* of an order's return counts with where its goods are, and the two sums  *)
(* over all orders that the counters stand for.                            *)
(***************************************************************************)
EXTENDS OrderStock, SumTheorems, TLAPS

\* A slot without a row has no counts.
EmptySlots == \A o \in Orders, l \in Lines :
                 line[o][l].qty = 0 => line[o][l].back = 0 /\ line[o][l].off = 0

\* Nobody asks for zero units.
PositiveRequests == \A h \in Requests :
    edit[h] # Idle /\ edit[h].kind # "remove" => edit[h].qty # 0

Typed == OrdersOK /\ EmptySlots /\ PositiveRequests

\* No line of o has more units back and written off than it sold.
Fits(o) == \A l \in Lines : line[o][l].back + line[o][l].off <= line[o][l].qty

\* The lines of o get counts that fit, provided the earlier ones did.
Recounted(o) ==
    \E back, off \in [Lines -> Nat] :
        /\ SetCounts(o, back, off)
        /\ \A l \in Lines : line[o][l].qty = 0 => back[l] = 0 /\ off[l] = 0
        /\ Fits(o) => \A l \in Lines : back[l] + off[l] <= line[o][l].qty

LEMMA RetCounts ==
    ASSUME NEW ret \in ReturnLines, NEW l \in DOMAIN ret
    PROVE  ret[l].restock \in Nat /\ ret[l].writeOff \in Nat
<1>1. Counts \subseteq Nat
  BY ConstantsAssumption DEF Counts
<1>2. PICK S \in SUBSET Lines : ret \in [S -> [restock : Counts, writeOff : Counts]]
  BY DEF ReturnLines
<1> QED
  BY <1>1, <1>2

LEMMA RowTyped ==
    ASSUME OrdersOK, NEW o \in Orders, NEW l \in Lines
    PROVE  /\ line[o][l].qty \in Nat
           /\ line[o][l].back \in Nat
           /\ line[o][l].off \in Nat
BY DEF OrdersOK, LineRow

-----------------------------------------------------------------------------
\* The three ways of recording a return.

LEMMA SetReturnStockRecounts ==
    ASSUME Typed, NEW o \in Orders, NEW ret \in ReturnLines, setReturnStock(o, ret)
    PROVE  Recounted(o)
<1> DEFINE onShelf(l) == IF Counted(o) THEN line[o][l].back ELSE line[o][l].qty
           returned(l) == IF Counted(o) THEN line[o][l].back + line[o][l].off
                                        ELSE line[o][l].qty
           back(l) == IF l \in DOMAIN ret THEN ret[l].restock ELSE onShelf(l)
<1>1. /\ DOMAIN ret \subseteq Rows(o)
      /\ \A l \in Rows(o) : back(l) \in 0..returned(l)
      /\ SetCounts(o, [l \in Lines |-> back(l)], [l \in Lines |-> returned(l) - back(l)])
  BY DEF setReturnStock, Rows
<1>2. ASSUME NEW l \in Lines
      PROVE  /\ back(l) \in Nat /\ returned(l) - back(l) \in Nat
             /\ line[o][l].qty = 0 => back(l) = 0 /\ returned(l) - back(l) = 0
             /\ Fits(o) => back(l) + (returned(l) - back(l)) <= line[o][l].qty
  <2>1. CASE l \in Rows(o)
    BY <2>1, <1>1, RowTyped DEF Fits, Typed, Rows
  <2>2. CASE l \notin Rows(o)
    BY <2>2, <1>1, RowTyped DEF Rows, Fits, Typed, EmptySlots
  <2> QED
    BY <2>1, <2>2
<1> HIDE DEF back, returned
<1> QED
  BY <1>1, <1>2 DEF Recounted

LEMMA WriteOffRecounts ==
    ASSUME Typed, NEW o \in Orders, NEW ret \in ReturnLines, writeOffFromShelf(o, ret)
    PROVE  Recounted(o)
<1> DEFINE onShelf(l) == IF Counted(o) THEN line[o][l].back ELSE line[o][l].qty
           prevOff(l) == IF Counted(o) THEN line[o][l].off ELSE 0
           more(l) == IF l \in DOMAIN ret /\ ret[l].writeOff > prevOff(l)
                      THEN ret[l].writeOff - prevOff(l) ELSE 0
           back(l) == IF more(l) > 0 THEN onShelf(l) - more(l) ELSE line[o][l].back
           off(l) == IF more(l) > 0 THEN ret[l].writeOff ELSE line[o][l].off
<1>1. /\ DOMAIN ret \subseteq Rows(o)
      /\ \A l \in Rows(o) : more(l) <= onShelf(l)
      /\ SetCounts(o, [l \in Lines |-> back(l)], [l \in Lines |-> off(l)])
  BY DEF writeOffFromShelf, Rows
<1>2. ASSUME NEW l \in Lines
      PROVE  /\ back(l) \in Nat /\ off(l) \in Nat
             /\ line[o][l].qty = 0 => back(l) = 0 /\ off(l) = 0
             /\ Fits(o) => back(l) + off(l) <= line[o][l].qty
  <2>1. CASE more(l) > 0
    <3>1. l \in DOMAIN ret /\ l \in Rows(o)
      BY <2>1, <1>1
    <3>2. /\ prevOff(l) \in Nat /\ onShelf(l) \in Nat /\ ret[l].writeOff \in Nat
          /\ Fits(o) => onShelf(l) + prevOff(l) <= line[o][l].qty
      BY <3>1, RetCounts, RowTyped DEF Typed, Fits
    <3>3. more(l) = ret[l].writeOff - prevOff(l) /\ more(l) <= onShelf(l)
      BY <2>1, <3>1, <3>2, <1>1
    <3>4. line[o][l].qty # 0
      BY <3>1 DEF Rows
    <3> HIDE DEF more, prevOff, onShelf
    <3>5. back(l) = onShelf(l) - more(l) /\ off(l) = ret[l].writeOff
      BY <2>1
    <3> QED
      BY <2>1, <3>2, <3>3, <3>4, <3>5, RowTyped DEF Typed
  <2>2. CASE ~(more(l) > 0)
    BY <2>2, RowTyped DEF Typed, EmptySlots, Fits
  <2> QED
    BY <2>1, <2>2
<1> HIDE DEF back, off
<1> QED
  BY <1>1, <1>2 DEF Recounted

LEMMA ApplyReturnRecounts ==
    ASSUME Typed, NEW o \in Orders, NEW s, NEW ret \in ReturnLines,
           NEW fromPartial \in BOOLEAN, applyReturnLines(o, s, ret, fromPartial)
    PROVE  Recounted(o)
<1> DEFINE prevBack(l) == IF fromPartial THEN line[o][l].back ELSE 0
           prevOff(l) == IF fromPartial THEN line[o][l].off ELSE 0
           back(l) == IF l \in DOMAIN ret THEN ret[l].restock
                      ELSE line[o][l].qty - prevOff(l)
           off(l) == IF l \in DOMAIN ret THEN ret[l].writeOff ELSE prevOff(l)
<1>1. /\ DOMAIN ret \subseteq Rows(o)
      /\ \A l \in Rows(o) : /\ back(l) >= prevBack(l) /\ off(l) >= prevOff(l)
                            /\ back(l) + off(l) <= line[o][l].qty
      /\ SetCounts(o, [l \in Lines |-> back(l)], [l \in Lines |-> off(l)])
  BY DEF applyReturnLines, Rows
<1>2. ASSUME NEW l \in Lines
      PROVE  /\ back(l) \in Nat /\ off(l) \in Nat
             /\ line[o][l].qty = 0 => back(l) = 0 /\ off(l) = 0
             /\ back(l) + off(l) <= line[o][l].qty
  <2>0. /\ prevBack(l) \in Nat /\ prevOff(l) \in Nat
        /\ l \in DOMAIN ret => ret[l].restock \in Nat /\ ret[l].writeOff \in Nat
    BY RowTyped, RetCounts DEF Typed
  <2>1. CASE l \in Rows(o)
    <3>1. back(l) \in Int /\ off(l) \in Int /\ line[o][l].qty \in Nat
      BY <2>0, RowTyped DEF Typed
    <3>2. line[o][l].qty # 0
      BY <2>1 DEF Rows
    <3>3. /\ back(l) >= prevBack(l) /\ off(l) >= prevOff(l)
          /\ back(l) + off(l) <= line[o][l].qty
      BY <2>1, <1>1
    <3> HIDE DEF back, off, prevBack, prevOff
    <3> QED
      BY <2>0, <3>1, <3>2, <3>3
  <2>2. CASE l \notin Rows(o)
    BY <2>2, <1>1, RowTyped DEF Rows, Typed, EmptySlots
  <2> QED
    BY <2>1, <2>2
<1> HIDE DEF back, off
<1> QED
  BY <1>1, <1>2 DEF Recounted

LEMMA RecountTyped ==
    ASSUME Typed, NEW o \in Orders, Recounted(o)
    PROVE  /\ line' \in [Orders -> [Lines -> LineRow]] /\ EmptySlots'
           /\ \A x \in Orders \ {o} : line'[x] = line[x]
           /\ Fits(o) => Fits(o)'
<1>1. PICK back \in [Lines -> Nat], off \in [Lines -> Nat] :
         /\ SetCounts(o, back, off)
         /\ \A l \in Lines : line[o][l].qty = 0 => back[l] = 0 /\ off[l] = 0
         /\ Fits(o) => \A l \in Lines : back[l] + off[l] <= line[o][l].qty
  BY DEF Recounted
<1> DEFINE row(l) == [qty |-> line[o][l].qty, back |-> back[l], off |-> off[l]]
<1>2. line \in [Orders -> [Lines -> LineRow]]
  BY DEF Typed, OrdersOK
<1>3. ASSUME NEW l \in Lines PROVE row(l) \in LineRow
  BY <1>1, <1>2 DEF LineRow
<1>4. line' = [line EXCEPT ![o] = [l \in Lines |-> row(l)]]
  BY <1>1 DEF SetCounts
<1>5. \A l \in Lines : /\ line'[o][l].qty = line[o][l].qty
                      /\ line'[o][l].back = back[l] /\ line'[o][l].off = off[l]
  BY <1>2, <1>4
<1>6. \A x \in Orders \ {o} : line'[x] = line[x]
  BY <1>2, <1>4
<1>7. line' \in [Orders -> [Lines -> LineRow]]
  <2> HIDE DEF row
  <2> QED
    BY <1>2, <1>3, <1>4
<1>8. EmptySlots'
  <2> SUFFICES ASSUME NEW x \in Orders, NEW l \in Lines, line'[x][l].qty = 0
               PROVE  line'[x][l].back = 0 /\ line'[x][l].off = 0
    BY DEF EmptySlots
  <2>1. CASE x = o
    BY <2>1, <1>1, <1>5
  <2>2. CASE x # o
    BY <2>2, <1>6 DEF Typed, EmptySlots
  <2> QED
    BY <2>1, <2>2
<1>9. Fits(o) => Fits(o)'
  <2> SUFFICES ASSUME \A l \in Lines : back[l] + off[l] <= line[o][l].qty
               PROVE  \A l \in Lines : line'[o][l].back + line'[o][l].off <= line'[o][l].qty
    BY <1>1 DEF Fits
  <2> QED
    BY <1>5
<1> QED
  BY <1>6, <1>7, <1>8, <1>9

-----------------------------------------------------------------------------
(***************************************************************************)
(* Types.                                                                  *)
(***************************************************************************)
LEMMA SetStatusTyped ==
    ASSUME OrdersOK, NEW o \in Orders, NEW s \in Requested, SetStatus(o, s)
    PROVE  /\ status' \in [Orders -> OrderStatus \cup {"none"}]
           /\ completed' \in [Orders -> BOOLEAN]
           /\ lastStock' \in [Orders -> RELEASE_ON_CANCEL \cup {"COMPLETED", "none"}]
           /\ edit' \in [Requests -> EditRequest \cup {Idle}]
<1>1. s \in OrderStatus
  BY ConstantsAssumption
<1>2. (completed[o] \/ s = "COMPLETED") \in BOOLEAN
  OBVIOUS
<1> QED
  BY <1>1, <1>2 DEF OrdersOK, SetStatus

\* A status change that leaves the lines alone or counts returned units.
LEMMA StatusStepTyped ==
    ASSUME Typed, NEW o \in Orders, NEW s \in Requested, SetStatus(o, s),
           Recounted(o) \/ UNCHANGED line
    PROVE  Typed'
<1>1. line' \in [Orders -> [Lines -> LineRow]] /\ EmptySlots'
  <2>1. CASE Recounted(o)
    BY <2>1, RecountTyped
  <2>2. CASE UNCHANGED line
    BY <2>2 DEF Typed, OrdersOK, EmptySlots
  <2> QED
    BY <2>1, <2>2
<1>2. PositiveRequests'
  BY DEF SetStatus, Typed, PositiveRequests
<1> QED
  BY <1>1, <1>2, SetStatusTyped DEF Typed, OrdersOK

LEMMA ZeroRecounts ==
    ASSUME NEW o \in Orders, Typed, SetCounts(o, [l \in Lines |-> 0], [l \in Lines |-> 0])
    PROVE  Recounted(o)
<1> DEFINE zero == [l \in Lines |-> 0]
<1>1. zero \in [Lines -> Nat] /\ \A l \in Lines : zero[l] = 0
  OBVIOUS
<1>2. SetCounts(o, zero, zero)
  OBVIOUS
<1>3. \A l \in Lines : zero[l] + zero[l] <= line[o][l].qty
  BY <1>1, RowTyped DEF Typed
<1> HIDE DEF zero
<1> QED
  BY <1>1, <1>2, <1>3 DEF Recounted

\* What updateStatus does to the lines, whichever branch it takes.
LEMMA UpdateStatusLines ==
    ASSUME Typed, NEW o \in Orders, NEW s \in Requested,
           \/ CompleteFirst(o, s) \/ CompleteAgain(o, s) \/ Relabel(o, s)
           \/ \E ret \in ReturnLines :
                 \/ CloseUnsold(o, s, ret) \/ CloseSold(o, s, ret)
                 \/ CloseReturned(o, s, ret) \/ FinishReturn(o, s, ret)
    PROVE  /\ Asked(o, s) /\ SetStatus(o, s)
           /\ Recounted(o) \/ UNCHANGED line
<1>1. CASE CompleteFirst(o, s)
  BY <1>1 DEF CompleteFirst
<1>2. CASE CompleteAgain(o, s)
  BY <1>2, ZeroRecounts DEF CompleteAgain
<1>3. CASE Relabel(o, s)
  BY <1>3 DEF Relabel
<1>4. ASSUME NEW ret \in ReturnLines, CloseUnsold(o, s, ret)
      PROVE  Asked(o, s) /\ SetStatus(o, s) /\ (Recounted(o) \/ UNCHANGED line)
  BY <1>4, SetReturnStockRecounts DEF CloseUnsold
<1>5. ASSUME NEW ret \in ReturnLines, CloseSold(o, s, ret)
      PROVE  Asked(o, s) /\ SetStatus(o, s) /\ (Recounted(o) \/ UNCHANGED line)
  BY <1>5, ApplyReturnRecounts DEF CloseSold
<1>6. ASSUME NEW ret \in ReturnLines, CloseReturned(o, s, ret)
      PROVE  Asked(o, s) /\ SetStatus(o, s) /\ (Recounted(o) \/ UNCHANGED line)
  BY <1>6, WriteOffRecounts DEF CloseReturned
<1>7. ASSUME NEW ret \in ReturnLines, FinishReturn(o, s, ret)
      PROVE  Asked(o, s) /\ SetStatus(o, s) /\ (Recounted(o) \/ UNCHANGED line)
  BY <1>7, ApplyReturnRecounts DEF FinishReturn
<1> QED
  BY <1>1, <1>2, <1>3, <1>4, <1>5, <1>6, <1>7

\* A request that has read its order aims at rows of the right type.
LEMMA RequestTyped ==
    ASSUME OrdersOK, NEW h \in Requests, edit[h] # Idle
    PROVE  edit[h] \in EditRequest
BY DEF OrdersOK

LEMMA PlaceOrderTyped ==
    ASSUME Typed, NEW o \in Orders, NEW q \in [Lines -> Counts], NEW s \in OrderStatus,
           PlaceOrder(o, s, q)
    PROVE  Typed'
<1>1. \A l \in Lines : NewLine(q[l]) \in LineRow
  <2>1. Counts \subseteq Nat
    BY ConstantsAssumption DEF Counts
  <2> QED
    BY <2>1 DEF NewLine, LineRow
<1>2. line' = [line EXCEPT ![o] = [l \in Lines |-> NewLine(q[l])]]
  BY DEF PlaceOrder
<1>3. line' \in [Orders -> [Lines -> LineRow]]
  BY <1>1, <1>2 DEF Typed, OrdersOK
<1>4. EmptySlots'
  <2> SUFFICES ASSUME NEW x \in Orders, NEW l \in Lines, line'[x][l].qty = 0
               PROVE  line'[x][l].back = 0 /\ line'[x][l].off = 0
    BY DEF EmptySlots
  <2>1. CASE x = o
    BY <2>1, <1>2 DEF Typed, OrdersOK, NewLine
  <2>2. CASE x # o
    BY <2>2, <1>2 DEF Typed, OrdersOK, EmptySlots
  <2> QED
    BY <2>1, <2>2
<1> QED
  BY <1>3, <1>4 DEF PlaceOrder, Typed, OrdersOK, PositiveRequests

\* An edit replaces one row of one order by another.
LEMMA OneRowTyped ==
    ASSUME Typed, NEW o \in Orders, NEW l \in Lines, NEW r \in LineRow,
           line' = [line EXCEPT ![o][l] = r],
           r.qty = 0 => r.back = 0 /\ r.off = 0
    PROVE  line' \in [Orders -> [Lines -> LineRow]] /\ EmptySlots'
<1>1. line' \in [Orders -> [Lines -> LineRow]]
  BY DEF Typed, OrdersOK
<1>2. line'[o][l] = r
  BY DEF Typed, OrdersOK
<1>3. \A x \in Orders, k \in Lines : x # o \/ k # l => line'[x][k] = line[x][k]
  BY DEF Typed, OrdersOK
<1> QED
  BY <1>1, <1>2, <1>3 DEF Typed, EmptySlots

\* The row an edit leaves at its slot.
Edited(h) ==
    CASE edit[h].kind = "add" -> NewLine(edit[h].qty)
      [] edit[h].kind = "set" -> [qty |-> edit[h].qty,
                                  back |-> line[edit[h].o][edit[h].l].back,
                                  off |-> line[edit[h].o][edit[h].l].off]
      [] edit[h].kind = "remove" -> NoLine

LEMMA EditLines ==
    ASSUME OrdersOK, NEW h \in Requests,
           addItem(h) \/ updateItemQuantity(h) \/ removeItem(h)
    PROVE  /\ edit[h] \in EditRequest
           /\ line' = [line EXCEPT ![edit[h].o][edit[h].l] = Edited(h)]
<1>1. edit[h] \in EditRequest
  BY RequestTyped DEF addItem, updateItemQuantity, removeItem, EndEdit
<1>2. CASE addItem(h)
  BY <1>1, <1>2 DEF addItem, Edited
<1>3. CASE updateItemQuantity(h)
  <2>1. edit[h].kind = "set"
    BY <1>3 DEF updateItemQuantity
  <2>2. line' = [line EXCEPT ![edit[h].o][edit[h].l].qty = edit[h].qty]
    BY <1>3 DEF updateItemQuantity
  <2>3. Edited(h) = [line[edit[h].o][edit[h].l] EXCEPT !.qty = edit[h].qty]
    <3>1. line[edit[h].o][edit[h].l] \in LineRow
      BY <1>1 DEF OrdersOK, EditRequest
    <3> QED
      BY <2>1, <3>1 DEF Edited, LineRow
  <2> QED
    BY <1>1, <2>2, <2>3
<1>4. CASE removeItem(h)
  BY <1>1, <1>4 DEF removeItem, Edited
<1> QED
  BY <1>1, <1>2, <1>3, <1>4

LEMMA EditTyped ==
    ASSUME Typed, NEW h \in Requests,
           addItem(h) \/ updateItemQuantity(h) \/ removeItem(h)
    PROVE  Typed'
<1>1. /\ edit[h] \in EditRequest
      /\ line' = [line EXCEPT ![edit[h].o][edit[h].l] = Edited(h)]
  BY EditLines DEF Typed
<1>2. /\ UNCHANGED <<status, completed, lastStock>>
      /\ edit' = [edit EXCEPT ![h] = Idle]
  BY DEF addItem, updateItemQuantity, removeItem, EndEdit
<1>3. /\ Edited(h) \in LineRow
      /\ Edited(h).qty = 0 => Edited(h).back = 0 /\ Edited(h).off = 0
  <2>1. CASE addItem(h)
    BY <1>1, <2>1 DEF addItem, Edited, EditRequest, NewLine, LineRow
  <2>2. CASE updateItemQuantity(h)
    <3>1. edit[h].kind = "set" /\ line[edit[h].o][edit[h].l].qty > 0
      BY <2>2 DEF updateItemQuantity
    <3>2. /\ line[edit[h].o][edit[h].l].back \in Nat
          /\ line[edit[h].o][edit[h].l].off \in Nat
          /\ edit[h].qty \in Nat
      BY <1>1, RowTyped DEF Typed, EditRequest
    <3>3. edit[h].qty # 0
      BY <2>2, <3>1 DEF updateItemQuantity, EndEdit, Typed, PositiveRequests
    <3> QED
      BY <3>1, <3>2, <3>3 DEF Edited, LineRow
  <2>3. CASE removeItem(h)
    BY <1>1, <2>3 DEF removeItem, Edited, EditRequest, NewLine, NoLine, LineRow
  <2> QED
    BY <2>1, <2>2, <2>3
<1>4. edit[h].o \in Orders /\ edit[h].l \in Lines
  BY <1>1 DEF EditRequest
<1>5. line' \in [Orders -> [Lines -> LineRow]] /\ EmptySlots'
  BY <1>1, <1>3, <1>4, OneRowTyped
<1>6. PositiveRequests'
  BY <1>2 DEF PositiveRequests, Typed, OrdersOK
<1> QED
  BY <1>2, <1>5, <1>6 DEF Typed, OrdersOK

\* Reading an order for an edit leaves everything else alone.
LEMMA ReadsLeave ==
    ASSUME NEW h \in Requests, NEW o \in Orders, NEW l \in Lines,
           \/ \E q \in Quantities : ReadForAdd(h, o, l, q) \/ ReadForUpdate(h, o, l, q)
           \/ ReadForRemove(h, o, l)
    PROVE  BeginEdit(h, o) /\ UNCHANGED orderVars
BY DEF ReadForAdd, ReadForUpdate, ReadForRemove, BeginEdit

LEMMA ReadTyped ==
    ASSUME Typed, NEW h \in Requests, NEW o \in Orders, NEW l \in Lines,
           \/ \E q \in Quantities : ReadForAdd(h, o, l, q) \/ ReadForUpdate(h, o, l, q)
           \/ ReadForRemove(h, o, l)
    PROVE  Typed' /\ \E e \in EditRequest : e.o = o /\ edit' = [edit EXCEPT ![h] = e]
<1>1. UNCHANGED orderVars
  BY ReadsLeave
<1>2. line[o][l].qty \in Nat
  BY RowTyped DEF Typed
<1>3. Quantities \subseteq Nat \ {0}
  BY ConstantsAssumption
<1>4. PICK e \in EditRequest : /\ e.o = o /\ edit' = [edit EXCEPT ![h] = e]
                               /\ e.kind # "remove" => e.qty # 0
  <2>1. CASE \E q \in Quantities : ReadForAdd(h, o, l, q)
    <3>1. PICK q \in Quantities : ReadForAdd(h, o, l, q)
      BY <2>1
    <3> DEFINE e == [kind |-> "add", o |-> o, l |-> l, qty |-> q, seen |-> 0]
    <3>2. e \in EditRequest /\ e.o = o /\ e.qty # 0
      BY <1>3 DEF EditRequest
    <3>3. edit' = [edit EXCEPT ![h] = e]
      BY <3>1 DEF ReadForAdd
    <3> HIDE DEF e
    <3> QED
      BY <3>2, <3>3
  <2>2. CASE \E q \in Quantities : ReadForUpdate(h, o, l, q)
    <3>1. PICK q \in Quantities : ReadForUpdate(h, o, l, q)
      BY <2>2
    <3> DEFINE e == [kind |-> "set", o |-> o, l |-> l, qty |-> q, seen |-> line[o][l].qty]
    <3>2. e \in EditRequest /\ e.o = o /\ e.qty # 0
      BY <1>2, <1>3 DEF EditRequest
    <3>3. edit' = [edit EXCEPT ![h] = e]
      BY <3>1 DEF ReadForUpdate
    <3> HIDE DEF e
    <3> QED
      BY <3>2, <3>3
  <2>3. CASE ReadForRemove(h, o, l)
    <3> DEFINE e == [kind |-> "remove", o |-> o, l |-> l, qty |-> 0, seen |-> line[o][l].qty]
    <3>2. e \in EditRequest /\ e.o = o /\ e.kind = "remove"
      BY <1>2 DEF EditRequest
    <3>3. edit' = [edit EXCEPT ![h] = e]
      BY <2>3 DEF ReadForRemove
    <3> HIDE DEF e
    <3> QED
      BY <3>2, <3>3
  <2> QED
    BY <2>1, <2>2, <2>3
<1>5. edit' \in [Requests -> EditRequest \cup {Idle}]
  BY <1>4 DEF Typed, OrdersOK
<1>6. PositiveRequests'
  BY <1>4 DEF PositiveRequests, Typed, OrdersOK
<1>7. OrdersOK' /\ EmptySlots'
  BY <1>1, <1>5 DEF Typed, OrdersOK, EmptySlots, orderVars
<1> QED
  BY <1>4, <1>6, <1>7 DEF Typed

LEMMA TypedInit == Init => Typed
BY DEF Init, Typed, OrdersOK, EmptySlots, PositiveRequests, NoLine, NewLine, LineRow

LEMMA TypedStep == Typed /\ [Next]_vars => Typed'
<1> SUFFICES ASSUME Typed, [Next]_vars PROVE Typed'
  OBVIOUS
<1>1. ASSUME NEW o \in Orders, NEW q \in [Lines -> Counts],
             Checkout(o, q) \/ CreateByStaff(o, q)
      PROVE  Typed'
  BY <1>1, PlaceOrderTyped
     DEF Checkout, CreateByStaff, OrderStatus, ITEM_EDITABLE_STATUSES
<1>2. ASSUME NEW p \in SKUs, NEW n \in {1, -1}, OnlineMove(p, n)
      PROVE  Typed'
  BY <1>2 DEF OnlineMove, orderVars, Typed, OrdersOK, EmptySlots, PositiveRequests
<1>3. ASSUME NEW h \in Requests, NEW o \in Orders, NEW l \in Lines,
             \/ \E q \in Quantities : ReadForAdd(h, o, l, q) \/ ReadForUpdate(h, o, l, q)
             \/ ReadForRemove(h, o, l)
      PROVE  Typed'
  BY <1>3, ReadTyped
<1>4. ASSUME NEW h \in Requests, addItem(h) \/ updateItemQuantity(h) \/ removeItem(h)
      PROVE  Typed'
  BY <1>4, EditTyped
<1>5. ASSUME NEW h \in Requests, editFails(h)
      PROVE  Typed'
  BY <1>5 DEF editFails, EndEdit, Typed, OrdersOK, EmptySlots, PositiveRequests
<1>6. ASSUME NEW o \in Orders, NEW s \in Requested,
             \/ CompleteFirst(o, s) \/ CompleteAgain(o, s) \/ Relabel(o, s)
             \/ \E ret \in ReturnLines :
                   \/ CloseUnsold(o, s, ret) \/ CloseSold(o, s, ret)
                   \/ CloseReturned(o, s, ret) \/ FinishReturn(o, s, ret)
      PROVE  Typed'
  BY <1>6, UpdateStatusLines, StatusStepTyped
<1>7. ASSUME NEW o \in Orders, NEW ret \in ReturnLines, setReturnedStock(o, ret)
      PROVE  Typed'
  <2>1. Recounted(o) /\ UNCHANGED <<status, completed, edit>>
    BY <1>7, SetReturnStockRecounts DEF setReturnedStock
  <2>2. lastStock' \in [Orders -> RELEASE_ON_CANCEL \cup {"COMPLETED", "none"}]
    BY <1>7 DEF setReturnedStock, Typed, OrdersOK, RELEASE_ON_CANCEL
  <2>3. line' \in [Orders -> [Lines -> LineRow]] /\ EmptySlots'
    BY <2>1, RecountTyped
  <2> QED
    BY <2>1, <2>2, <2>3 DEF Typed, OrdersOK, PositiveRequests
<1>8. CASE UNCHANGED vars
  BY <1>8 DEF vars, Typed, OrdersOK, EmptySlots, PositiveRequests
<1> QED
  BY <1>1, <1>2, <1>3, <1>4, <1>5, <1>6, <1>7, <1>8 DEF Next

\* The order columns keep their types whatever the staff do: no path writes a
\* negative count, a status outside the enumeration or a request to a wrong row.
THEOREM OrdersTyped == Spec => []OrdersOK
<1>1. Spec => []Typed
  BY TypedInit, TypedStep, PTL DEF Spec
<1>2. Typed => OrdersOK
  BY DEF Typed
<1> QED
  BY <1>1, <1>2, PTL

-----------------------------------------------------------------------------
(***************************************************************************)
(* Counts agree with where the goods are.  CountsConsistent is not         *)
(* inductive: it has to know that an open order that was never completed   *)
(* carries no counts, that a completed status implies the completion date, *)
(* and that a request in flight still finds its order as it read it.       *)
(***************************************************************************)
OrderConsistent(o) ==
    /\ status[o] = "none" => ~completed[o]
    /\ status[o] = "COMPLETED" => completed[o]
    /\ status[o] \in ITEM_EDITABLE_STATUSES /\ ~completed[o] => ~Counted(o)
    /\ StockIsOut(o) => ~Counted(o)
    /\ Fits(o)

EditFresh(h) ==
    edit[h] # Idle => /\ status[edit[h].o] \in ITEM_EDITABLE_STATUSES
                      /\ ~completed[edit[h].o]

IInv == /\ Typed
        /\ \A o \in Orders : OrderConsistent(o)
        /\ \A h \in Requests : EditFresh(h)

\* An order whose columns an action leaves alone stays consistent.
LEMMA OthersConsistent ==
    ASSUME NEW o \in Orders, OrderConsistent(o),
           UNCHANGED <<status[o], completed[o], lastStock[o], line[o]>>
    PROVE  OrderConsistent(o)'
BY DEF OrderConsistent, Fits, StockIsOut, Counted

\* With nobody waiting, there is no request to be overtaken.
LEMMA QuietFresh ==
    ASSUME Practices = {}, Quiet, UNCHANGED edit
    PROVE  \A h \in Requests : EditFresh(h)'
BY DEF Quiet, EditFresh

LEMMA PlaceOrderConsistent ==
    ASSUME Practices = {}, IInv, NEW o \in Orders, NEW q \in [Lines -> Counts],
           NEW s \in {"PENDING", "CONFIRMED"}, PlaceOrder(o, s, q)
    PROVE  /\ \A x \in Orders : OrderConsistent(x)'
           /\ \A h \in Requests : EditFresh(h)'
<1>1. \A h \in Requests : EditFresh(h)'
  BY QuietFresh DEF PlaceOrder
<1>2. ASSUME NEW x \in Orders \ {o} PROVE OrderConsistent(x)'
  <2>1. UNCHANGED <<status[x], completed[x], lastStock[x], line[x]>>
    BY DEF PlaceOrder, IInv, Typed, OrdersOK
  <2> QED
    BY <2>1, OthersConsistent DEF IInv
<1>3. OrderConsistent(o)'
  <2>1. status'[o] = s /\ ~completed'[o]
    BY DEF PlaceOrder, IInv, Typed, OrdersOK, OrderConsistent
  <2>2. \A l \in Lines : /\ line'[o][l].qty = q[l]
                         /\ line'[o][l].back = 0 /\ line'[o][l].off = 0
    BY DEF PlaceOrder, IInv, Typed, OrdersOK, NewLine
  <2>3. ~Counted(o)'
    BY <2>2 DEF Counted
  <2>4. Fits(o)'
    <3>1. \A l \in Lines : q[l] \in Nat
      <4>1. Counts \subseteq Nat
        BY ConstantsAssumption DEF Counts
      <4> QED
        BY <4>1
    <3> QED
      BY <2>2, <3>1 DEF Fits
  <2> QED
    BY <2>1, <2>3, <2>4 DEF OrderConsistent, StockIsOut
<1> QED
  BY <1>1, <1>2, <1>3

LEMMA EditConsistent ==
    ASSUME IInv, NEW h \in Requests,
           addItem(h) \/ updateItemQuantity(h) \/ removeItem(h)
    PROVE  /\ \A x \in Orders : OrderConsistent(x)'
           /\ \A g \in Requests : EditFresh(g)'
<1>1. /\ edit[h] \in EditRequest
      /\ line' = [line EXCEPT ![edit[h].o][edit[h].l] = Edited(h)]
  BY EditLines DEF IInv, Typed
<1>2. /\ UNCHANGED <<status, completed, lastStock>>
      /\ edit' = [edit EXCEPT ![h] = Idle] /\ edit[h] # Idle
  BY DEF addItem, updateItemQuantity, removeItem, EndEdit
<1>3. \A g \in Requests : EditFresh(g)'
  BY <1>2 DEF IInv, Typed, OrdersOK, EditFresh
<1>4. PICK o \in Orders : o = edit[h].o /\ edit[h].l \in Lines
  BY <1>1 DEF EditRequest
<1>5. status[o] \in ITEM_EDITABLE_STATUSES /\ ~completed[o] /\ ~Counted(o)
  BY <1>2, <1>4 DEF IInv, EditFresh, OrderConsistent
<1>6. ASSUME NEW x \in Orders \ {o} PROVE OrderConsistent(x)'
  <2>1. UNCHANGED <<status[x], completed[x], lastStock[x], line[x]>>
    BY <1>1, <1>2, <1>4 DEF IInv, Typed, OrdersOK
  <2> QED
    BY <2>1, OthersConsistent DEF IInv
<1>7. Edited(h).back = 0 /\ Edited(h).off = 0 /\ Edited(h).qty \in Nat
  <2>1. CASE addItem(h)
    BY <1>1, <2>1 DEF addItem, Edited, NewLine, EditRequest
  <2>2. CASE updateItemQuantity(h)
    <3>1. line[o][edit[h].l].back = 0 /\ line[o][edit[h].l].off = 0
      BY <1>4, <1>5, RowTyped DEF Counted, IInv, Typed
    <3>2. edit[h].kind = "set" /\ edit[h].qty \in Nat
      BY <1>1, <2>2 DEF updateItemQuantity, EditRequest
    <3>3. Edited(h) = [qty |-> edit[h].qty, back |-> line[o][edit[h].l].back,
                       off |-> line[o][edit[h].l].off]
      BY <1>4, <3>2 DEF Edited
    <3> QED
      BY <3>1, <3>2, <3>3
  <2>3. CASE removeItem(h)
    BY <2>3 DEF removeItem, Edited, NoLine, NewLine
  <2> QED
    BY <2>1, <2>2, <2>3
<1>8. \A k \in Lines : \/ line'[o][k] = Edited(h)
                       \/ line'[o][k] = line[o][k]
  BY <1>1, <1>4 DEF IInv, Typed, OrdersOK
<1>9. \A k \in Lines : /\ line'[o][k].back = 0 /\ line'[o][k].off = 0
                       /\ line'[o][k].qty \in Nat
  <2> SUFFICES ASSUME NEW k \in Lines
               PROVE  /\ line'[o][k].back = 0 /\ line'[o][k].off = 0
                      /\ line'[o][k].qty \in Nat
    OBVIOUS
  <2>1. CASE line'[o][k] = Edited(h)
    BY <2>1, <1>7
  <2>2. CASE line'[o][k] = line[o][k]
    <3>1. line[o][k].back = 0 /\ line[o][k].off = 0
      BY <1>4, <1>5, RowTyped DEF Counted, IInv, Typed
    <3> QED
      BY <2>2, <3>1, <1>4, RowTyped DEF IInv, Typed
  <2> QED
    BY <1>8, <2>1, <2>2
<1>10. OrderConsistent(o)'
  <2>1. OrderConsistent(o)
    BY <1>4 DEF IInv
  <2>2. ~Counted(o)' /\ Fits(o)'
    BY <1>9 DEF Counted, Fits
  <2> QED
    BY <1>2, <2>1, <2>2 DEF OrderConsistent
<1> QED
  BY <1>3, <1>6, <1>10

\* One step of updateStatus on o, in the terms OrderConsistent needs.
LEMMA StatusStepConsistent ==
    ASSUME Practices = {}, IInv, NEW o \in Orders, NEW s \in Requested,
           \/ CompleteFirst(o, s) \/ CompleteAgain(o, s) \/ Relabel(o, s)
           \/ \E ret \in ReturnLines :
                 \/ CloseUnsold(o, s, ret) \/ CloseSold(o, s, ret)
                 \/ CloseReturned(o, s, ret) \/ FinishReturn(o, s, ret)
    PROVE  /\ \A x \in Orders : OrderConsistent(x)'
           /\ \A h \in Requests : EditFresh(h)'
<1>1. /\ Asked(o, s) /\ SetStatus(o, s)
      /\ Recounted(o) \/ UNCHANGED line
  BY UpdateStatusLines DEF IInv
<1>2. \A h \in Requests : EditFresh(h)'
  BY <1>1, QuietFresh DEF Asked, SetStatus
<1>3. ASSUME NEW x \in Orders \ {o} PROVE OrderConsistent(x)'
  <2>1. line'[x] = line[x]
    BY <1>1, RecountTyped DEF IInv
  <2>2. UNCHANGED <<status[x], completed[x], lastStock[x]>>
    BY <1>1 DEF SetStatus, IInv, Typed, OrdersOK
  <2> QED
    BY <2>1, <2>2, OthersConsistent DEF IInv
<1>4. /\ status'[o] = s
      /\ completed'[o] = (completed[o] \/ s = "COMPLETED")
      /\ lastStock'[o] = IF s \in RELEASE_ON_CANCEL \cup {"COMPLETED"} THEN s
                         ELSE lastStock[o]
  BY <1>1 DEF SetStatus, IInv, Typed, OrdersOK
<1>5. /\ status[o] \in RELEASE_ON_CANCEL /\ s \notin RELEASE_ON_CANCEL => completed[o]
      /\ status[o] # "none"
  BY <1>1 DEF Asked
<1>6. s \in OrderStatus /\ status[o] \in OrderStatus
  BY <1>5, ConstantsAssumption DEF IInv, Typed, OrdersOK
<1>7. Fits(o)'
  <2>1. CASE Recounted(o)
    BY <2>1, RecountTyped DEF IInv, OrderConsistent
  <2>2. CASE UNCHANGED line
    BY <2>2 DEF IInv, OrderConsistent, Fits
  <2> QED
    BY <1>1, <2>1, <2>2
\* An order opened or kept open without a completion keeps its lines as they are.
<1>8. ASSUME s \in ITEM_EDITABLE_STATUSES, ~completed[o]
      PROVE  ~Counted(o)'
  <2>1. UNCHANGED line
    BY <1>8 DEF CompleteFirst, CompleteAgain, Relabel, CloseUnsold, CloseSold,
                CloseReturned, FinishReturn, Closing, FinishesReturn,
                ITEM_EDITABLE_STATUSES, RELEASE_ON_CANCEL
  <2>2. status[o] \in ITEM_EDITABLE_STATUSES
    BY <1>5, <1>6, <1>8 DEF OrderStatus, ITEM_EDITABLE_STATUSES, RELEASE_ON_CANCEL,
                            IInv, OrderConsistent
  <2> QED
    BY <1>8, <2>1, <2>2 DEF Counted, IInv, OrderConsistent
\* Goods that are out afterwards belong to lines without counts.
<1>9. ASSUME StockIsOut(o)' PROVE ~Counted(o)'
  <2>1. s \notin RELEASE_ON_CANCEL
    BY <1>4, <1>9 DEF StockIsOut, RELEASE_ON_CANCEL
  <2>2. CASE CompleteFirst(o, s)
    <3>1. UNCHANGED line /\ ~completed[o]
      BY <2>2 DEF CompleteFirst
    <3>2. status[o] \in ITEM_EDITABLE_STATUSES
      BY <1>5, <1>6, <2>1, <3>1 DEF OrderStatus, IInv, OrderConsistent
    <3> QED
      BY <3>1, <3>2 DEF Counted, IInv, OrderConsistent
  <2>3. CASE CompleteAgain(o, s)
    <3>1. line' = [line EXCEPT ![o] =
                     [l \in Lines |-> [qty |-> line[o][l].qty, back |-> 0, off |-> 0]]]
      BY <2>3 DEF CompleteAgain, SetCounts
    <3>2. \A l \in Lines : line'[o][l].back = 0 /\ line'[o][l].off = 0
      BY <3>1 DEF IInv, Typed, OrdersOK
    <3> QED
      BY <3>2 DEF Counted
  <2>4. CASE Relabel(o, s)
    <3>1. UNCHANGED line /\ (s = "COMPLETED" => StockIsOut(o))
      BY <2>4 DEF Relabel
    <3>2. StockIsOut(o)
      BY <1>4, <1>9, <2>1, <3>1 DEF StockIsOut
    <3> QED
      BY <3>1, <3>2 DEF Counted, IInv, OrderConsistent
  <2>5. ASSUME NEW ret \in ReturnLines,
               \/ CloseUnsold(o, s, ret) \/ CloseSold(o, s, ret)
               \/ CloseReturned(o, s, ret) \/ FinishReturn(o, s, ret)
        PROVE  FALSE
    BY <2>1, <2>5 DEF CloseUnsold, CloseSold, CloseReturned, FinishReturn, Closing,
                      FinishesReturn, RELEASE_ON_CANCEL
  <2> QED
    BY <2>2, <2>3, <2>4, <2>5
<1>10. OrderConsistent(o)'
  BY <1>4, <1>6, <1>7, <1>8, <1>9 DEF OrderConsistent, OrderStatus,
     RELEASE_ON_CANCEL, ITEM_EDITABLE_STATUSES
<1> QED
  BY <1>2, <1>3, <1>10

LEMMA IInvInit == Init => IInv
<1> SUFFICES ASSUME Init PROVE IInv
  OBVIOUS
<1>1. \A o \in Orders : OrderConsistent(o)
  BY DEF Init, OrderConsistent, Fits, Counted, StockIsOut, NoLine, NewLine,
         ITEM_EDITABLE_STATUSES
<1>2. \A h \in Requests : EditFresh(h)
  BY DEF Init, EditFresh
<1> QED
  BY <1>1, <1>2, TypedInit DEF IInv

LEMMA IInvStep == Practices = {} /\ IInv /\ [Next]_vars => IInv'
<1> SUFFICES ASSUME Practices = {}, IInv, [Next]_vars
             PROVE  /\ \A o \in Orders : OrderConsistent(o)'
                    /\ \A h \in Requests : EditFresh(h)'
  BY TypedStep DEF IInv
<1>0. ASSUME UNCHANGED orderVars PROVE \A o \in Orders : OrderConsistent(o)'
  BY <1>0, OthersConsistent DEF orderVars, IInv
<1>1. ASSUME NEW o \in Orders, NEW q \in [Lines -> Counts],
             Checkout(o, q) \/ CreateByStaff(o, q)
      PROVE  /\ \A x \in Orders : OrderConsistent(x)'
             /\ \A h \in Requests : EditFresh(h)'
  BY <1>1, PlaceOrderConsistent DEF Checkout, CreateByStaff
<1>2. ASSUME NEW p \in SKUs, NEW n \in {1, -1}, OnlineMove(p, n)
      PROVE  /\ \A x \in Orders : OrderConsistent(x)'
             /\ \A h \in Requests : EditFresh(h)'
  BY <1>0, <1>2, QuietFresh DEF OnlineMove
<1>3. ASSUME NEW h \in Requests, NEW o \in Orders, NEW l \in Lines,
             \/ \E q \in Quantities : ReadForAdd(h, o, l, q) \/ ReadForUpdate(h, o, l, q)
             \/ ReadForRemove(h, o, l)
      PROVE  /\ \A x \in Orders : OrderConsistent(x)'
             /\ \A g \in Requests : EditFresh(g)'
  <2>1. BeginEdit(h, o) /\ UNCHANGED orderVars
    BY <1>3, ReadsLeave
  <2>2. PICK e \in EditRequest : e.o = o /\ edit' = [edit EXCEPT ![h] = e]
    BY <1>3, ReadTyped DEF IInv
  <2>3. \A g \in Requests : EditFresh(g)'
    BY <2>1, <2>2 DEF BeginEdit, EditFresh, orderVars, IInv, Typed, OrdersOK
  <2> QED
    BY <1>0, <2>1, <2>3
<1>4. ASSUME NEW h \in Requests, addItem(h) \/ updateItemQuantity(h) \/ removeItem(h)
      PROVE  /\ \A x \in Orders : OrderConsistent(x)'
             /\ \A g \in Requests : EditFresh(g)'
  BY <1>4, EditConsistent
<1>5. ASSUME NEW h \in Requests, editFails(h)
      PROVE  /\ \A x \in Orders : OrderConsistent(x)'
             /\ \A g \in Requests : EditFresh(g)'
  <2>1. UNCHANGED orderVars
    BY <1>5 DEF editFails, EndEdit, orderVars
  <2>2. \A g \in Requests : EditFresh(g)'
    BY <1>5 DEF editFails, EndEdit, EditFresh, IInv, Typed, OrdersOK
  <2> QED
    BY <1>0, <2>1, <2>2
<1>6. ASSUME NEW o \in Orders, NEW s \in Requested,
             \/ CompleteFirst(o, s) \/ CompleteAgain(o, s) \/ Relabel(o, s)
             \/ \E ret \in ReturnLines :
                   \/ CloseUnsold(o, s, ret) \/ CloseSold(o, s, ret)
                   \/ CloseReturned(o, s, ret) \/ FinishReturn(o, s, ret)
      PROVE  /\ \A x \in Orders : OrderConsistent(x)'
             /\ \A h \in Requests : EditFresh(h)'
  BY <1>6, StatusStepConsistent
<1>7. ASSUME NEW o \in Orders, NEW ret \in ReturnLines, setReturnedStock(o, ret)
      PROVE  /\ \A x \in Orders : OrderConsistent(x)'
             /\ \A h \in Requests : EditFresh(h)'
  <2>1. Recounted(o) /\ UNCHANGED <<status, completed, edit>>
    BY <1>7, SetReturnStockRecounts DEF setReturnedStock, IInv
  <2>2. /\ status[o] \in {"RETURNED", "PARTIALLY_RETURNED"}
        /\ lastStock' = [lastStock EXCEPT ![o] = status[o]]
    BY <1>7 DEF setReturnedStock
  <2>3. \A h \in Requests : EditFresh(h)'
    BY <1>7, QuietFresh DEF setReturnedStock
  <2>4. ASSUME NEW x \in Orders \ {o} PROVE OrderConsistent(x)'
    <3>1. line'[x] = line[x]
      BY <2>1, RecountTyped DEF IInv
    <3>2. UNCHANGED <<status[x], completed[x], lastStock[x]>>
      BY <2>1, <2>2 DEF IInv, Typed, OrdersOK
    <3> QED
      BY <3>1, <3>2, OthersConsistent DEF IInv
  <2>5. Fits(o)'
    BY <2>1, RecountTyped DEF IInv, OrderConsistent
  <2>6. lastStock'[o] # "COMPLETED"
    BY <2>2 DEF IInv, Typed, OrdersOK
  <2>7. OrderConsistent(o)'
    BY <2>1, <2>2, <2>5, <2>6
       DEF OrderConsistent, StockIsOut, ITEM_EDITABLE_STATUSES, IInv
  <2> QED
    BY <2>3, <2>4, <2>7
<1>8. CASE UNCHANGED vars
  <2>1. UNCHANGED orderVars
    BY <1>8 DEF vars, orderVars
  <2>2. \A g \in Requests : EditFresh(g)'
    BY <1>8 DEF vars, EditFresh, IInv
  <2> QED
    BY <1>0, <2>1, <2>2
<1> QED
  BY <1>1, <1>2, <1>3, <1>4, <1>5, <1>6, <1>7, <1>8 DEF Next

\* While an order's goods are out its lines carry no return counts, and no line
\* ever counts more units back and written off than it sold, for any number of
\* orders, lines and quantities, if nobody follows a practice.
THEOREM CountsAgree ==
    ASSUME Practices = {}
    PROVE  Spec => []CountsConsistent
<1>1. Init => IInv
  BY IInvInit
<1>2. IInv /\ [Next]_vars => IInv'
  BY IInvStep
<1>3. IInv => CountsConsistent
  BY DEF IInv, OrderConsistent, Fits, CountsConsistent
<1> QED
  BY <1>1, <1>2, <1>3, PTL DEF Spec

-----------------------------------------------------------------------------
(***************************************************************************)
(* The counters.  The conservation laws are not inductive alone: they      *)
(* have to know that goods which came back were counted, and that an edit  *)
(* in flight is the only one and still finds the line it read.             *)
(***************************************************************************)
GoodsKnown(o) ==
    /\ status[o] = "none" => ~Counted(o)
    /\ status[o] \in RELEASE_ON_CANCEL => ~StockIsOut(o)
    /\ completed[o] /\ ~StockIsOut(o) => Counted(o) \/ Rows(o) = {}

SeesLine(h) ==
    edit[h] # Idle => /\ line[edit[h].o][edit[h].l].qty = edit[h].seen
                      /\ edit[h].kind = "add" => edit[h].seen = 0

EditsAlone == \A g, h \in Requests : edit[g] # Idle /\ edit[h] # Idle => g = h

Known == /\ IInv /\ CountersOK
         /\ \A o \in Orders : GoodsKnown(o)
         /\ \A h \in Requests : SeesLine(h)
         /\ EditsAlone

StockInv == Known /\ ReservationsAccounted /\ StockAccounted

-----------------------------------------------------------------------------
(***************************************************************************)
(* Sums over the slots of an order and over the orders.                    *)
(***************************************************************************)
LEMMA PerSkuInt ==
    ASSUME NEW d \in [Lines -> Int], NEW p PROVE PerSku(d, p) \in Int
<1> DEFINE W == {l \in Lines : SkuOf[l] = p}
<1>1. IsFiniteSet(W)
  BY ConstantsAssumption, FS_Subset
<1>2. \A l \in W : d[l] \in Int
  OBVIOUS
<1> HIDE DEF W
<1>3. SumFunctionOnSet(d, W) \in Int
  BY <1>1, <1>2, SumInt
<1> QED
  BY <1>3 DEF PerSku, W

LEMMA PerSkuPlus ==
    ASSUME NEW c \in [Lines -> Int], NEW d \in [Lines -> Int], NEW e \in [Lines -> Int],
           NEW p, \A l \in Lines : e[l] = c[l] + d[l]
    PROVE  PerSku(e, p) = PerSku(c, p) + PerSku(d, p)
<1> DEFINE W == {l \in Lines : SkuOf[l] = p}
<1>1. IsFiniteSet(W)
  BY ConstantsAssumption, FS_Subset
<1>2. \A l \in W : c[l] \in Int /\ d[l] \in Int /\ e[l] = c[l] + d[l]
  OBVIOUS
<1> HIDE DEF W
<1>3. SumFunctionOnSet(e, W) = SumFunctionOnSet(c, W) + SumFunctionOnSet(d, W)
  BY <1>1, <1>2, SumPlus
<1> QED
  BY <1>3 DEF PerSku, W

\* The units of SKU p over the orders, u giving a number per order and slot.
OrderSum(u, p) == SumFunctionOnSet([o \in Orders |-> PerSku(u[o], p)], Orders)

LEMMA OrderSumInt ==
    ASSUME NEW u \in [Orders -> [Lines -> Int]], NEW p PROVE OrderSum(u, p) \in Int
<1> DEFINE f == [o \in Orders |-> PerSku(u[o], p)]
<1>1. \A o \in Orders : f[o] \in Int
  BY PerSkuInt
<1> HIDE DEF f
<1>2. SumFunctionOnSet(f, Orders) \in Int
  BY <1>1, SumInt, ConstantsAssumption
<1> QED
  BY <1>2 DEF OrderSum, f

\* One order's units move by d.
LEMMA OrderSumMoves ==
    ASSUME NEW u \in [Orders -> [Lines -> Int]], NEW v \in [Orders -> [Lines -> Int]],
           NEW o \in Orders, NEW d \in [Lines -> Int], NEW p,
           \A x \in Orders \ {o} : v[x] = u[x],
           \A l \in Lines : v[o][l] = u[o][l] + d[l]
    PROVE  OrderSum(v, p) = OrderSum(u, p) + PerSku(d, p)
<1> DEFINE f == [x \in Orders |-> PerSku(u[x], p)]
           e == [x \in Orders |-> PerSku(v[x], p)]
<1>1. \A x \in Orders : f[x] \in Int /\ e[x] \in Int
  BY PerSkuInt
<1>2. \A x \in Orders \ {o} : e[x] = f[x]
  OBVIOUS
<1>3. e[o] = f[o] + PerSku(d, p)
  <2>1. u[o] \in [Lines -> Int] /\ v[o] \in [Lines -> Int]
    OBVIOUS
  <2>2. PerSku(v[o], p) = PerSku(u[o], p) + PerSku(d, p)
    BY <2>1, PerSkuPlus
  <2> QED
    BY <2>2
<1> HIDE DEF f, e
<1>4. SumFunctionOnSet(e, Orders) = SumFunctionOnSet(f, Orders) + (e[o] - f[o])
  BY <1>1, <1>2, SumChange, ConstantsAssumption
<1>5. SumFunctionOnSet(f, Orders) \in Int
  BY <1>1, SumInt, ConstantsAssumption
<1>6. PerSku(d, p) \in Int
  BY PerSkuInt
<1>7. SumFunctionOnSet(e, Orders) = SumFunctionOnSet(f, Orders) + PerSku(d, p)
  BY <1>1, <1>3, <1>4, <1>5, <1>6
<1> QED
  BY <1>7 DEF OrderSum, f, e

HeldBy == [o \in Orders |-> Held(o)]
OffBy == [o \in Orders |-> OffShelf(o)]

LEMMA OverOrdersIsSum ==
    ASSUME NEW p
    PROVE  /\ OverOrders(Held, p) = OrderSum(HeldBy, p)
           /\ OverOrders(OffShelf, p) = OrderSum(OffBy, p)
<1>1. [o \in Orders |-> PerSku(Held(o), p)] = [o \in Orders |-> PerSku(HeldBy[o], p)]
  BY DEF HeldBy
<1>2. [o \in Orders |-> PerSku(OffShelf(o), p)] = [o \in Orders |-> PerSku(OffBy[o], p)]
  BY DEF OffBy
<1> QED
  BY <1>1, <1>2 DEF OverOrders, OrderSum

LEMMA OverOrdersIsSumNext ==
    ASSUME NEW p
    PROVE  /\ OverOrders(Held, p)' = OrderSum(HeldBy', p)
           /\ OverOrders(OffShelf, p)' = OrderSum(OffBy', p)
<1>1. [o \in Orders |-> PerSku(Held(o)', p)] = [o \in Orders |-> PerSku(HeldBy'[o], p)]
  BY DEF HeldBy
<1>2. [o \in Orders |-> PerSku(OffShelf(o)', p)] = [o \in Orders |-> PerSku(OffBy'[o], p)]
  BY DEF OffBy
<1> QED
  BY <1>1, <1>2 DEF OverOrders, OrderSum, PerSku

\* What an order holds and what it has out, slot by slot.
LEMMA HeldTyped == OrdersOK => HeldBy \in [Orders -> [Lines -> Int]]
<1> SUFFICES ASSUME OrdersOK, NEW o \in Orders, NEW l \in Lines
             PROVE  Held(o)[l] \in Int
  BY DEF HeldBy, Held
<1> QED
  BY RowTyped DEF Held

LEMMA OffShelfTyped == OrdersOK => OffBy \in [Orders -> [Lines -> Int]]
<1> SUFFICES ASSUME OrdersOK, NEW o \in Orders, NEW l \in Lines
             PROVE  OffShelf(o)[l] \in Int
  BY DEF OffBy, OffShelf
<1>1. /\ line[o][l].qty \in Int /\ line[o][l].off \in Int
      /\ line[o][l].qty - line[o][l].back \in Int
  BY RowTyped
<1> QED
  BY <1>1 DEF OffShelf

\* Goods not out with the order: the units it sold and did not get back.
LEMMA OffShelfIs ==
    ASSUME Typed, NEW o \in Orders, NEW l \in Lines
    PROVE  /\ StockIsOut(o) => OffShelf(o)[l] = line[o][l].qty
           /\ ~completed[o] => OffShelf(o)[l] = line[o][l].off
           /\ completed[o] /\ ~StockIsOut(o) /\ GoodsKnown(o)
                 => OffShelf(o)[l] = line[o][l].qty - line[o][l].back
<1>1. StockIsOut(o) => OffShelf(o)[l] = line[o][l].qty
  BY DEF OffShelf
<1>2. ~completed[o] => OffShelf(o)[l] = line[o][l].off
  BY DEF OffShelf, StockIsOut
<1>3. ASSUME completed[o], ~StockIsOut(o), GoodsKnown(o)
      PROVE  OffShelf(o)[l] = line[o][l].qty - line[o][l].back
  <2>1. CASE Counted(o)
    BY <1>3, <2>1 DEF OffShelf
  <2>2. CASE ~Counted(o)
    <3>1. OffShelf(o)[l] = 0
      BY <1>3, <2>2 DEF OffShelf
    <3>2. line[o][l].qty = 0 /\ line[o][l].back = 0
      BY <1>3, <2>2, RowTyped DEF GoodsKnown, Rows, Counted, Typed, EmptySlots
    <3> QED
      BY <3>1, <3>2
  <2> QED
    BY <2>1, <2>2
<1> QED
  BY <1>1, <1>2, <1>3

LEMMA HeldIs ==
    ASSUME Typed, NEW o \in Orders, NEW l \in Lines
    PROVE  /\ status[o] \in ITEM_EDITABLE_STATUSES /\ ~completed[o]
                 => Held(o)[l] = line[o][l].qty
           /\ ~(status[o] \in ITEM_EDITABLE_STATUSES /\ ~completed[o]) => Held(o)[l] = 0
BY DEF Held

\* An order left alone holds and has out what it did.
LEMMA OthersKeep ==
    ASSUME NEW o \in Orders, UNCHANGED <<status[o], completed[o], lastStock[o], line[o]>>
    PROVE  /\ Held(o)' = Held(o) /\ OffShelf(o)' = OffShelf(o)
           /\ GoodsKnown(o) => GoodsKnown(o)'
<1>1. Counted(o)' = Counted(o) /\ StockIsOut(o)' = StockIsOut(o) /\ Rows(o)' = Rows(o)
  BY DEF Counted, StockIsOut, Rows
<1>2. Held(o)' = Held(o)
  BY DEF Held
<1>3. OffShelf(o)' = OffShelf(o)
  BY <1>1 DEF OffShelf
<1>4. GoodsKnown(o) => GoodsKnown(o)'
  BY <1>1 DEF GoodsKnown
<1> QED
  BY <1>2, <1>3, <1>4

-----------------------------------------------------------------------------
\* A step keeps a conservation law when the counter moves by what one order
\* holds or has out more or less.

LEMMA HoldsMove ==
    ASSUME CountersOK, OrdersOK, OrdersOK', ReservationsAccounted,
           NEW o \in Orders, NEW d \in [Lines -> Int], NEW S \in {Tracked, Physical},
           reserved' = Shift(reserved, S, d),
           \A x \in Orders \ {o} : Held(x)' = Held(x),
           \A l \in Lines : Held(o)'[l] = Held(o)[l] + d[l]
    PROVE  ReservationsAccounted'
<1> SUFFICES ASSUME NEW p \in Tracked PROVE reserved'[p] = OverOrders(Held, p)'
  BY DEF ReservationsAccounted
<1>1. p \in S /\ p \in SKUs
  BY ConstantsAssumption, DigitalUntracked DEF Physical
<1>2. reserved'[p] = reserved[p] + PerSku(d, p)
  BY <1>1 DEF Shift
<1>3. /\ HeldBy \in [Orders -> [Lines -> Int]] /\ HeldBy' \in [Orders -> [Lines -> Int]]
  <2>1. (OrdersOK => HeldBy \in [Orders -> [Lines -> Int]])'
    BY HeldTyped, PTL
  <2> QED
    BY <2>1, HeldTyped
<1>4. /\ \A x \in Orders \ {o} : HeldBy'[x] = HeldBy[x]
      /\ \A l \in Lines : HeldBy'[o][l] = HeldBy[o][l] + d[l]
  BY DEF HeldBy
<1>5. OrderSum(HeldBy', p) = OrderSum(HeldBy, p) + PerSku(d, p)
  <2> HIDE DEF HeldBy
  <2> QED
    BY <1>3, <1>4, OrderSumMoves
<1>6. reserved[p] = OrderSum(HeldBy, p)
  BY OverOrdersIsSum DEF ReservationsAccounted
<1> QED
  BY <1>2, <1>5, <1>6, OverOrdersIsSumNext

LEMMA HoldsStay ==
    ASSUME ReservationsAccounted, UNCHANGED reserved, \A x \in Orders : Held(x)' = Held(x)
    PROVE  ReservationsAccounted'
<1>1. HeldBy' = HeldBy
  BY DEF HeldBy
<1> QED
  BY <1>1, OverOrdersIsSum, OverOrdersIsSumNext DEF ReservationsAccounted

LEMMA ShelfMoves ==
    ASSUME CountersOK, OrdersOK, OrdersOK', StockAccounted,
           NEW o \in Orders, NEW e \in [Lines -> Int],
           stock' = Shift(stock, Physical, e), UNCHANGED moved,
           \A x \in Orders \ {o} : OffShelf(x)' = OffShelf(x),
           \A l \in Lines : OffShelf(o)'[l] = OffShelf(o)[l] - e[l]
    PROVE  StockAccounted'
<1> SUFFICES ASSUME NEW p \in Tracked
             PROVE  stock'[p] + OverOrders(OffShelf, p)' = InitStock[p] + moved'[p]
  BY DEF StockAccounted
<1> DEFINE d == Negated(e)
<1>0. d \in [Lines -> Int] /\ \A l \in Lines : d[l] = -e[l]
  BY DEF Negated
<1>1. p \in Physical /\ p \in SKUs
  BY ConstantsAssumption, DigitalUntracked DEF Physical
<1>2. stock'[p] = stock[p] + PerSku(e, p)
  BY <1>1 DEF Shift
<1>3. /\ OffBy \in [Orders -> [Lines -> Int]] /\ OffBy' \in [Orders -> [Lines -> Int]]
  <2>1. (OrdersOK => OffBy \in [Orders -> [Lines -> Int]])'
    BY OffShelfTyped, PTL
  <2> QED
    BY <2>1, OffShelfTyped
<1> HIDE DEF d
<1>4. /\ \A x \in Orders \ {o} : OffBy'[x] = OffBy[x]
      /\ \A l \in Lines : OffBy'[o][l] = OffBy[o][l] + d[l]
  <2>1. /\ \A x \in Orders : OffBy'[x] = OffShelf(x)'
        /\ \A x \in Orders : OffBy[x] = OffShelf(x)
    BY DEF OffBy
  <2>2. \A l \in Lines : OffShelf(o)[l] \in Int /\ e[l] \in Int
    BY <1>3, <2>1
  <2> QED
    BY <1>0, <2>1, <2>2
<1>5. OrderSum(OffBy', p) = OrderSum(OffBy, p) + PerSku(d, p)
  <2> HIDE DEF OffBy
  <2> QED
    BY <1>0, <1>3, <1>4, OrderSumMoves
<1>6. PerSku(d, p) = -PerSku(e, p)
  <2> DEFINE z == [l \in Lines |-> 0]
  <2>1. z \in [Lines -> Int] /\ \A l \in Lines : z[l] = e[l] + d[l]
    BY <1>0
  <2>2. PerSku(z, p) = 0
    BY ConstantsAssumption, FS_Subset, SumZero DEF PerSku
  <2> HIDE DEF z
  <2>3. PerSku(z, p) = PerSku(e, p) + PerSku(d, p)
    BY <1>0, <2>1, PerSkuPlus
  <2>4. PerSku(e, p) \in Int /\ PerSku(d, p) \in Int
    BY <1>0, PerSkuInt
  <2> QED
    BY <2>2, <2>3, <2>4
<1>7. stock[p] + OrderSum(OffBy, p) = InitStock[p] + moved[p]
  BY OverOrdersIsSum DEF StockAccounted
<1>8. /\ stock[p] \in Int /\ PerSku(e, p) \in Int
      /\ OrderSum(OffBy, p) \in Int
  BY <1>1, <1>3, PerSkuInt, OrderSumInt DEF CountersOK
<1>9. OverOrders(OffShelf, p)' = OrderSum(OffBy', p)
  BY OverOrdersIsSumNext
<1> QED
  BY <1>2, <1>5, <1>6, <1>7, <1>8, <1>9

LEMMA ShelfStays ==
    ASSUME StockAccounted, UNCHANGED <<stock, moved>>,
           \A x \in Orders : OffShelf(x)' = OffShelf(x)
    PROVE  StockAccounted'
<1>1. OffBy' = OffBy
  BY DEF OffBy
<1> QED
  BY <1>1, OverOrdersIsSum, OverOrdersIsSumNext DEF StockAccounted

-----------------------------------------------------------------------------
\* How the three ways of recording a return move the shelf and the counts.

LEMMA CountsWritten ==
    ASSUME OrdersOK, NEW o \in Orders, NEW back, NEW off, SetCounts(o, back, off)
    PROVE  \A l \in Lines : /\ line'[o][l].qty = line[o][l].qty
                            /\ line'[o][l].back = back[l]
                            /\ line'[o][l].off = off[l]
BY DEF SetCounts, OrdersOK

LEMMA RowsKept ==
    ASSUME NEW o \in Orders, \A l \in Lines : line'[o][l].qty = line[o][l].qty
    PROVE  Rows(o)' = Rows(o)
BY DEF Rows

LEMMA SetReturnStockMoves ==
    ASSUME Typed, NEW o \in Orders, NEW ret \in ReturnLines, setReturnStock(o, ret)
    PROVE  \E e \in [Lines -> Int] :
             /\ stock' = Shift(stock, Physical, e)
             /\ \A l \in Lines :
                  /\ line'[o][l].qty = line[o][l].qty
                  /\ Counted(o) => /\ line'[o][l].back = line[o][l].back + e[l]
                                   /\ line'[o][l].off = line[o][l].off - e[l]
                  /\ ~Counted(o) => /\ line'[o][l].back = line[o][l].qty + e[l]
                                    /\ line'[o][l].off = -e[l]
<1> DEFINE onShelf(l) == IF Counted(o) THEN line[o][l].back ELSE line[o][l].qty
           returned(l) == IF Counted(o) THEN line[o][l].back + line[o][l].off
                                        ELSE line[o][l].qty
           back(l) == IF l \in DOMAIN ret THEN ret[l].restock ELSE onShelf(l)
           e == [l \in Lines |-> back(l) - onShelf(l)]
<1>1. /\ stock' = Shift(stock, Physical, e)
      /\ SetCounts(o, [l \in Lines |-> back(l)], [l \in Lines |-> returned(l) - back(l)])
  BY DEF setReturnStock, restockReturnedItems
<1>2. \A l \in Lines : /\ line'[o][l].qty = line[o][l].qty
                       /\ line'[o][l].back = back(l)
                       /\ line'[o][l].off = returned(l) - back(l)
  BY <1>1, CountsWritten DEF Typed
<1>3. ASSUME NEW l \in Lines PROVE back(l) \in Int /\ onShelf(l) \in Int
  <2>1. l \in DOMAIN ret => ret[l].restock \in Nat
    BY RetCounts
  <2>2. onShelf(l) \in Int
    BY RowTyped DEF Typed
  <2> QED
    BY <2>1, <2>2
<1>4. e \in [Lines -> Int] /\ \A l \in Lines : e[l] = back(l) - onShelf(l)
  BY <1>3
<1>5. ASSUME NEW l \in Lines, Counted(o)
      PROVE  /\ line'[o][l].back = line[o][l].back + e[l]
             /\ line'[o][l].off = line[o][l].off - e[l]
  <2>1. onShelf(l) = line[o][l].back /\ returned(l) = line[o][l].back + line[o][l].off
    BY <1>5
  <2>2. line[o][l].back \in Int /\ line[o][l].off \in Int
    BY RowTyped DEF Typed
  <2> HIDE DEF onShelf, returned, back, e
  <2>3. e[l] = back(l) - line[o][l].back /\ back(l) \in Int
    BY <1>3, <1>4, <2>1
  <2>4. line'[o][l].off = line[o][l].back + line[o][l].off - back(l)
    BY <1>2, <2>1, <2>2, <2>3
  <2>5. line'[o][l].back = back(l)
    BY <1>2
  <2>6. line'[o][l].back = line[o][l].back + e[l]
    BY <2>2, <2>3, <2>5
  <2>7. line'[o][l].off = line[o][l].off - e[l]
    BY <2>2, <2>3, <2>4
  <2> QED
    BY <2>6, <2>7
<1>6. ASSUME NEW l \in Lines, ~Counted(o)
      PROVE  /\ line'[o][l].back = line[o][l].qty + e[l]
             /\ line'[o][l].off = -e[l]
  <2>1. onShelf(l) = line[o][l].qty /\ returned(l) = line[o][l].qty
    BY <1>6
  <2>2. line[o][l].qty \in Int
    BY RowTyped DEF Typed
  <2> HIDE DEF onShelf, returned, back, e
  <2> QED
    BY <1>2, <1>3, <1>4, <2>1, <2>2
<1> HIDE DEF e, back, onShelf, returned
<1> QED
  BY <1>1, <1>2, <1>4, <1>5, <1>6

\* Written off after the goods were counted back: they leave the shelf.
LEMMA WriteOffMoves ==
    ASSUME Typed, NEW o \in Orders, NEW ret \in ReturnLines, writeOffFromShelf(o, ret),
           Counted(o) \/ Rows(o) = {}
    PROVE  /\ \E e \in [Lines -> Int] :
                /\ stock' = Shift(stock, Physical, e)
                /\ \A l \in Lines : /\ line'[o][l].qty = line[o][l].qty
                                    /\ line'[o][l].back = line[o][l].back + e[l]
           /\ Counted(o)' \/ Rows(o)' = {}
<1> DEFINE onShelf(l) == IF Counted(o) THEN line[o][l].back ELSE line[o][l].qty
           prevOff(l) == IF Counted(o) THEN line[o][l].off ELSE 0
           more(l) == IF l \in DOMAIN ret /\ ret[l].writeOff > prevOff(l)
                      THEN ret[l].writeOff - prevOff(l) ELSE 0
           back(l) == IF more(l) > 0 THEN onShelf(l) - more(l) ELSE line[o][l].back
           off(l) == IF more(l) > 0 THEN ret[l].writeOff ELSE line[o][l].off
           e == Negated([l \in Lines |-> more(l)])
<1>1. /\ DOMAIN ret \subseteq Rows(o)
      /\ stock' = Shift(stock, Physical, e)
      /\ SetCounts(o, [l \in Lines |-> back(l)], [l \in Lines |-> off(l)])
  BY DEF writeOffFromShelf, decrementStockOnly, Rows
<1>2. \A l \in Lines : /\ line'[o][l].qty = line[o][l].qty
                       /\ line'[o][l].back = back(l)
                       /\ line'[o][l].off = off(l)
  BY <1>1, CountsWritten DEF Typed
<1>3. ASSUME NEW l \in Lines
      PROVE  /\ more(l) \in Nat
             /\ back(l) = line[o][l].back - more(l)
             /\ off(l) \in Nat /\ (off(l) >= line[o][l].off)
  <2>1. /\ line[o][l].back \in Nat /\ line[o][l].off \in Nat /\ line[o][l].qty \in Nat
        /\ l \in DOMAIN ret => ret[l].writeOff \in Nat
    BY RowTyped, RetCounts DEF Typed
  <2>2. CASE l \in DOMAIN ret /\ ret[l].writeOff > prevOff(l)
    <3>1. Counted(o)
      BY <1>1, <2>2
    <3> QED
      BY <2>1, <2>2, <3>1
  <2>3. CASE ~(l \in DOMAIN ret /\ ret[l].writeOff > prevOff(l))
    <3>1. more(l) = 0
      BY <2>3
    <3> QED
      BY <2>1, <3>1
  <2> QED
    BY <2>2, <2>3
<1>4. e \in [Lines -> Int] /\ \A l \in Lines : e[l] = -more(l)
  BY <1>3 DEF Negated
<1> HIDE DEF e, back, off, more
<1>5. \A l \in Lines : line'[o][l].back = line[o][l].back + e[l]
  BY <1>2, <1>3, <1>4, RowTyped DEF Typed
<1>6. Rows(o)' = Rows(o)
  BY <1>2, RowsKept
<1>7. ASSUME Counted(o) PROVE Counted(o)'
  <2>1. PICK l \in Lines : line[o][l].back > 0 \/ line[o][l].off > 0
    BY <1>7 DEF Counted
  <2>2. line[o][l].back \in Nat /\ line[o][l].off \in Nat /\ more(l) \in Nat
    BY <1>3, RowTyped DEF Typed
  <2>3. CASE more(l) = 0
    BY <1>2, <1>3, <2>1, <2>2, <2>3 DEF Counted, back, off
  <2>4. CASE more(l) # 0
    <3>1. line'[o][l].off > 0
      <4>1. l \in DOMAIN ret /\ ret[l].writeOff > prevOff(l) /\ more(l) > 0
        BY <2>2, <2>4 DEF more
      <4>2. ret[l].writeOff \in Nat /\ prevOff(l) \in Nat
        BY <2>2, <4>1, RetCounts
      <4>3. off(l) = ret[l].writeOff
        BY <4>1 DEF off
      <4> QED
        BY <1>2, <4>1, <4>2, <4>3
    <3> QED
      BY <3>1 DEF Counted
  <2> QED
    BY <2>3, <2>4
<1> QED
  BY <1>1, <1>2, <1>4, <1>5, <1>6, <1>7

\* A completed order comes back, or the rest of it does.
LEMMA ApplyReturnMoves ==
    ASSUME Typed, Practices = {}, NEW o \in Orders, NEW s \in RELEASE_ON_CANCEL,
           NEW ret \in ReturnLines, NEW fromPartial \in BOOLEAN,
           applyReturnLines(o, s, ret, fromPartial)
    PROVE  /\ \E e \in [Lines -> Int] :
                /\ stock' = Shift(stock, Physical, e)
                /\ \A l \in Lines :
                     /\ line'[o][l].qty = line[o][l].qty
                     /\ fromPartial => line'[o][l].back = line[o][l].back + e[l]
                     /\ ~fromPartial => line'[o][l].back = e[l]
           /\ Counted(o)' \/ Rows(o)' = {}
<1> DEFINE prevBack(l) == IF fromPartial THEN line[o][l].back ELSE 0
           prevOff(l) == IF fromPartial THEN line[o][l].off ELSE 0
           back(l) == IF l \in DOMAIN ret THEN ret[l].restock
                      ELSE line[o][l].qty - prevOff(l)
           off(l) == IF l \in DOMAIN ret THEN ret[l].writeOff ELSE prevOff(l)
           e == [l \in Lines |-> back(l) - prevBack(l)]
<1>1. /\ stock' = Shift(stock, Physical, e)
      /\ SetCounts(o, [l \in Lines |-> back(l)], [l \in Lines |-> off(l)])
  BY DEF applyReturnLines, restockReturnedItems
<1>2. /\ \A l \in Rows(o) : s = "RETURNED" => back(l) + off(l) = line[o][l].qty
      /\ s = "PARTIALLY_RETURNED" => \E l \in Rows(o) : back(l) + off(l) > 0
      /\ s = "CANCELED" => \E l \in Rows(o) : back(l) + off(l) > 0
  BY DEF applyReturnLines, Rows
<1>3. \A l \in Lines : /\ line'[o][l].qty = line[o][l].qty
                       /\ line'[o][l].back = back(l)
                       /\ line'[o][l].off = off(l)
  BY <1>1, CountsWritten DEF Typed
<1>4. ASSUME NEW l \in Lines PROVE back(l) \in Int /\ prevBack(l) \in Int /\ off(l) \in Nat
  <2>1. /\ line[o][l].back \in Nat /\ line[o][l].off \in Nat /\ line[o][l].qty \in Nat
        /\ l \in DOMAIN ret => ret[l].writeOff \in Nat /\ ret[l].restock \in Nat
    BY RowTyped, RetCounts DEF Typed
  <2>2. prevBack(l) \in Nat /\ prevOff(l) \in Nat
    BY <2>1
  <2> HIDE DEF prevBack, prevOff
  <2> QED
    BY <2>1, <2>2
<1>5. e \in [Lines -> Int] /\ \A l \in Lines : e[l] = back(l) - prevBack(l)
  BY <1>4
<1>6. /\ fromPartial => \A l \in Lines : prevBack(l) = line[o][l].back
      /\ ~fromPartial => \A l \in Lines : prevBack(l) = 0
  OBVIOUS
<1> HIDE DEF e, back, off, prevBack
<1>7. ASSUME NEW l \in Lines
      PROVE  /\ fromPartial => line'[o][l].back = line[o][l].back + e[l]
             /\ ~fromPartial => line'[o][l].back = e[l]
  BY <1>3, <1>4, <1>5, <1>6, RowTyped DEF Typed
<1>8. Rows(o)' = Rows(o)
  BY <1>3, RowsKept
<1>9. Recounted(o)
  BY ApplyReturnRecounts
<1>10. line' \in [Orders -> [Lines -> LineRow]]
  BY <1>9, RecountTyped
<1>11. ASSUME Rows(o) # {} PROVE Counted(o)'
  <2>1. PICK l \in Rows(o) : back(l) + off(l) > 0
    <3>1. CASE s = "RETURNED"
      <4>1. PICK l \in Rows(o) : TRUE
        BY <1>11
      <4>2. line[o][l].qty > 0
        BY DEF Rows
      <4> QED
        BY <1>2, <3>1, <4>2
    <3> QED
      BY <1>2, <3>1 DEF RELEASE_ON_CANCEL
  <2>2. l \in Lines
    BY DEF Rows
  <2>3. line'[o][l].back \in Nat /\ line'[o][l].off \in Nat
    BY <1>10, <2>2 DEF LineRow
  <2>4. line'[o][l].back + line'[o][l].off > 0
    BY <1>3, <2>1, <2>2
  <2>5. line'[o][l].back > 0 \/ line'[o][l].off > 0
    BY <2>3, <2>4
  <2> QED
    BY <2>2, <2>5 DEF Counted
<1> QED
  BY <1>1, <1>3, <1>5, <1>7, <1>8, <1>11

-----------------------------------------------------------------------------
(***************************************************************************)
(* The conservation laws, one action at a time.  A step on order o keeps   *)
(* them if each counter follows what o holds and what it has out.          *)
(***************************************************************************)
HoldsFollow(o) ==
    \/ UNCHANGED reserved /\ \A l \in Lines : Held(o)'[l] = Held(o)[l]
    \/ \E d \in [Lines -> Int], S \in {Tracked, Physical} :
          /\ reserved' = Shift(reserved, S, d)
          /\ \A l \in Lines : Held(o)'[l] = Held(o)[l] + d[l]

ShelfFollows(o) ==
    \/ UNCHANGED stock /\ \A l \in Lines : OffShelf(o)'[l] = OffShelf(o)[l]
    \/ \E e \in [Lines -> Int] :
          /\ stock' = Shift(stock, Physical, e)
          /\ \A l \in Lines : OffShelf(o)'[l] = OffShelf(o)[l] - e[l]

OnlyOrder(o) ==
    /\ UNCHANGED moved
    /\ \A x \in Orders \ {o} : UNCHANGED <<status[x], completed[x], lastStock[x], line[x]>>

LEMMA FollowingKeeps ==
    ASSUME StockInv, OrdersOK', NEW o \in Orders, OnlyOrder(o),
           HoldsFollow(o), ShelfFollows(o), GoodsKnown(o)'
    PROVE  /\ ReservationsAccounted' /\ StockAccounted'
           /\ \A x \in Orders : GoodsKnown(x)'
<1>1. \A x \in Orders \ {o} : /\ Held(x)' = Held(x) /\ OffShelf(x)' = OffShelf(x)
                              /\ GoodsKnown(x)'
  BY OthersKeep DEF OnlyOrder, StockInv, Known
<1>2. ReservationsAccounted'
  <2>1. CASE UNCHANGED reserved /\ \A l \in Lines : Held(o)'[l] = Held(o)[l]
    <3>1. Held(o)' = Held(o)
      BY <2>1 DEF Held
    <3>2. \A x \in Orders : Held(x)' = Held(x)
      BY <1>1, <3>1
    <3> QED
      BY <2>1, <3>2, HoldsStay DEF StockInv
  <2>2. ASSUME NEW d \in [Lines -> Int], NEW S \in {Tracked, Physical},
               reserved' = Shift(reserved, S, d),
               \A l \in Lines : Held(o)'[l] = Held(o)[l] + d[l]
        PROVE  ReservationsAccounted'
    <3>1. \A x \in Orders \ {o} : Held(x)' = Held(x)
      BY <1>1
    <3> QED
      BY <2>2, <3>1, HoldsMove DEF StockInv, Known, IInv, Typed
  <2> QED
    BY <2>1, <2>2 DEF HoldsFollow
<1>3. StockAccounted'
  <2>1. CASE UNCHANGED stock /\ \A l \in Lines : OffShelf(o)'[l] = OffShelf(o)[l]
    <3>1. OffShelf(o)' = OffShelf(o)
      BY <2>1 DEF OffShelf
    <3>2. \A x \in Orders : OffShelf(x)' = OffShelf(x)
      BY <1>1, <3>1
    <3> QED
      BY <2>1, <3>2, ShelfStays DEF StockInv, OnlyOrder
  <2>2. ASSUME NEW e \in [Lines -> Int],
               stock' = Shift(stock, Physical, e),
               \A l \in Lines : OffShelf(o)'[l] = OffShelf(o)[l] - e[l]
        PROVE  StockAccounted'
    <3>1. \A x \in Orders \ {o} : OffShelf(x)' = OffShelf(x)
      BY <1>1
    <3> QED
      BY <2>2, <3>1, ShelfMoves DEF StockInv, Known, IInv, Typed, OnlyOrder
  <2> QED
    BY <2>1, <2>2 DEF ShelfFollows
<1> QED
  BY <1>1, <1>2, <1>3

\* Before its first completion nothing an open order sold is off the shelf.
LEMMA OpenOrder ==
    ASSUME IInv, NEW o \in Orders, status[o] \in ITEM_EDITABLE_STATUSES, ~completed[o]
    PROVE  /\ ~Counted(o) /\ ~StockIsOut(o)
           /\ \A l \in Lines : /\ line[o][l].back = 0 /\ line[o][l].off = 0
                               /\ Held(o)[l] = line[o][l].qty /\ OffShelf(o)[l] = 0
<1>1. ~Counted(o) /\ ~StockIsOut(o)
  BY DEF IInv, OrderConsistent, StockIsOut
<1>2. \A l \in Lines : line[o][l].back = 0 /\ line[o][l].off = 0
  BY <1>1, RowTyped DEF Counted, IInv, Typed
<1> QED
  BY <1>1, <1>2, OffShelfIs, HeldIs DEF IInv

LEMMA PlaceOrderFollows ==
    ASSUME StockInv, NEW o \in Orders, NEW q \in [Lines -> Counts],
           NEW s \in {"PENDING", "CONFIRMED"}, PlaceOrder(o, s, q), Typed'
    PROVE  /\ OnlyOrder(o) /\ HoldsFollow(o) /\ ShelfFollows(o) /\ GoodsKnown(o)'
<1>1. Typed /\ OrderConsistent(o) /\ GoodsKnown(o)
  BY DEF StockInv, Known, IInv
<1>2. OnlyOrder(o)
  BY <1>1 DEF PlaceOrder, OnlyOrder, Typed, OrdersOK
<1>3. /\ status[o] = "none" /\ ~completed[o] /\ ~Counted(o)
  BY <1>1 DEF PlaceOrder, OrderConsistent, GoodsKnown
<1>4. status'[o] = s /\ ~completed'[o]
  BY <1>1, <1>3 DEF PlaceOrder, Typed, OrdersOK
<1>5. \A l \in Lines : line'[o][l].qty = q[l] /\ line'[o][l].off = 0
  BY <1>1 DEF PlaceOrder, Typed, OrdersOK, NewLine
<1>6. q \in [Lines -> Int]
  <2>1. Counts \subseteq Int
    BY ConstantsAssumption DEF Counts
  <2> QED
    BY <2>1
<1>7. HoldsFollow(o)
  <2>1. reserved' = Shift(reserved, Tracked, q)
    BY DEF PlaceOrder, reserveStock
  <2>2. \A l \in Lines : Held(o)[l] = 0 /\ Held(o)'[l] = q[l]
    BY <1>3, <1>4, <1>5 DEF Held, ITEM_EDITABLE_STATUSES
  <2>3. \A l \in Lines : Held(o)'[l] = Held(o)[l] + q[l]
    BY <1>6, <2>2
  <2> QED
    BY <1>6, <2>1, <2>3 DEF HoldsFollow
<1>8. ShelfFollows(o)
  <2>1. \A l \in Lines : OffShelf(o)[l] = 0
    BY <1>1, <1>3, OffShelfIs, RowTyped DEF Counted, Typed
  <2>2. \A l \in Lines : OffShelf(o)'[l] = 0
    BY <1>4, <1>5 DEF OffShelf, StockIsOut
  <2> QED
    BY <2>1, <2>2 DEF ShelfFollows, PlaceOrder
<1>9. GoodsKnown(o)'
  BY <1>4 DEF GoodsKnown, RELEASE_ON_CANCEL, StockIsOut
<1> QED
  BY <1>2, <1>7, <1>8, <1>9

-----------------------------------------------------------------------------
\* Item edits.

LEMMA OneLineTyped ==
    ASSUME NEW l \in Lines, NEW n \in Int
    PROVE  /\ OneLine(l, n) \in [Lines -> Int]
           /\ \A k \in Lines : OneLine(l, n)[k] = IF k = l THEN n ELSE 0
           /\ Negated(OneLine(l, n)) \in [Lines -> Int]
           /\ \A k \in Lines : Negated(OneLine(l, n))[k] = IF k = l THEN -n ELSE 0
<1>1. /\ OneLine(l, n) \in [Lines -> Int]
      /\ \A k \in Lines : OneLine(l, n)[k] = IF k = l THEN n ELSE 0
  BY DEF OneLine
<1>2. Negated(OneLine(l, n)) \in [Lines -> Int]
  BY <1>1 DEF Negated
<1>3. \A k \in Lines : Negated(OneLine(l, n))[k] = IF k = l THEN -n ELSE 0
  BY <1>1 DEF Negated
<1> QED
  BY <1>1, <1>2, <1>3

\* An edit moves the hold of its line by what it changes.
LEMMA EditHolds ==
    ASSUME StockInv, NEW h \in Requests,
           addItem(h) \/ updateItemQuantity(h) \/ removeItem(h)
    PROVE  /\ edit[h] \in EditRequest /\ edit[h].o \in Orders /\ edit[h].l \in Lines
           /\ \/ UNCHANGED reserved /\ Edited(h).qty = line[edit[h].o][edit[h].l].qty
              \/ \E d \in [Lines -> Int] :
                    /\ reserved' = Shift(reserved, Tracked, d)
                    /\ \A k \in Lines :
                          d[k] = IF k = edit[h].l
                                 THEN Edited(h).qty - line[edit[h].o][edit[h].l].qty ELSE 0
           /\ Edited(h).qty \in Int
           /\ Edited(h).off = IF edit[h].kind = "set" THEN line[edit[h].o][edit[h].l].off ELSE 0
<1>1. edit[h] \in EditRequest /\ edit[h] # Idle
  BY EditLines DEF addItem, updateItemQuantity, removeItem, EndEdit, StockInv, Known,
     IInv, Typed
<1>2. edit[h].o \in Orders /\ edit[h].l \in Lines
  BY <1>1 DEF EditRequest
<1>3. edit[h].qty \in Int /\ edit[h].seen \in Int
  BY <1>1 DEF EditRequest
<1>4. /\ line[edit[h].o][edit[h].l].qty = edit[h].seen
      /\ edit[h].kind = "add" => edit[h].seen = 0
  BY <1>1 DEF StockInv, Known, SeesLine
<1>5. CASE addItem(h)
  <2>1. /\ edit[h].kind = "add"
        /\ reserved' = Shift(reserved, Tracked, OneLine(edit[h].l, edit[h].qty))
    BY <1>5 DEF addItem, reserveStock
  <2>2. Edited(h).qty = edit[h].qty /\ Edited(h).off = 0
    BY <2>1 DEF Edited, NewLine
  <2>3. edit[h].seen = 0
    BY <1>4, <2>1
  <2>4. edit[h].qty = Edited(h).qty - line[edit[h].o][edit[h].l].qty
    BY <1>3, <1>4, <2>2, <2>3
  <2> DEFINE d == OneLine(edit[h].l, edit[h].qty)
  <2>5. /\ d \in [Lines -> Int]
        /\ \A k \in Lines : d[k] = IF k = edit[h].l THEN edit[h].qty ELSE 0
    BY <1>2, <1>3, OneLineTyped
  <2>6. reserved' = Shift(reserved, Tracked, d)
    BY <2>1
  <2> HIDE DEF d
  <2> QED
    BY <1>1, <1>2, <1>3, <2>1, <2>2, <2>4, <2>5, <2>6
<1>6. CASE updateItemQuantity(h)
  <2>1. edit[h].kind = "set"
    BY <1>6 DEF updateItemQuantity
  <2>2. /\ Edited(h).qty = edit[h].qty
        /\ Edited(h).off = line[edit[h].o][edit[h].l].off
    BY <2>1 DEF Edited
  <2>3. \/ reserved' = Shift(reserved, Tracked,
                             OneLine(edit[h].l, edit[h].qty - edit[h].seen))
        \/ reserved' = Shift(reserved, Tracked,
                             Negated(OneLine(edit[h].l, edit[h].seen - edit[h].qty)))
        \/ UNCHANGED reserved /\ edit[h].qty = edit[h].seen
    BY <1>6 DEF updateItemQuantity, reserveStock, releaseStock
  <2>4. PICK n \in Int : n = edit[h].qty - edit[h].seen
    BY <1>3
  <2>5. n = Edited(h).qty - line[edit[h].o][edit[h].l].qty
    BY <1>4, <2>2, <2>4
  <2>6. edit[h].seen - edit[h].qty = -n /\ -n \in Int /\ -(-n) = n
    BY <1>3, <2>4
  <2>7. CASE reserved' = Shift(reserved, Tracked, OneLine(edit[h].l, n))
    <3> DEFINE d == OneLine(edit[h].l, n)
    <3>1. d \in [Lines -> Int] /\ \A k \in Lines : d[k] = IF k = edit[h].l THEN n ELSE 0
      BY <1>2, OneLineTyped
    <3> HIDE DEF d
    <3>2. reserved' = Shift(reserved, Tracked, d)
      BY <2>7 DEF d
    <3> QED
      BY <1>1, <1>2, <1>3, <2>1, <2>2, <2>5, <3>1, <3>2
  <2>8. CASE reserved' = Shift(reserved, Tracked, Negated(OneLine(edit[h].l, -n)))
    <3> DEFINE d == Negated(OneLine(edit[h].l, -n))
    <3>1. d \in [Lines -> Int] /\ \A k \in Lines : d[k] = IF k = edit[h].l THEN n ELSE 0
      <4>1. PICK l \in Lines, m \in Int : l = edit[h].l /\ m = -n /\ -m = n
        BY <1>2, <2>6
      <4>2. d = Negated(OneLine(l, m))
        BY <4>1
      <4>3. d \in [Lines -> Int] /\ \A k \in Lines : d[k] = IF k = l THEN -m ELSE 0
        <5> HIDE DEF d
        <5> QED
          BY <4>2, OneLineTyped
      <4> HIDE DEF d
      <4> QED
        BY <4>1, <4>3
    <3> HIDE DEF d
    <3>2. reserved' = Shift(reserved, Tracked, d)
      BY <2>8 DEF d
    <3> QED
      BY <1>1, <1>2, <1>3, <2>1, <2>2, <2>5, <3>1, <3>2
  <2>9. CASE UNCHANGED reserved /\ edit[h].qty = edit[h].seen
    BY <1>1, <1>2, <1>3, <1>4, <2>1, <2>2, <2>9
  <2> QED
    BY <2>3, <2>4, <2>6, <2>7, <2>8, <2>9
<1>7. CASE removeItem(h)
  <2>1. /\ edit[h].kind = "remove"
        /\ reserved' = Shift(reserved, Tracked, Negated(OneLine(edit[h].l, edit[h].seen)))
    BY <1>7 DEF removeItem, releaseStock
  <2>2. Edited(h).qty = 0 /\ Edited(h).off = 0
    BY <2>1 DEF Edited, NoLine, NewLine
  <2>3. -edit[h].seen = Edited(h).qty - line[edit[h].o][edit[h].l].qty
    BY <1>3, <1>4, <2>2
  <2> DEFINE d == Negated(OneLine(edit[h].l, edit[h].seen))
  <2>4. /\ d \in [Lines -> Int]
        /\ \A k \in Lines : d[k] = IF k = edit[h].l THEN -edit[h].seen ELSE 0
    <3>1. PICK l \in Lines, m \in Int : l = edit[h].l /\ m = edit[h].seen
      BY <1>2, <1>3
    <3>2. d = Negated(OneLine(l, m))
      BY <3>1
    <3>3. d \in [Lines -> Int] /\ \A k \in Lines : d[k] = IF k = l THEN -m ELSE 0
      <4> HIDE DEF d
      <4> QED
        BY <3>2, OneLineTyped
    <3> HIDE DEF d
    <3> QED
      BY <3>1, <3>3
  <2>5. reserved' = Shift(reserved, Tracked, d)
    BY <2>1
  <2> HIDE DEF d
  <2> QED
    BY <1>1, <1>2, <1>3, <2>1, <2>2, <2>3, <2>4, <2>5
<1> QED
  BY <1>5, <1>6, <1>7

LEMMA EditFollows ==
    ASSUME StockInv, NEW h \in Requests,
           addItem(h) \/ updateItemQuantity(h) \/ removeItem(h)
    PROVE  \E o \in Orders : /\ OnlyOrder(o) /\ HoldsFollow(o) /\ ShelfFollows(o)
                             /\ GoodsKnown(o)'
<1>1. PICK o \in Orders, l \in Lines : o = edit[h].o /\ l = edit[h].l
  BY EditHolds
<1>2. /\ line' = [line EXCEPT ![o][l] = Edited(h)]
      /\ Typed
  BY <1>1, EditLines DEF StockInv, Known, IInv, Typed
<1>3. UNCHANGED <<stock, moved, status, completed, lastStock>> /\ edit[h] # Idle
  BY DEF addItem, updateItemQuantity, removeItem, EndEdit
<1>4. status[o] \in ITEM_EDITABLE_STATUSES /\ ~completed[o]
  BY <1>1, <1>3 DEF StockInv, Known, IInv, EditFresh
<1>5. \A k \in Lines : /\ line[o][k].off = 0
                       /\ Held(o)[k] = line[o][k].qty /\ OffShelf(o)[k] = 0
  BY <1>4, OpenOrder DEF StockInv, Known
<1>6. /\ line'[o][l] = Edited(h)
      /\ \A k \in Lines \ {l} : line'[o][k] = line[o][k]
      /\ \A x \in Orders \ {o} : line'[x] = line[x]
  BY <1>2 DEF Typed, OrdersOK
<1>7. OnlyOrder(o)
  BY <1>3, <1>6 DEF OnlyOrder
<1>8. Edited(h).qty \in Int /\ Edited(h).off = 0
  BY <1>1, <1>5, EditHolds
<1>9. \A k \in Lines : Held(o)'[k] = line'[o][k].qty /\ OffShelf(o)'[k] = line'[o][k].off
  BY <1>3, <1>4 DEF Held, OffShelf, StockIsOut
<1>10. ShelfFollows(o)
  <2>1. \A k \in Lines : line'[o][k].off = 0
    BY <1>5, <1>6, <1>8
  <2> QED
    BY <1>3, <1>5, <1>9, <2>1 DEF ShelfFollows
<1>11. HoldsFollow(o)
  <2>1. \A k \in Lines \ {l} : Held(o)'[k] = Held(o)[k]
    BY <1>5, <1>6, <1>9
  <2>2. Held(o)[l] = line[o][l].qty /\ Held(o)'[l] = Edited(h).qty
    BY <1>5, <1>6, <1>9
  <2>3. \A k \in Lines : line[o][k].qty \in Int /\ Held(o)[k] \in Int
    BY <1>2, <1>5, RowTyped DEF Typed
  <2>4. CASE UNCHANGED reserved /\ Edited(h).qty = line[o][l].qty
    BY <2>1, <2>2, <2>4 DEF HoldsFollow
  <2>5. ASSUME NEW d \in [Lines -> Int], reserved' = Shift(reserved, Tracked, d),
               \A k \in Lines : d[k] = IF k = l THEN Edited(h).qty - line[o][l].qty ELSE 0
        PROVE  HoldsFollow(o)
    <3>1. \A k \in Lines \ {l} : Held(o)'[k] = Held(o)[k] + d[k]
      BY <2>1, <2>3, <2>5
    <3>2. Held(o)'[l] = Held(o)[l] + d[l]
      BY <1>8, <2>2, <2>3, <2>5
    <3>3. \A k \in Lines : Held(o)'[k] = Held(o)[k] + d[k]
      BY <3>1, <3>2
    <3> QED
      BY <2>5, <3>3 DEF HoldsFollow
  <2> QED
    BY <1>1, <2>4, <2>5, EditHolds
<1>12. GoodsKnown(o)'
  BY <1>3, <1>4 DEF GoodsKnown, ITEM_EDITABLE_STATUSES, RELEASE_ON_CANCEL
<1> QED
  BY <1>7, <1>10, <1>11, <1>12

-----------------------------------------------------------------------------
\* updateStatus.

LEMMA StatusWritten ==
    ASSUME Typed, NEW o \in Orders, NEW s \in Requested, Asked(o, s), SetStatus(o, s)
    PROVE  /\ s \in OrderStatus /\ status[o] \in OrderStatus
           /\ status'[o] = s
           /\ completed'[o] <=> (completed[o] \/ s = "COMPLETED")
           /\ s \in RELEASE_ON_CANCEL \cup {"COMPLETED"} => lastStock'[o] = s
           /\ s \notin RELEASE_ON_CANCEL \cup {"COMPLETED"} => lastStock'[o] = lastStock[o]
           /\ \A x \in Orders \ {o} : UNCHANGED <<status[x], completed[x], lastStock[x]>>
           /\ UNCHANGED moved
<1>1. status[o] # "none"
  BY DEF Asked
<1> QED
  BY <1>1, ConstantsAssumption DEF SetStatus, Typed, OrdersOK

LEMMA StatusOnlyOrder ==
    ASSUME Typed, NEW o \in Orders, NEW s \in Requested, Asked(o, s), SetStatus(o, s),
           Recounted(o) \/ UNCHANGED line
    PROVE  OnlyOrder(o)
<1>1. \A x \in Orders \ {o} : line'[x] = line[x]
  BY RecountTyped
<1> QED
  BY <1>1, StatusWritten DEF OnlyOrder

\* An order closed in this step, or already closed, holds nothing afterwards and
\* its goods are not out.
LEMMA ClosedNow ==
    ASSUME Typed, NEW o \in Orders, NEW s \in Requested, Asked(o, s), SetStatus(o, s),
           s \in RELEASE_ON_CANCEL
    PROVE  /\ ~StockIsOut(o)' /\ (completed'[o] <=> completed[o])
           /\ \A l \in Lines : Held(o)'[l] = 0
<1>1. /\ status'[o] = s /\ lastStock'[o] = s
      /\ completed'[o] <=> (completed[o] \/ s = "COMPLETED")
  BY StatusWritten
<1>2. s # "COMPLETED" /\ s \notin ITEM_EDITABLE_STATUSES
  BY DEF RELEASE_ON_CANCEL, ITEM_EDITABLE_STATUSES
<1> QED
  BY <1>1, <1>2 DEF StockIsOut, Held

LEMMA CloseUnsoldFollows ==
    ASSUME StockInv, Typed', NEW o \in Orders, NEW s \in Requested, NEW ret \in ReturnLines,
           CloseUnsold(o, s, ret)
    PROVE  HoldsFollow(o) /\ ShelfFollows(o) /\ GoodsKnown(o)'
<1>1. /\ Typed /\ OrderConsistent(o)
      /\ Asked(o, s) /\ SetStatus(o, s) /\ s \in RELEASE_ON_CANCEL /\ ~completed[o]
      /\ status[o] \notin RELEASE_ON_CANCEL
  BY DEF CloseUnsold, Closing, StockInv, Known, IInv
<1>2. status[o] \in ITEM_EDITABLE_STATUSES
  BY <1>1, StatusWritten DEF OrderStatus, OrderConsistent
<1>3. \A l \in Lines : Held(o)[l] = line[o][l].qty /\ OffShelf(o)[l] = 0
  BY <1>1, <1>2, OpenOrder DEF StockInv, Known
<1>4. ~Counted(o)
  BY <1>1, <1>2 DEF OrderConsistent
<1>5. /\ ~StockIsOut(o)' /\ ~completed'[o] /\ \A l \in Lines : Held(o)'[l] = 0
  BY <1>1, ClosedNow
<1>6. status'[o] = s
  BY <1>1, StatusWritten
<1>7. GoodsKnown(o)'
  BY <1>1, <1>5, <1>6 DEF GoodsKnown, RELEASE_ON_CANCEL
<1>8. \A l \in Lines : OffShelf(o)'[l] = line'[o][l].off
  BY <1>5 DEF OffShelf, StockIsOut
<1>9. HoldsFollow(o)
  <2> DEFINE d == Negated(Quantity(o))
  <2>1. \A l \in Lines : line[o][l].qty \in Nat
    BY <1>1, RowTyped DEF Typed
  <2>2. d \in [Lines -> Int] /\ \A l \in Lines : d[l] = -line[o][l].qty
    BY <2>1 DEF Negated, Quantity
  <2>3. reserved' = Shift(reserved, Physical, d)
    BY DEF CloseUnsold, releaseReservations
  <2> HIDE DEF d
  <2>4. \A l \in Lines : Held(o)'[l] = Held(o)[l] + d[l]
    BY <1>3, <1>5, <2>1, <2>2
  <2> QED
    BY <2>2, <2>3, <2>4 DEF HoldsFollow
<1>10. ShelfFollows(o)
  <2>1. CASE UNCHANGED <<stock, line>>
    <3>1. \A l \in Lines : line'[o][l].off = 0
      BY <1>1, <1>2, <2>1, OpenOrder DEF StockInv, Known
    <3> QED
      BY <1>3, <1>8, <2>1, <3>1 DEF ShelfFollows
  <2>2. CASE setReturnStock(o, ret)
    <3>1. PICK e \in [Lines -> Int] :
             /\ stock' = Shift(stock, Physical, e)
             /\ \A l \in Lines : line'[o][l].off = -e[l]
      BY <1>1, <1>4, <2>2, SetReturnStockMoves
    <3>2. \A l \in Lines : OffShelf(o)'[l] = OffShelf(o)[l] - e[l]
      BY <1>3, <1>8, <3>1
    <3> QED
      BY <3>1, <3>2 DEF ShelfFollows
  <2> QED
    BY <2>1, <2>2 DEF CloseUnsold
<1> QED
  BY <1>7, <1>9, <1>10

\* What a completed order keeps once its goods came back.
CameBack == \A o \in Orders :
    Typed /\ completed[o] /\ ~StockIsOut(o) /\ GoodsKnown(o)
       => \A l \in Lines : OffShelf(o)[l] = line[o][l].qty - line[o][l].back

LEMMA GoodsBack == CameBack
BY OffShelfIs DEF CameBack

LEMMA CameBackNow ==
    ASSUME Typed', NEW o \in Orders, completed'[o], ~StockIsOut(o)', GoodsKnown(o)'
    PROVE  \A l \in Lines : OffShelf(o)'[l] = line'[o][l].qty - line'[o][l].back
<1>1. CameBack'
  BY GoodsBack, PTL
<1> QED
  BY <1>1 DEF CameBack

\* A completed order is closed: nothing is held, and what leaves the lines of
\* goods that came back is what the shelf gains.
LEMMA ReturnFollows ==
    ASSUME StockInv, Typed', NEW o \in Orders, NEW s \in Requested, Asked(o, s),
           SetStatus(o, s), s \in RELEASE_ON_CANCEL, completed[o], UNCHANGED reserved,
           NEW e \in [Lines -> Int], stock' = Shift(stock, Physical, e),
           \A l \in Lines : /\ line'[o][l].qty = line[o][l].qty
                            /\ line'[o][l].back = line[o][l].qty - OffShelf(o)[l] + e[l],
           Counted(o)' \/ Rows(o)' = {}
    PROVE  HoldsFollow(o) /\ ShelfFollows(o) /\ GoodsKnown(o)'
<1>1. /\ ~StockIsOut(o)' /\ completed'[o] /\ \A l \in Lines : Held(o)'[l] = 0
      /\ status'[o] = s
  BY ClosedNow, StatusWritten DEF StockInv, Known, IInv
<1>2. GoodsKnown(o)'
  BY <1>1 DEF GoodsKnown, RELEASE_ON_CANCEL
<1>3. \A l \in Lines : Held(o)[l] = 0
  BY HeldIs DEF StockInv, Known, IInv
<1>4. \A l \in Lines : OffShelf(o)'[l] = line'[o][l].qty - line'[o][l].back
  BY <1>1, <1>2, CameBackNow
<1>5. \A l \in Lines : OffShelf(o)[l] \in Int /\ line[o][l].qty \in Int
  <2>1. OffBy \in [Orders -> [Lines -> Int]] /\ OrdersOK
    BY OffShelfTyped DEF StockInv, Known, IInv, Typed
  <2> QED
    BY <2>1, RowTyped DEF OffBy
<1>6. \A l \in Lines : OffShelf(o)'[l] = OffShelf(o)[l] - e[l]
  BY <1>4, <1>5
<1>7. HoldsFollow(o)
  BY <1>1, <1>3 DEF HoldsFollow
<1>8. ShelfFollows(o)
  BY <1>6 DEF ShelfFollows
<1> QED
  BY <1>2, <1>7, <1>8

LEMMA CloseSoldFollows ==
    ASSUME StockInv, Practices = {}, Typed', NEW o \in Orders, NEW s \in Requested,
           NEW ret \in ReturnLines, CloseSold(o, s, ret)
    PROVE  HoldsFollow(o) /\ ShelfFollows(o) /\ GoodsKnown(o)'
<1>1. /\ Typed /\ Asked(o, s) /\ SetStatus(o, s) /\ s \in RELEASE_ON_CANCEL
      /\ StockIsOut(o) /\ UNCHANGED reserved /\ completed[o]
      /\ applyReturnLines(o, s, ret, FALSE)
  BY DEF CloseSold, Closing, StockInv, Known, IInv, StockIsOut
<1>2. /\ \E e \in [Lines -> Int] :
           /\ stock' = Shift(stock, Physical, e)
           /\ \A l \in Lines : line'[o][l].qty = line[o][l].qty /\ line'[o][l].back = e[l]
      /\ Counted(o)' \/ Rows(o)' = {}
  BY <1>1, ApplyReturnMoves
<1>3. PICK e \in [Lines -> Int] :
         /\ stock' = Shift(stock, Physical, e)
         /\ \A l \in Lines : line'[o][l].qty = line[o][l].qty /\ line'[o][l].back = e[l]
  BY <1>2
<1>4. \A l \in Lines : OffShelf(o)[l] = line[o][l].qty /\ line[o][l].qty \in Int
  BY <1>1, OffShelfIs, RowTyped DEF Typed
<1>5. \A l \in Lines : /\ line'[o][l].qty = line[o][l].qty
                       /\ line'[o][l].back = line[o][l].qty - OffShelf(o)[l] + e[l]
  BY <1>3, <1>4
<1> QED
  BY <1>1, <1>2, <1>3, <1>5, ReturnFollows

LEMMA FinishReturnFollows ==
    ASSUME StockInv, Practices = {}, Typed', NEW o \in Orders, NEW s \in Requested,
           NEW ret \in ReturnLines, FinishReturn(o, s, ret)
    PROVE  HoldsFollow(o) /\ ShelfFollows(o) /\ GoodsKnown(o)'
<1>1. /\ Typed /\ GoodsKnown(o) /\ Asked(o, s) /\ SetStatus(o, s)
      /\ s \in RELEASE_ON_CANCEL /\ status[o] \in RELEASE_ON_CANCEL
      /\ UNCHANGED reserved /\ completed[o]
      /\ applyReturnLines(o, s, ret, TRUE)
  BY DEF FinishReturn, FinishesReturn, StockInv, Known, IInv, RELEASE_ON_CANCEL
<1>2. /\ \E e \in [Lines -> Int] :
           /\ stock' = Shift(stock, Physical, e)
           /\ \A l \in Lines : /\ line'[o][l].qty = line[o][l].qty
                               /\ line'[o][l].back = line[o][l].back + e[l]
      /\ Counted(o)' \/ Rows(o)' = {}
  BY <1>1, ApplyReturnMoves
<1>3. PICK e \in [Lines -> Int] :
         /\ stock' = Shift(stock, Physical, e)
         /\ \A l \in Lines : /\ line'[o][l].qty = line[o][l].qty
                             /\ line'[o][l].back = line[o][l].back + e[l]
  BY <1>2
<1>4. \A l \in Lines : /\ OffShelf(o)[l] = line[o][l].qty - line[o][l].back
                       /\ line[o][l].qty \in Int /\ line[o][l].back \in Int
  <2>1. ~StockIsOut(o)
    BY <1>1 DEF GoodsKnown
  <2> QED
    BY <1>1, <2>1, OffShelfIs, RowTyped DEF Typed
<1>5. \A l \in Lines : /\ line'[o][l].qty = line[o][l].qty
                       /\ line'[o][l].back = line[o][l].qty - OffShelf(o)[l] + e[l]
  BY <1>3, <1>4
<1> QED
  BY <1>1, <1>2, <1>3, <1>5, ReturnFollows

LEMMA CloseReturnedFollows ==
    ASSUME StockInv, Typed', NEW o \in Orders, NEW s \in Requested,
           NEW ret \in ReturnLines, CloseReturned(o, s, ret)
    PROVE  HoldsFollow(o) /\ ShelfFollows(o) /\ GoodsKnown(o)'
<1>1. /\ Typed /\ GoodsKnown(o) /\ Asked(o, s) /\ SetStatus(o, s)
      /\ s \in RELEASE_ON_CANCEL /\ UNCHANGED reserved /\ completed[o] /\ ~StockIsOut(o)
  BY DEF CloseReturned, Closing, StockInv, Known, IInv
<1>2. Counted(o) \/ Rows(o) = {}
  BY <1>1 DEF GoodsKnown
<1>3. \A l \in Lines : /\ OffShelf(o)[l] = line[o][l].qty - line[o][l].back
                       /\ line[o][l].qty \in Int /\ line[o][l].back \in Int
  BY <1>1, OffShelfIs, RowTyped DEF Typed
<1>4. CASE writeOffFromShelf(o, ret)
  <2>1. /\ \E e \in [Lines -> Int] :
             /\ stock' = Shift(stock, Physical, e)
             /\ \A l \in Lines : /\ line'[o][l].qty = line[o][l].qty
                                 /\ line'[o][l].back = line[o][l].back + e[l]
        /\ Counted(o)' \/ Rows(o)' = {}
    BY <1>1, <1>2, <1>4, WriteOffMoves
  <2>2. PICK e \in [Lines -> Int] :
           /\ stock' = Shift(stock, Physical, e)
           /\ \A l \in Lines : /\ line'[o][l].qty = line[o][l].qty
                               /\ line'[o][l].back = line[o][l].back + e[l]
    BY <2>1
  <2>3. \A l \in Lines : /\ line'[o][l].qty = line[o][l].qty
                         /\ line'[o][l].back = line[o][l].qty - OffShelf(o)[l] + e[l]
    BY <1>3, <2>2
  <2> QED
    BY <1>1, <2>1, <2>2, <2>3, ReturnFollows
<1>5. CASE UNCHANGED <<stock, line>>
  <2>1. /\ ~StockIsOut(o)' /\ completed'[o] /\ status'[o] = s
        /\ \A l \in Lines : Held(o)'[l] = 0
    BY <1>1, ClosedNow, StatusWritten
  <2>2. Counted(o)' \/ Rows(o)' = {}
    BY <1>2, <1>5 DEF Counted, Rows
  <2>3. GoodsKnown(o)'
    BY <1>1, <2>1, <2>2 DEF GoodsKnown, RELEASE_ON_CANCEL
  <2>4. \A l \in Lines : OffShelf(o)'[l] = OffShelf(o)[l]
    BY <1>3, <1>5, <2>1, <2>3, CameBackNow
  <2>5. \A l \in Lines : Held(o)[l] = 0
    BY <1>1, HeldIs
  <2> QED
    BY <1>1, <1>5, <2>1, <2>3, <2>4, <2>5 DEF HoldsFollow, ShelfFollows
<1> QED
  BY <1>4, <1>5 DEF CloseReturned

\* The first completion takes what the order held.
LEMMA CompleteFirstFollows ==
    ASSUME StockInv, Practices = {}, Typed', NEW o \in Orders, NEW s \in Requested,
           CompleteFirst(o, s)
    PROVE  HoldsFollow(o) /\ ShelfFollows(o) /\ GoodsKnown(o)'
<1>1. /\ Typed /\ OrderConsistent(o) /\ Asked(o, s) /\ SetStatus(o, s)
      /\ s = "COMPLETED" /\ ~completed[o] /\ UNCHANGED line
  BY DEF CompleteFirst, StockInv, Known, IInv
<1>2. status[o] \in ITEM_EDITABLE_STATUSES
  <2>1. status[o] \notin RELEASE_ON_CANCEL
    BY <1>1 DEF Asked, RELEASE_ON_CANCEL
  <2> QED
    BY <1>1, <2>1, StatusWritten DEF OrderStatus, OrderConsistent
<1>3. \A l \in Lines : Held(o)[l] = line[o][l].qty /\ OffShelf(o)[l] = 0
  BY <1>1, <1>2, OpenOrder DEF StockInv, Known
<1>4. completed'[o] /\ lastStock'[o] = "COMPLETED" /\ status'[o] = "COMPLETED"
  BY <1>1, StatusWritten
<1>5. StockIsOut(o)'
  BY <1>4 DEF StockIsOut
<1>6. GoodsKnown(o)'
  BY <1>4, <1>5 DEF GoodsKnown, RELEASE_ON_CANCEL
<1>7. \A l \in Lines : Held(o)'[l] = 0 /\ OffShelf(o)'[l] = line[o][l].qty
  BY <1>1, <1>4, <1>5 DEF Held, OffShelf
<1> DEFINE d == Negated(Quantity(o))
<1>8. \A l \in Lines : line[o][l].qty \in Nat
  BY <1>1, RowTyped DEF Typed
<1>9. d \in [Lines -> Int] /\ \A l \in Lines : d[l] = -line[o][l].qty
  BY <1>8 DEF Negated, Quantity
<1>10. reserved' = Shift(reserved, Physical, d) /\ stock' = Shift(stock, Physical, d)
  BY DEF CompleteFirst, commitReservations
<1> HIDE DEF d
<1>11. \A l \in Lines : /\ Held(o)'[l] = Held(o)[l] + d[l]
                        /\ OffShelf(o)'[l] = OffShelf(o)[l] - d[l]
  BY <1>3, <1>7, <1>8, <1>9
<1> QED
  BY <1>6, <1>9, <1>10, <1>11 DEF HoldsFollow, ShelfFollows

LEMMA CompleteAgainFollows ==
    ASSUME StockInv, Typed', NEW o \in Orders, NEW s \in Requested, CompleteAgain(o, s)
    PROVE  HoldsFollow(o) /\ ShelfFollows(o) /\ GoodsKnown(o)'
<1>1. /\ Typed /\ GoodsKnown(o) /\ Asked(o, s) /\ SetStatus(o, s)
      /\ s = "COMPLETED" /\ completed[o] /\ ~StockIsOut(o) /\ UNCHANGED reserved
  BY DEF CompleteAgain, StockInv, Known, IInv
<1>2. Counted(o) \/ Rows(o) = {}
  BY <1>1 DEF GoodsKnown
<1>3. \A l \in Lines : /\ OffShelf(o)[l] = line[o][l].qty - line[o][l].back
                       /\ line[o][l].qty \in Nat /\ line[o][l].back \in Nat
                       /\ Held(o)[l] = 0
  BY <1>1, OffShelfIs, HeldIs, RowTyped DEF Typed
<1>4. completed'[o] /\ lastStock'[o] = "COMPLETED" /\ status'[o] = "COMPLETED"
  BY <1>1, StatusWritten
<1>5. StockIsOut(o)'
  BY <1>4 DEF StockIsOut
<1>6. GoodsKnown(o)'
  BY <1>4, <1>5 DEF GoodsKnown, RELEASE_ON_CANCEL
<1>7. \A l \in Lines : line'[o][l].qty = line[o][l].qty
  BY <1>1, CountsWritten DEF CompleteAgain, Typed
<1>8. \A l \in Lines : Held(o)'[l] = 0 /\ OffShelf(o)'[l] = line[o][l].qty
  BY <1>4, <1>5, <1>7 DEF Held, OffShelf
<1> DEFINE onShelf(l) == IF Counted(o) THEN line[o][l].back ELSE line[o][l].qty
           e == Negated([l \in Lines |-> onShelf(l)])
<1>9. stock' = Shift(stock, Physical, e)
  BY DEF CompleteAgain, decrementStockOnly
<1>10. \A l \in Lines : onShelf(l) = line[o][l].back
  <2>1. ASSUME NEW l \in Lines, ~Counted(o) PROVE line[o][l].qty = line[o][l].back
    BY <1>1, <1>2, <1>3, <2>1 DEF Rows, Typed, EmptySlots
  <2> QED
    BY <2>1
<1> HIDE DEF onShelf
<1>11. e \in [Lines -> Int] /\ \A l \in Lines : e[l] = -line[o][l].back
  BY <1>3, <1>10 DEF Negated
<1> HIDE DEF e
<1>12. \A l \in Lines : OffShelf(o)'[l] = OffShelf(o)[l] - e[l]
  BY <1>3, <1>8, <1>11
<1>13. HoldsFollow(o)
  BY <1>1, <1>3, <1>8 DEF HoldsFollow
<1>14. ShelfFollows(o)
  BY <1>9, <1>11, <1>12 DEF ShelfFollows
<1> QED
  BY <1>6, <1>13, <1>14

\* Every other change of status leaves the goods where they were.
LEMMA RelabelFollows ==
    ASSUME StockInv, Practices = {}, Typed', NEW o \in Orders, NEW s \in Requested,
           Relabel(o, s)
    PROVE  HoldsFollow(o) /\ ShelfFollows(o) /\ GoodsKnown(o)'
<1>1. /\ Typed /\ GoodsKnown(o) /\ OrderConsistent(o) /\ Asked(o, s) /\ SetStatus(o, s)
      /\ ~Closing(o, s) /\ (s = "COMPLETED" => StockIsOut(o))
      /\ UNCHANGED <<stock, reserved, line>>
  BY DEF Relabel, StockInv, Known, IInv
<1>2. /\ s \in OrderStatus /\ status[o] \in OrderStatus /\ status'[o] = s
      /\ completed'[o] <=> (completed[o] \/ s = "COMPLETED")
      /\ s \in RELEASE_ON_CANCEL \cup {"COMPLETED"} => lastStock'[o] = s
      /\ s \notin RELEASE_ON_CANCEL \cup {"COMPLETED"} => lastStock'[o] = lastStock[o]
  BY <1>1, StatusWritten
<1>3. completed'[o] <=> completed[o]
  BY <1>1, <1>2 DEF StockIsOut
<1>4. s \in RELEASE_ON_CANCEL => status[o] \in RELEASE_ON_CANCEL
  BY <1>1 DEF Closing
<1>5. StockIsOut(o)' <=> StockIsOut(o)
  <2>1. CASE s = "COMPLETED"
    BY <1>1, <1>2, <1>3, <2>1 DEF StockIsOut
  <2>2. CASE s \in RELEASE_ON_CANCEL
    <3>1. ~StockIsOut(o)
      BY <1>1, <1>4, <2>2 DEF GoodsKnown
    <3>2. ~StockIsOut(o)'
      BY <1>1, <2>2, ClosedNow
    <3> QED
      BY <3>1, <3>2
  <2>3. CASE s \notin RELEASE_ON_CANCEL \cup {"COMPLETED"}
    BY <1>2, <1>3, <2>3 DEF StockIsOut
  <2> QED
    BY <2>1, <2>2, <2>3
<1>6. Counted(o)' = Counted(o) /\ Rows(o)' = Rows(o)
  BY <1>1 DEF Counted, Rows
<1>7. \A l \in Lines : OffShelf(o)'[l] = OffShelf(o)[l]
  BY <1>1, <1>3, <1>5, <1>6 DEF OffShelf
<1>8. \A l \in Lines : Held(o)'[l] = Held(o)[l]
  <2>1. CASE completed[o]
    BY <1>3, <2>1 DEF Held
  <2>2. CASE ~completed[o]
    <3>1. s # "COMPLETED" /\ status[o] # "COMPLETED"
      BY <1>1, <2>2 DEF StockIsOut, OrderConsistent
    <3>2. status[o] \in RELEASE_ON_CANCEL <=> s \in RELEASE_ON_CANCEL
      BY <1>1, <1>4, <2>2 DEF Asked
    <3>3. status[o] \in ITEM_EDITABLE_STATUSES <=> s \in ITEM_EDITABLE_STATUSES
      BY <1>2, <3>1, <3>2 DEF OrderStatus, RELEASE_ON_CANCEL, ITEM_EDITABLE_STATUSES
    <3> QED
      BY <1>1, <1>2, <1>3, <3>3 DEF Held
  <2> QED
    BY <2>1, <2>2
<1>9. GoodsKnown(o)'
  <2>1. status'[o] # "none"
    BY <1>2 DEF OrderStatus, RELEASE_ON_CANCEL, ITEM_EDITABLE_STATUSES
  <2>2. s \in RELEASE_ON_CANCEL => ~StockIsOut(o)'
    BY <1>1, ClosedNow
  <2> QED
    BY <1>1, <1>2, <1>3, <1>5, <1>6, <2>1, <2>2 DEF GoodsKnown
<1> QED
  BY <1>1, <1>7, <1>8, <1>9 DEF HoldsFollow, ShelfFollows

\* The returned units of a closed order are put on the shelf or written off.
LEMMA ReturnedStockFollows ==
    ASSUME StockInv, Typed', NEW o \in Orders, NEW ret \in ReturnLines,
           setReturnedStock(o, ret)
    PROVE  OnlyOrder(o) /\ HoldsFollow(o) /\ ShelfFollows(o) /\ GoodsKnown(o)'
<1>1. /\ Typed /\ GoodsKnown(o) /\ setReturnStock(o, ret)
      /\ status[o] \in {"RETURNED", "PARTIALLY_RETURNED"}
      /\ UNCHANGED <<reserved, moved, status, completed>>
      /\ lastStock' = [lastStock EXCEPT ![o] = status[o]]
  BY DEF setReturnedStock, StockInv, Known, IInv
<1>2. OnlyOrder(o)
  <2>1. \A x \in Orders \ {o} : line'[x] = line[x]
    BY <1>1, SetReturnStockRecounts, RecountTyped
  <2>2. \A x \in Orders \ {o} : lastStock'[x] = lastStock[x]
    BY <1>1 DEF Typed, OrdersOK
  <2> QED
    BY <1>1, <2>1, <2>2 DEF OnlyOrder
<1>3. ~StockIsOut(o)' /\ ~StockIsOut(o)
  BY <1>1 DEF StockIsOut, GoodsKnown, RELEASE_ON_CANCEL, Typed, OrdersOK
<1>4. \A l \in Lines : Held(o)'[l] = 0 /\ Held(o)[l] = 0
  BY <1>1 DEF Held, ITEM_EDITABLE_STATUSES
<1>5. PICK e \in [Lines -> Int] :
         /\ stock' = Shift(stock, Physical, e)
         /\ \A l \in Lines :
              /\ line'[o][l].qty = line[o][l].qty
              /\ Counted(o) => /\ line'[o][l].back = line[o][l].back + e[l]
                               /\ line'[o][l].off = line[o][l].off - e[l]
              /\ ~Counted(o) => /\ line'[o][l].back = line[o][l].qty + e[l]
                                /\ line'[o][l].off = -e[l]
  BY <1>1, SetReturnStockMoves
<1>6. \A l \in Lines : /\ line[o][l].qty \in Nat /\ line[o][l].back \in Nat
                       /\ line[o][l].off \in Nat /\ line'[o][l].back \in Nat
                       /\ line'[o][l].off \in Nat
  <2>1. line' \in [Orders -> [Lines -> LineRow]]
    BY DEF Typed, OrdersOK
  <2> QED
    BY <1>1, <2>1, RowTyped DEF Typed, LineRow
<1>7. ASSUME completed[o] PROVE Counted(o)' \/ Rows(o)' = {}
  <2>1. Counted(o) \/ Rows(o) = {}
    BY <1>1, <1>3, <1>7 DEF GoodsKnown
  <2>2. Rows(o)' = Rows(o)
    BY <1>5, RowsKept
  <2>3. CASE Counted(o)
    <3>1. PICK l \in Lines : line[o][l].back > 0 \/ line[o][l].off > 0
      BY <2>3 DEF Counted
    <3>2. line'[o][l].back + line'[o][l].off = line[o][l].back + line[o][l].off
      BY <1>5, <1>6, <2>3
    <3>3. /\ line[o][l].back \in Nat /\ line[o][l].off \in Nat
          /\ line'[o][l].back \in Nat /\ line'[o][l].off \in Nat
      BY <1>6
    <3>4. line[o][l].back + line[o][l].off > 0
      BY <3>1, <3>3
    <3>5. line'[o][l].back > 0 \/ line'[o][l].off > 0
      BY <3>2, <3>3, <3>4
    <3> QED
      BY <3>5 DEF Counted
  <2> QED
    BY <2>1, <2>2, <2>3
<1>8. GoodsKnown(o)'
  BY <1>1, <1>3, <1>7 DEF GoodsKnown
<1>9. \A l \in Lines : OffShelf(o)'[l] = OffShelf(o)[l] - e[l]
  <2> SUFFICES ASSUME NEW l \in Lines PROVE OffShelf(o)'[l] = OffShelf(o)[l] - e[l]
    OBVIOUS
  <2>0. ~Counted(o) => line[o][l].back = 0 /\ line[o][l].off = 0
    BY <1>6 DEF Counted
  <2>1. CASE completed[o]
    <3>1. OffShelf(o)[l] = line[o][l].qty - line[o][l].back
      BY <1>1, <1>3, <2>1, OffShelfIs
    <3>2. OffShelf(o)'[l] = line'[o][l].qty - line'[o][l].back
      BY <1>1, <1>3, <1>8, <2>1, CameBackNow
    <3>3. ~Counted(o) => line[o][l].qty = 0
      BY <1>1, <1>3, <1>6, <2>1 DEF GoodsKnown, Rows
    <3> QED
      BY <1>5, <1>6, <2>0, <3>1, <3>2, <3>3
  <2>2. CASE ~completed[o]
    <3>1. OffShelf(o)[l] = line[o][l].off
      BY <1>1, <2>2, OffShelfIs
    <3>2. OffShelf(o)'[l] = line'[o][l].off
      BY <1>1, <2>2 DEF OffShelf, StockIsOut
    <3> QED
      BY <1>5, <1>6, <2>0, <3>1, <3>2
  <2> QED
    BY <2>1, <2>2
<1>10. HoldsFollow(o)
  BY <1>1, <1>4 DEF HoldsFollow
<1>11. ShelfFollows(o)
  BY <1>5, <1>9 DEF ShelfFollows
<1> QED
  BY <1>2, <1>8, <1>10, <1>11

-----------------------------------------------------------------------------
(***************************************************************************)
(* The counters are integers whatever the staff do.                        *)
(***************************************************************************)
LEMMA ShiftTyped ==
    ASSUME NEW f \in [SKUs -> Int], NEW S, NEW d \in [Lines -> Int]
    PROVE  Shift(f, S, d) \in [SKUs -> Int]
<1>1. \A p \in SKUs : f[p] \in Int /\ f[p] + PerSku(d, p) \in Int
  BY PerSkuInt
<1> QED
  BY <1>1 DEF Shift

LEMMA NegatedTyped ==
    ASSUME NEW d \in [Lines -> Int] PROVE Negated(d) \in [Lines -> Int]
BY DEF Negated

LEMMA QuantityTyped ==
    ASSUME Typed, NEW o \in Orders PROVE Quantity(o) \in [Lines -> Int]
BY RowTyped DEF Quantity, Typed

\* A return shifts the shelf by whole units.
LEMMA ReturnsTyped ==
    ASSUME Typed, CountersOK, NEW o \in Orders, NEW s, NEW ret \in ReturnLines,
           NEW fromPartial \in BOOLEAN,
           \/ setReturnStock(o, ret) \/ writeOffFromShelf(o, ret)
           \/ applyReturnLines(o, s, ret, fromPartial)
    PROVE  stock' \in [SKUs -> Int]
<1>0. \A l \in Lines : /\ line[o][l].qty \in Int /\ line[o][l].back \in Int
                       /\ line[o][l].off \in Int
  BY RowTyped DEF Typed
<1>1. \A l \in DOMAIN ret : ret[l].restock \in Int /\ ret[l].writeOff \in Int
  BY RetCounts
<1>2. CASE setReturnStock(o, ret)
  <2> DEFINE onShelf(l) == IF Counted(o) THEN line[o][l].back ELSE line[o][l].qty
             back(l) == IF l \in DOMAIN ret THEN ret[l].restock ELSE onShelf(l)
             e == [l \in Lines |-> back(l) - onShelf(l)]
  <2>1. stock' = Shift(stock, Physical, e)
    BY <1>2 DEF setReturnStock, restockReturnedItems
  <2>2. \A l \in Lines : onShelf(l) \in Int /\ back(l) \in Int
    BY <1>0, <1>1
  <2> HIDE DEF onShelf, back
  <2>3. e \in [Lines -> Int]
    BY <2>2
  <2> HIDE DEF e
  <2> QED
    BY <2>1, <2>3, ShiftTyped DEF CountersOK
<1>3. CASE writeOffFromShelf(o, ret)
  <2> DEFINE prevOff(l) == IF Counted(o) THEN line[o][l].off ELSE 0
             more(l) == IF l \in DOMAIN ret /\ ret[l].writeOff > prevOff(l)
                        THEN ret[l].writeOff - prevOff(l) ELSE 0
             d == [l \in Lines |-> more(l)]
  <2>1. stock' = Shift(stock, Physical, Negated(d))
    BY <1>3 DEF writeOffFromShelf, decrementStockOnly
  <2>2. \A l \in Lines : prevOff(l) \in Int
    BY <1>0
  <2>3. \A l \in Lines : more(l) \in Int
    <3> HIDE DEF prevOff
    <3> QED
      BY <1>1, <2>2
  <2> HIDE DEF more
  <2>4. d \in [Lines -> Int]
    BY <2>3
  <2> HIDE DEF d
  <2> QED
    BY <2>1, <2>4, NegatedTyped, ShiftTyped DEF CountersOK
<1>4. CASE applyReturnLines(o, s, ret, fromPartial)
  <2> DEFINE prevBack(l) == IF fromPartial THEN line[o][l].back ELSE 0
             prevOff(l) == IF fromPartial THEN line[o][l].off ELSE 0
             back(l) == IF l \in DOMAIN ret THEN ret[l].restock
                        ELSE line[o][l].qty - prevOff(l)
             e == [l \in Lines |-> back(l) - prevBack(l)]
  <2>1. stock' = Shift(stock, Physical, e)
    BY <1>4 DEF applyReturnLines, restockReturnedItems
  <2>2. \A l \in Lines : prevBack(l) \in Int /\ prevOff(l) \in Int
    BY <1>0
  <2> HIDE DEF prevBack, prevOff
  <2>3. \A l \in Lines : back(l) \in Int
    BY <1>0, <1>1, <2>2
  <2> HIDE DEF back
  <2>4. e \in [Lines -> Int]
    BY <2>2, <2>3
  <2> HIDE DEF e
  <2> QED
    BY <2>1, <2>4, ShiftTyped DEF CountersOK
<1> QED
  BY <1>2, <1>3, <1>4

LEMMA EditCounters ==
    ASSUME Typed, CountersOK, NEW h \in Requests,
           addItem(h) \/ updateItemQuantity(h) \/ removeItem(h)
    PROVE  CountersOK'
<1>1. edit[h] \in EditRequest
  BY EditLines DEF Typed
<1>2. PICK l \in Lines, q \in Nat, n \in Nat : l = edit[h].l /\ q = edit[h].qty /\ n = edit[h].seen
  BY <1>1 DEF EditRequest
<1>3. UNCHANGED <<stock, moved>>
  BY DEF addItem, updateItemQuantity, removeItem, EndEdit
<1>4. \/ \E d \in [Lines -> Int] : reserved' = Shift(reserved, Tracked, d)
      \/ UNCHANGED reserved
  <2>1. CASE addItem(h)
    <3>1. reserved' = Shift(reserved, Tracked, OneLine(l, q))
      BY <1>2, <2>1 DEF addItem, reserveStock
    <3> QED
      BY <3>1, OneLineTyped
  <2>2. CASE updateItemQuantity(h)
    <3>1. \/ reserved' = Shift(reserved, Tracked, OneLine(l, q - n))
          \/ reserved' = Shift(reserved, Tracked, Negated(OneLine(l, n - q)))
          \/ UNCHANGED reserved
      BY <1>2, <2>2 DEF updateItemQuantity, reserveStock, releaseStock
    <3>2. OneLine(l, q - n) \in [Lines -> Int] /\ Negated(OneLine(l, n - q)) \in [Lines -> Int]
      BY OneLineTyped
    <3> QED
      BY <3>1, <3>2
  <2>3. CASE removeItem(h)
    <3>1. reserved' = Shift(reserved, Tracked, Negated(OneLine(l, n)))
      BY <1>2, <2>3 DEF removeItem, releaseStock
    <3> QED
      BY <3>1, OneLineTyped
  <2> QED
    BY <2>1, <2>2, <2>3
<1>5. reserved' \in [SKUs -> Int]
  BY <1>4, ShiftTyped DEF CountersOK
<1> QED
  BY <1>3, <1>5 DEF CountersOK

LEMMA CountersStep == Typed /\ CountersOK /\ [Next]_vars => CountersOK'
<1> SUFFICES ASSUME Typed, CountersOK, [Next]_vars PROVE CountersOK'
  OBVIOUS
<1>1. ASSUME NEW o \in Orders, NEW q \in [Lines -> Counts],
             Checkout(o, q) \/ CreateByStaff(o, q)
      PROVE  CountersOK'
  <2>1. reserved' = Shift(reserved, Tracked, q) /\ UNCHANGED <<stock, moved>>
    BY <1>1 DEF Checkout, CreateByStaff, PlaceOrder, reserveStock
  <2>2. Counts \subseteq Int
    BY ConstantsAssumption DEF Counts
  <2>3. q \in [Lines -> Int]
    BY <2>2
  <2> QED
    BY <2>1, <2>3, ShiftTyped DEF CountersOK
<1>2. ASSUME NEW p \in SKUs, NEW n \in {1, -1}, OnlineMove(p, n)
      PROVE  CountersOK'
  <2>1. n \in Int
    OBVIOUS
  <2> QED
    BY <1>2, <2>1 DEF OnlineMove, CountersOK
<1>3. ASSUME NEW h \in Requests, NEW o \in Orders, NEW l \in Lines,
             \/ \E q \in Quantities : ReadForAdd(h, o, l, q) \/ ReadForUpdate(h, o, l, q)
             \/ ReadForRemove(h, o, l)
      PROVE  CountersOK'
  BY <1>3, ReadsLeave DEF BeginEdit, stockVars, CountersOK
<1>4. ASSUME NEW h \in Requests, addItem(h) \/ updateItemQuantity(h) \/ removeItem(h)
      PROVE  CountersOK'
  BY <1>4, EditCounters
<1>5. ASSUME NEW h \in Requests, editFails(h)
      PROVE  CountersOK'
  BY <1>5 DEF editFails, EndEdit, CountersOK
<1>6. ASSUME NEW o \in Orders, NEW s \in Requested,
             CompleteFirst(o, s) \/ CompleteAgain(o, s) \/ Relabel(o, s)
      PROVE  CountersOK'
  <2>0. moved' = moved
    BY <1>6 DEF CompleteFirst, CompleteAgain, Relabel, SetStatus
  <2>1. CASE CompleteFirst(o, s)
    <3>1. Negated(Quantity(o)) \in [Lines -> Int]
      BY QuantityTyped, NegatedTyped
    <3> QED
      BY <2>0, <2>1, <3>1, ShiftTyped DEF CompleteFirst, commitReservations, CountersOK
  <2>2. CASE CompleteAgain(o, s)
    <3> DEFINE d == [l \in Lines |-> IF Counted(o) THEN line[o][l].back ELSE line[o][l].qty]
    <3>1. d \in [Lines -> Int]
      BY RowTyped DEF Typed
    <3>2. stock' = Shift(stock, Physical, Negated(d)) /\ UNCHANGED reserved
      BY <2>2 DEF CompleteAgain, decrementStockOnly
    <3> HIDE DEF d
    <3> QED
      BY <2>0, <3>1, <3>2, NegatedTyped, ShiftTyped DEF CountersOK
  <2>3. CASE Relabel(o, s)
    BY <2>0, <2>3 DEF Relabel, CountersOK
  <2> QED
    BY <1>6, <2>1, <2>2, <2>3
<1>7. ASSUME NEW o \in Orders, NEW s \in Requested, NEW ret \in ReturnLines,
             \/ CloseUnsold(o, s, ret) \/ CloseSold(o, s, ret)
             \/ CloseReturned(o, s, ret) \/ FinishReturn(o, s, ret)
      PROVE  CountersOK'
  <2>1. moved' = moved
    BY <1>7 DEF CloseUnsold, CloseSold, CloseReturned, FinishReturn, SetStatus
  <2>2. stock' \in [SKUs -> Int]
    <3>1. CASE UNCHANGED stock
      BY <3>1 DEF CountersOK
    <3> QED
      BY <1>7, <3>1, ReturnsTyped
         DEF CloseUnsold, CloseSold, CloseReturned, FinishReturn
  <2>3. reserved' \in [SKUs -> Int]
    <3>1. CASE UNCHANGED reserved
      BY <3>1 DEF CountersOK
    <3>2. CASE CloseUnsold(o, s, ret)
      <4>1. Negated(Quantity(o)) \in [Lines -> Int]
        BY QuantityTyped, NegatedTyped
      <4> QED
        BY <3>2, <4>1, ShiftTyped DEF CloseUnsold, releaseReservations, CountersOK
    <3> QED
      BY <1>7, <3>1, <3>2 DEF CloseSold, CloseReturned, FinishReturn
  <2> QED
    BY <2>1, <2>2, <2>3 DEF CountersOK
<1>8. ASSUME NEW o \in Orders, NEW ret \in ReturnLines, setReturnedStock(o, ret)
      PROVE  CountersOK'
  BY <1>8, ReturnsTyped DEF setReturnedStock, CountersOK
<1>9. CASE UNCHANGED vars
  BY <1>9 DEF vars, CountersOK
<1> QED
  BY <1>1, <1>2, <1>3, <1>4, <1>5, <1>6, <1>7, <1>8, <1>9 DEF Next

LEMMA CountersInit == Init => CountersOK
BY ConstantsAssumption DEF Init, CountersOK

\* Every column keeps its type whatever the staff do: counters are integers,
\* line counts never go below zero.
THEOREM StockTyped == Spec => []TypeOK
<1>1. Init => Typed /\ CountersOK
  BY TypedInit, CountersInit
<1>2. (Typed /\ CountersOK) /\ [Next]_vars => (Typed /\ CountersOK)'
  BY TypedStep, CountersStep
<1>3. Typed /\ CountersOK => TypeOK
  BY DEF Typed, TypeOK
<1> QED
  BY <1>1, <1>2, <1>3, PTL DEF Spec

-----------------------------------------------------------------------------
(***************************************************************************)
(* The conservation laws.                                                  *)
(***************************************************************************)

\* With nobody waiting there is no line read.
LEMMA QuietSees ==
    ASSUME Practices = {}, Quiet, UNCHANGED edit
    PROVE  (\A h \in Requests : SeesLine(h)') /\ EditsAlone'
BY DEF Quiet, SeesLine, EditsAlone

LEMMA ReadSees ==
    ASSUME Practices = {}, StockInv, NEW h \in Requests, NEW o \in Orders, NEW l \in Lines,
           \/ \E q \in Quantities : ReadForAdd(h, o, l, q) \/ ReadForUpdate(h, o, l, q)
           \/ ReadForRemove(h, o, l)
    PROVE  (\A g \in Requests : SeesLine(g)') /\ EditsAlone'
<1>1. BeginEdit(h, o) /\ UNCHANGED orderVars
  BY ReadsLeave
<1>2. \A g \in Requests : edit[g] = Idle
  BY <1>1 DEF BeginEdit, Quiet
<1>3. edit \in [Requests -> EditRequest \cup {Idle}]
  BY DEF StockInv, Known, IInv, Typed, OrdersOK
<1>4. \E e : /\ edit' = [edit EXCEPT ![h] = e]
             /\ line[e.o][e.l].qty = e.seen /\ (e.kind = "add" => e.seen = 0)
  <2>1. CASE \E q \in Quantities : ReadForAdd(h, o, l, q)
    <3>1. PICK q \in Quantities : ReadForAdd(h, o, l, q)
      BY <2>1
    <3> DEFINE e == [kind |-> "add", o |-> o, l |-> l, qty |-> q, seen |-> 0]
    <3>2. edit' = [edit EXCEPT ![h] = e] /\ line[o][l].qty = 0
      BY <3>1 DEF ReadForAdd
    <3>3. e.o = o /\ e.l = l /\ e.seen = 0
      OBVIOUS
    <3> HIDE DEF e
    <3> QED
      BY <3>2, <3>3
  <2>2. CASE \E q \in Quantities : ReadForUpdate(h, o, l, q)
    <3>1. PICK q \in Quantities : ReadForUpdate(h, o, l, q)
      BY <2>2
    <3> DEFINE e == [kind |-> "set", o |-> o, l |-> l, qty |-> q, seen |-> line[o][l].qty]
    <3>2. edit' = [edit EXCEPT ![h] = e]
      BY <3>1 DEF ReadForUpdate
    <3>3. e.o = o /\ e.l = l /\ e.seen = line[o][l].qty /\ e.kind # "add"
      OBVIOUS
    <3> HIDE DEF e
    <3> QED
      BY <3>2, <3>3
  <2>3. CASE ReadForRemove(h, o, l)
    <3> DEFINE e == [kind |-> "remove", o |-> o, l |-> l, qty |-> 0, seen |-> line[o][l].qty]
    <3>1. edit' = [edit EXCEPT ![h] = e]
      BY <2>3 DEF ReadForRemove
    <3>2. e.o = o /\ e.l = l /\ e.seen = line[o][l].qty /\ e.kind # "add"
      OBVIOUS
    <3> HIDE DEF e
    <3> QED
      BY <3>1, <3>2
  <2> QED
    BY <2>1, <2>2, <2>3
<1>5. PICK e : /\ edit' = [edit EXCEPT ![h] = e]
               /\ line[e.o][e.l].qty = e.seen /\ (e.kind = "add" => e.seen = 0)
  BY <1>4
<1>6. edit'[h] = e /\ \A g \in Requests : g # h => edit'[g] = Idle
  BY <1>2, <1>3, <1>5
<1>7. line' = line
  BY <1>1 DEF orderVars
<1>8. EditsAlone'
  BY <1>6 DEF EditsAlone
<1>9. \A g \in Requests : SeesLine(g)'
  BY <1>5, <1>6, <1>7 DEF SeesLine
<1> QED
  BY <1>8, <1>9

\* The one edit in flight ends.
LEMMA EndSees ==
    ASSUME StockInv, NEW h \in Requests, EndEdit(h)
    PROVE  (\A g \in Requests : SeesLine(g)') /\ EditsAlone'
<1>1. \A g \in Requests : edit'[g] = Idle
  BY DEF EndEdit, StockInv, Known, EditsAlone, IInv, Typed, OrdersOK
<1> QED
  BY <1>1 DEF SeesLine, EditsAlone

\* A step that leaves orders and counters alone.
LEMMA NothingMoves ==
    ASSUME StockInv, UNCHANGED <<stockVars, orderVars>>
    PROVE  /\ ReservationsAccounted' /\ StockAccounted'
           /\ \A x \in Orders : GoodsKnown(x)'
<1>1. \A x \in Orders : UNCHANGED <<status[x], completed[x], lastStock[x], line[x]>>
  BY DEF orderVars
<1>2. \A x \in Orders : Held(x)' = Held(x) /\ OffShelf(x)' = OffShelf(x) /\ GoodsKnown(x)'
  BY <1>1, OthersKeep DEF StockInv, Known
<1> QED
  BY <1>2, HoldsStay, ShelfStays DEF StockInv, stockVars

LEMMA OnlineMoveKeeps ==
    ASSUME StockInv, NEW p \in SKUs, NEW n \in {1, -1}, OnlineMove(p, n)
    PROVE  /\ ReservationsAccounted' /\ StockAccounted'
           /\ \A x \in Orders : GoodsKnown(x)'
<1>1. \A x \in Orders : UNCHANGED <<status[x], completed[x], lastStock[x], line[x]>>
  BY DEF OnlineMove, orderVars
<1>2. \A x \in Orders : Held(x)' = Held(x) /\ OffShelf(x)' = OffShelf(x) /\ GoodsKnown(x)'
  BY <1>1, OthersKeep DEF StockInv, Known
<1>3. ReservationsAccounted'
  BY <1>2, HoldsStay DEF StockInv, OnlineMove
<1>4. StockAccounted'
  <2> SUFFICES ASSUME NEW r \in Tracked
               PROVE  stock'[r] + OverOrders(OffShelf, r)' = InitStock[r] + moved'[r]
    BY DEF StockAccounted
  <2>1. OffBy' = OffBy
    BY <1>2 DEF OffBy
  <2>2. PICK m : m = OrderSum(OffBy, r)
    OBVIOUS
  <2>3. OverOrders(OffShelf, r)' = m /\ OverOrders(OffShelf, r) = m
    BY <2>1, <2>2, OverOrdersIsSum, OverOrdersIsSumNext
  <2>4. OffBy \in [Orders -> [Lines -> Int]]
    BY OffShelfTyped DEF StockInv, Known, IInv, Typed
  <2>5. m \in Int
    BY <2>2, <2>4, OrderSumInt
  <2>6. r \in SKUs /\ stock[r] \in Int /\ moved[r] \in Int /\ InitStock[r] \in Int /\ n \in Int
    BY ConstantsAssumption DEF StockInv, Known, CountersOK
  <2>7. \/ r = p /\ stock'[r] = stock[r] + n /\ moved'[r] = moved[r] + n
        \/ r # p /\ stock'[r] = stock[r] /\ moved'[r] = moved[r]
    BY <2>6 DEF OnlineMove, StockInv, Known, CountersOK
  <2>8. stock[r] + m = InitStock[r] + moved[r]
    BY <2>3 DEF StockInv, StockAccounted
  <2>9. stock'[r] + m = InitStock[r] + moved'[r]
    BY <2>5, <2>6, <2>7, <2>8
  <2> QED
    BY <2>3, <2>9
<1> QED
  BY <1>2, <1>3, <1>4

\* One step of updateStatus.
LEMMA StatusStepKeeps ==
    ASSUME Practices = {}, StockInv, Typed', NEW o \in Orders, NEW s \in Requested,
           \/ CompleteFirst(o, s) \/ CompleteAgain(o, s) \/ Relabel(o, s)
           \/ \E ret \in ReturnLines :
                 \/ CloseUnsold(o, s, ret) \/ CloseSold(o, s, ret)
                 \/ CloseReturned(o, s, ret) \/ FinishReturn(o, s, ret)
    PROVE  /\ OnlyOrder(o) /\ HoldsFollow(o) /\ ShelfFollows(o) /\ GoodsKnown(o)'
<1>1. OnlyOrder(o)
  BY UpdateStatusLines, StatusOnlyOrder DEF StockInv, Known, IInv
<1>2. HoldsFollow(o) /\ ShelfFollows(o) /\ GoodsKnown(o)'
  BY CompleteFirstFollows, CompleteAgainFollows, RelabelFollows, CloseUnsoldFollows,
     CloseSoldFollows, CloseReturnedFollows, FinishReturnFollows
<1> QED
  BY <1>1, <1>2

LEMMA StockInvInit == Init => StockInv
<1> SUFFICES ASSUME Init PROVE StockInv
  OBVIOUS
<1>1. IInv /\ CountersOK
  BY IInvInit, CountersInit
<1>2. \A o \in Orders : status[o] = "none" /\ ~completed[o] /\ ~StockIsOut(o) /\ ~Counted(o)
  BY DEF Init, StockIsOut, Counted, NoLine, NewLine
<1>3. \A o \in Orders : GoodsKnown(o)
  BY <1>2 DEF GoodsKnown, RELEASE_ON_CANCEL
<1>4. (\A h \in Requests : SeesLine(h)) /\ EditsAlone
  BY DEF Init, SeesLine, EditsAlone
<1>5. \A o \in Orders, l \in Lines : Held(o)[l] = 0 /\ OffShelf(o)[l] = 0
  <2>1. \A o \in Orders, l \in Lines : line[o][l].off = 0
    BY DEF Init, NoLine, NewLine
  <2> QED
    BY <1>1, <1>2, <2>1, HeldIs, OffShelfIs DEF IInv, ITEM_EDITABLE_STATUSES
<1>6. ASSUME NEW p \in Tracked
      PROVE  OrderSum(HeldBy, p) = 0 /\ OrderSum(OffBy, p) = 0
  <2>1. ASSUME NEW d \in [Lines -> Int], \A l \in Lines : d[l] = 0
        PROVE  PerSku(d, p) = 0
    BY <2>1, ConstantsAssumption, FS_Subset, SumZero DEF PerSku
  <2>2. \A o \in Orders : /\ HeldBy[o] \in [Lines -> Int] /\ OffBy[o] \in [Lines -> Int]
                          /\ \A l \in Lines : HeldBy[o][l] = 0 /\ OffBy[o][l] = 0
    <3>1. HeldBy \in [Orders -> [Lines -> Int]] /\ OffBy \in [Orders -> [Lines -> Int]]
      BY <1>1, HeldTyped, OffShelfTyped DEF IInv, Typed
    <3>2. \A o \in Orders : HeldBy[o] = Held(o) /\ OffBy[o] = OffShelf(o)
      BY DEF HeldBy, OffBy
    <3> HIDE DEF HeldBy, OffBy
    <3> QED
      BY <1>5, <3>1, <3>2
  <2>3. \A o \in Orders : PerSku(HeldBy[o], p) = 0 /\ PerSku(OffBy[o], p) = 0
    BY <2>1, <2>2
  <2> QED
    BY <2>3, ConstantsAssumption, SumZero DEF OrderSum
<1>7. ReservationsAccounted
  BY <1>6, OverOrdersIsSum, ConstantsAssumption DEF ReservationsAccounted, Init
<1>8. StockAccounted
  <2> SUFFICES ASSUME NEW p \in Tracked
               PROVE  stock[p] + OverOrders(OffShelf, p) = InitStock[p] + moved[p]
    BY DEF StockAccounted
  <2>1. p \in SKUs
    BY ConstantsAssumption
  <2>2. OverOrders(OffShelf, p) = 0
    BY <1>6, OverOrdersIsSum
  <2>3. stock[p] = InitStock[p] /\ moved[p] = 0
    BY <2>1 DEF Init
  <2> QED
    BY <2>2, <2>3
<1> QED
  BY <1>1, <1>3, <1>4, <1>7, <1>8 DEF StockInv, Known

LEMMA StockInvStep == Practices = {} /\ StockInv /\ [Next]_vars => StockInv'
<1> SUFFICES ASSUME Practices = {}, StockInv, [Next]_vars PROVE StockInv'
  OBVIOUS
<1>1. IInv' /\ CountersOK'
  BY IInvStep, CountersStep DEF StockInv, Known, IInv
<1> DEFINE Kept == /\ ReservationsAccounted' /\ StockAccounted'
                   /\ \A x \in Orders : GoodsKnown(x)'
                   /\ \A g \in Requests : SeesLine(g)'
                   /\ EditsAlone'
<1>2. Kept
  <2>0. Typed' /\ OrdersOK'
    BY <1>1 DEF IInv, Typed
  <2>1. ASSUME NEW o \in Orders, NEW q \in [Lines -> Counts],
               Checkout(o, q) \/ CreateByStaff(o, q)
        PROVE  Kept
    <3>1. \E s \in {"PENDING", "CONFIRMED"} : PlaceOrder(o, s, q)
      BY <2>1 DEF Checkout, CreateByStaff
    <3>2. (\A g \in Requests : SeesLine(g)') /\ EditsAlone'
      BY <3>1, QuietSees DEF PlaceOrder
    <3> QED
      BY <2>0, <3>1, <3>2, PlaceOrderFollows, FollowingKeeps
  <2>2. ASSUME NEW p \in SKUs, NEW n \in {1, -1}, OnlineMove(p, n)
        PROVE  Kept
    <3>1. (\A g \in Requests : SeesLine(g)') /\ EditsAlone'
      BY <2>2, QuietSees DEF OnlineMove
    <3> QED
      BY <2>2, <3>1, OnlineMoveKeeps
  <2>3. ASSUME NEW h \in Requests, NEW o \in Orders, NEW l \in Lines,
               \/ \E q \in Quantities : ReadForAdd(h, o, l, q) \/ ReadForUpdate(h, o, l, q)
               \/ ReadForRemove(h, o, l)
        PROVE  Kept
    <3>1. UNCHANGED <<stockVars, orderVars>>
      BY <2>3, ReadsLeave DEF BeginEdit
    <3> QED
      BY <2>3, <3>1, NothingMoves, ReadSees
  <2>4. ASSUME NEW h \in Requests, addItem(h) \/ updateItemQuantity(h) \/ removeItem(h)
        PROVE  Kept
    <3>1. EndEdit(h)
      BY <2>4 DEF addItem, updateItemQuantity, removeItem
    <3> QED
      BY <2>0, <2>4, <3>1, EndSees, EditFollows, FollowingKeeps
  <2>5. ASSUME NEW h \in Requests, editFails(h)
        PROVE  Kept
    <3>1. EndEdit(h) /\ UNCHANGED <<stockVars, orderVars>>
      BY <2>5 DEF editFails, EndEdit, stockVars, orderVars
    <3> QED
      BY <3>1, EndSees, NothingMoves
  <2>6. ASSUME NEW o \in Orders, NEW s \in Requested,
               \/ CompleteFirst(o, s) \/ CompleteAgain(o, s) \/ Relabel(o, s)
               \/ \E ret \in ReturnLines :
                     \/ CloseUnsold(o, s, ret) \/ CloseSold(o, s, ret)
                     \/ CloseReturned(o, s, ret) \/ FinishReturn(o, s, ret)
        PROVE  Kept
    <3>1. Asked(o, s) /\ SetStatus(o, s)
      BY <2>6, UpdateStatusLines DEF StockInv, Known, IInv
    <3>2. (\A g \in Requests : SeesLine(g)') /\ EditsAlone'
      BY <3>1, QuietSees DEF Asked, SetStatus
    <3> QED
      BY <2>0, <2>6, <3>2, StatusStepKeeps, FollowingKeeps
  <2>7. ASSUME NEW o \in Orders, NEW ret \in ReturnLines, setReturnedStock(o, ret)
        PROVE  Kept
    <3>1. (\A g \in Requests : SeesLine(g)') /\ EditsAlone'
      BY <2>7, QuietSees DEF setReturnedStock
    <3> QED
      BY <2>0, <2>7, <3>1, ReturnedStockFollows, FollowingKeeps
  <2>8. CASE UNCHANGED vars
    <3>1. UNCHANGED <<stockVars, orderVars>> /\ UNCHANGED <<edit, line>>
      BY <2>8 DEF vars, stockVars, orderVars
    <3>2. (\A g \in Requests : SeesLine(g)') /\ EditsAlone'
      BY <3>1 DEF StockInv, Known, SeesLine, EditsAlone
    <3> QED
      BY <3>1, <3>2, NothingMoves
  <2> QED
    BY <2>1, <2>2, <2>3, <2>4, <2>5, <2>6, <2>7, <2>8 DEF Next
<1> QED
  BY <1>1, <1>2 DEF StockInv, Known

\* The reserved counter of every tracked SKU is what open, never completed orders
\* hold, over any number of orders and edits, if nobody follows a practice: no
\* path of updateStatus, the item edits or setReturnedStock releases a hold
\* twice or leaves one behind.
THEOREM ReservationsHold ==
    ASSUME Practices = {}
    PROVE  Spec => []ReservationsAccounted
<1>1. StockInv /\ [Next]_vars => StockInv'
  BY StockInvStep
<1>2. StockInv => ReservationsAccounted
  BY DEF StockInv
<1> QED
  BY <1>1, <1>2, StockInvInit, PTL DEF Spec

\* Every unit of a tracked SKU is on the shelf, out with an order, written off or
\* explained by a stock movement: completing, returning, writing off and
\* completing again neither lose a unit nor count one twice.
THEOREM StockConserved ==
    ASSUME Practices = {}
    PROVE  Spec => []StockAccounted
<1>1. StockInv /\ [Next]_vars => StockInv'
  BY StockInvStep
<1>2. StockInv => StockAccounted
  BY DEF StockInv
<1> QED
  BY <1>1, <1>2, StockInvInit, PTL DEF Spec

-----------------------------------------------------------------------------
(***************************************************************************)
(* Overselling.  The property needs more than the counters: that an order  *)
(* which was completed has a history entry, and that a closed one's last   *)
(* entry says that its goods came back.                                    *)
(***************************************************************************)
LastWritten(o) ==
    /\ completed[o] => lastStock[o] # "none"
    /\ status[o] \in RELEASE_ON_CANCEL => lastStock[o] \in RELEASE_ON_CANCEL

EntriesKept == \A o \in Orders : LastWritten(o)

LEMMA EntriesInit == Init => EntriesKept
BY DEF Init, EntriesKept, LastWritten, RELEASE_ON_CANCEL

LEMMA EntriesStep == Typed /\ EntriesKept /\ [Next]_vars => EntriesKept'
<1> SUFFICES ASSUME Typed, EntriesKept, [Next]_vars, NEW x \in Orders
             PROVE  LastWritten(x)'
  BY DEF EntriesKept
<1>0. LastWritten(x)
  BY DEF EntriesKept
<1>1. CASE UNCHANGED <<status, completed, lastStock>>
  BY <1>0, <1>1 DEF LastWritten
<1>2. ASSUME NEW o \in Orders, NEW s \in {"PENDING", "CONFIRMED"}, NEW q, PlaceOrder(o, s, q)
      PROVE  LastWritten(x)'
  <2>1. status' = [status EXCEPT ![o] = s] /\ UNCHANGED <<completed, lastStock>>
    BY <1>2 DEF PlaceOrder
  <2>2. s \notin RELEASE_ON_CANCEL
    BY DEF RELEASE_ON_CANCEL
  <2> QED
    BY <1>0, <2>1, <2>2 DEF LastWritten, Typed, OrdersOK
<1>3. ASSUME NEW o \in Orders, NEW s \in Requested, Asked(o, s), SetStatus(o, s)
      PROVE  LastWritten(x)'
  <2>1. CASE x = o
    <3>1. /\ completed'[o] <=> (completed[o] \/ s = "COMPLETED")
          /\ status'[o] = s
          /\ lastStock'[o] = IF s \in RELEASE_ON_CANCEL \cup {"COMPLETED"} THEN s
                             ELSE lastStock[o]
      BY <1>3 DEF SetStatus, Typed, OrdersOK
    <3> QED
      BY <1>0, <2>1, <3>1 DEF LastWritten, RELEASE_ON_CANCEL
  <2>2. CASE x # o
    <3>1. completed'[x] = completed[x] /\ status'[x] = status[x] /\ lastStock'[x] = lastStock[x]
      BY <1>3, <2>2 DEF SetStatus, Typed, OrdersOK
    <3> QED
      BY <1>0, <3>1 DEF LastWritten
  <2> QED
    BY <2>1, <2>2
<1>4. ASSUME NEW o \in Orders, NEW ret, setReturnedStock(o, ret)
      PROVE  LastWritten(x)'
  <2>1. /\ lastStock' = [lastStock EXCEPT ![o] = status[o]] /\ UNCHANGED <<status, completed>>
        /\ status[o] \in RELEASE_ON_CANCEL /\ status[o] # "none"
    BY <1>4 DEF setReturnedStock, RELEASE_ON_CANCEL
  <2> QED
    BY <1>0, <2>1 DEF LastWritten, Typed, OrdersOK
<1>5. ASSUME NEW o \in Orders, NEW s \in Requested,
             \/ CompleteFirst(o, s) \/ CompleteAgain(o, s) \/ Relabel(o, s)
             \/ \E ret \in ReturnLines :
                   \/ CloseUnsold(o, s, ret) \/ CloseSold(o, s, ret)
                   \/ CloseReturned(o, s, ret) \/ FinishReturn(o, s, ret)
      PROVE  LastWritten(x)'
  BY <1>3, <1>5, UpdateStatusLines
<1>6. ASSUME NEW h \in Requests, NEW o \in Orders, NEW l \in Lines,
             \/ \E q \in Quantities : ReadForAdd(h, o, l, q) \/ ReadForUpdate(h, o, l, q)
             \/ ReadForRemove(h, o, l)
      PROVE  LastWritten(x)'
  BY <1>1, <1>6 DEF ReadForAdd, ReadForUpdate, ReadForRemove, BeginEdit, orderVars
<1>7. ASSUME NEW h \in Requests,
             addItem(h) \/ updateItemQuantity(h) \/ removeItem(h) \/ editFails(h)
      PROVE  LastWritten(x)'
  BY <1>1, <1>7 DEF addItem, updateItemQuantity, removeItem, editFails, EndEdit
<1>8. ASSUME NEW p \in SKUs, NEW n \in {1, -1}, OnlineMove(p, n) PROVE LastWritten(x)'
  BY <1>1, <1>8 DEF OnlineMove, orderVars
<1>9. ASSUME NEW o \in Orders, NEW q \in [Lines -> Counts], Checkout(o, q) \/ CreateByStaff(o, q)
      PROVE  LastWritten(x)'
  BY <1>2, <1>9 DEF Checkout, CreateByStaff
<1>10. CASE UNCHANGED vars
  BY <1>1, <1>10 DEF vars, orderVars
<1> QED
  BY <1>4, <1>5, <1>6, <1>7, <1>8, <1>9, <1>10 DEF Next

\* The step promises more of p than there is, for the first time.
Oversells(p) == reserved[p] <= stock[p] /\ reserved'[p] > stock'[p]

LEMMA PerSkuNat ==
    ASSUME NEW d \in [Lines -> Nat], NEW p PROVE PerSku(d, p) \in Nat
<1> DEFINE W == {l \in Lines : SkuOf[l] = p}
<1>1. IsFiniteSet(W) /\ \A l \in W : d[l] \in Nat
  BY ConstantsAssumption, FS_Subset
<1> HIDE DEF W
<1>2. SumFunctionOnSet(d, W) \in Nat
  BY <1>1, SumNat
<1> QED
  BY <1>2 DEF PerSku, W

LEMMA PerSkuZero ==
    ASSUME NEW d \in [Lines -> Int], \A l \in Lines : d[l] = 0, NEW p
    PROVE  PerSku(d, p) = 0
BY ConstantsAssumption, FS_Subset, SumZero DEF PerSku

LEMMA StayingKeeps ==
    ASSUME CountersOK, NEW p \in Tracked, stock'[p] = stock[p], reserved'[p] = reserved[p]
    PROVE  ~Oversells(p)
<1>1. stock[p] \in Int /\ reserved[p] \in Int
  BY ConstantsAssumption DEF CountersOK
<1> QED
  BY <1>1 DEF Oversells

\* reserveStock promises only what it finds.
LEMMA ReservingKeeps ==
    ASSUME CountersOK, NEW p \in Tracked \ Backorder, NEW d \in [Lines -> Int],
           reserveStock(d), UNCHANGED stock
    PROVE  ~Oversells(p)
<1>1. PICK n \in Int : n = PerSku(d, p)
  BY PerSkuInt
<1>2. PICK a, b \in Int : a = reserved[p] /\ b = stock[p]
  BY ConstantsAssumption DEF CountersOK
<1>3. reserved'[p] = a + n /\ stock'[p] = b
  BY <1>1, <1>2, ConstantsAssumption DEF reserveStock, Shift
<1>4. n > 0 => b - a >= n
  BY <1>1, <1>2 DEF reserveStock, CanReserve
<1> QED
  BY <1>2, <1>3, <1>4 DEF Oversells

\* The hold shrinks by q and the shelf by no more than that.
LEMMA GivingBackKeeps ==
    ASSUME CountersOK, NEW p \in Tracked, NEW S, p \in S, NEW T, p \in T,
           NEW c \in [Lines -> Int], NEW e \in [Lines -> Int],
           \A l \in Lines : e[l] >= c[l],
           reserved' = Shift(reserved, S, c), stock' = Shift(stock, T, e)
    PROVE  ~Oversells(p)
<1> DEFINE d == [l \in Lines |-> e[l] - c[l]]
<1>1. d \in [Lines -> Nat] /\ d \in [Lines -> Int] /\ \A l \in Lines : e[l] = c[l] + d[l]
  OBVIOUS
<1> HIDE DEF d
<1>2. PerSku(e, p) = PerSku(c, p) + PerSku(d, p)
  BY <1>1, PerSkuPlus
<1>3. PICK m \in Int, n \in Nat : m = PerSku(c, p) /\ n = PerSku(d, p)
  BY <1>1, PerSkuInt, PerSkuNat
<1>4. PICK a, b \in Int : a = reserved[p] /\ b = stock[p]
  BY ConstantsAssumption DEF CountersOK
<1>5. reserved'[p] = a + m /\ stock'[p] = b + (m + n)
  BY <1>2, <1>3, <1>4, ConstantsAssumption DEF Shift
<1> QED
  BY <1>3, <1>4, <1>5 DEF Oversells

LEMMA NoShift ==
    ASSUME NEW f \in [SKUs -> Int]
    PROVE  \E z \in [Lines -> Int] : /\ \A l \in Lines : z[l] = 0
                                     /\ \A S : Shift(f, S, z) = f
<1> DEFINE z == [l \in Lines |-> 0]
<1>1. z \in [Lines -> Int] /\ \A l \in Lines : z[l] = 0
  OBVIOUS
<1> HIDE DEF z
<1>2. \A p : PerSku(z, p) = 0
  BY <1>1, PerSkuZero
<1>3. ASSUME NEW S PROVE Shift(f, S, z) = f
  <2>1. \A p \in SKUs : f[p] + PerSku(z, p) = f[p]
    BY <1>2
  <2> QED
    BY <2>1 DEF Shift
<1> QED
  BY <1>1, <1>3

\* What the property allows: a step on an order whose goods had come back.
OfReturned(o) == /\ lastStock[o] \in RELEASE_ON_CANCEL
                 /\ <<status[o], line[o]>>' # <<status[o], line[o]>>

\* A step of updateStatus on o, by the order's last entry.
LEMMA StatusExcused ==
    ASSUME Typed, NEW o \in Orders, NEW s \in Requested, Asked(o, s), SetStatus(o, s),
           lastStock[o] \in RELEASE_ON_CANCEL
    PROVE  OfReturned(o)
<1>1. status'[o] = s /\ status[o] # s
  BY StatusWritten DEF Asked
<1> QED
  BY <1>1 DEF OfReturned

LEMMA EditNeverOversells ==
    ASSUME Typed, CountersOK, NEW p \in Tracked \ Backorder, NEW h \in Requests,
           addItem(h) \/ updateItemQuantity(h) \/ removeItem(h)
    PROVE  ~Oversells(p)
<1>1. edit[h] \in EditRequest
  BY EditLines DEF Typed
<1>2. PICK l \in Lines, q \in Nat, n \in Nat :
         l = edit[h].l /\ q = edit[h].qty /\ n = edit[h].seen
  BY <1>1 DEF EditRequest
<1>3. UNCHANGED stock
  BY DEF addItem, updateItemQuantity, removeItem, EndEdit
<1>4. ASSUME NEW m \in Nat, releaseStock(OneLine(l, m)) PROVE ~Oversells(p)
  <2>1. PICK z \in [Lines -> Int] : /\ \A k \in Lines : z[k] = 0
                                    /\ \A S : Shift(stock, S, z) = stock
    BY NoShift DEF CountersOK
  <2> DEFINE c == Negated(OneLine(l, m))
  <2>2. c \in [Lines -> Int] /\ \A k \in Lines : c[k] = IF k = l THEN -m ELSE 0
    BY OneLineTyped
  <2>3. reserved' = Shift(reserved, Tracked, c)
    BY <1>4 DEF releaseStock
  <2> HIDE DEF c
  <2>4. \A k \in Lines : z[k] >= c[k]
    BY <2>1, <2>2
  <2>5. stock' = Shift(stock, Tracked, z)
    BY <1>3, <2>1
  <2> QED
    BY <2>1, <2>2, <2>3, <2>4, <2>5, GivingBackKeeps
<1>5. CASE addItem(h)
  <2>1. reserveStock(OneLine(l, q))
    BY <1>2, <1>5 DEF addItem
  <2> QED
    BY <1>3, <2>1, OneLineTyped, ReservingKeeps
<1>6. CASE updateItemQuantity(h)
  <2>1. \/ reserveStock(OneLine(l, q - n))
        \/ n > q /\ releaseStock(OneLine(l, n - q))
        \/ UNCHANGED reserved
    BY <1>2, <1>6 DEF updateItemQuantity
  <2>2. CASE reserveStock(OneLine(l, q - n))
    <3>1. PICK m \in Int : m = q - n
      OBVIOUS
    <3>2. reserveStock(OneLine(l, m))
      BY <2>2, <3>1
    <3> QED
      BY <1>3, <3>2, OneLineTyped, ReservingKeeps
  <2>3. CASE n > q /\ releaseStock(OneLine(l, n - q))
    <3>1. PICK m \in Nat : m = n - q
      BY <2>3
    <3> QED
      BY <1>4, <2>3, <3>1
  <2>4. CASE UNCHANGED reserved
    BY <1>3, <2>4, StayingKeeps
  <2> QED
    BY <2>1, <2>2, <2>3, <2>4
<1>7. CASE removeItem(h)
  <2>1. releaseStock(OneLine(l, n))
    BY <1>2, <1>7 DEF removeItem
  <2> QED
    BY <1>4, <2>1
<1> QED
  BY <1>5, <1>6, <1>7

\* Closing an order that was never completed gives its hold back, and takes at
\* most as many damaged units off the shelf.
LEMMA CloseUnsoldNeverOversells ==
    ASSUME StockInv, NEW p \in Tracked \ Backorder, NEW o \in Orders, NEW s \in Requested,
           NEW ret \in ReturnLines, CloseUnsold(o, s, ret), Typed'
    PROVE  ~Oversells(p)
<1>1. /\ Typed /\ CountersOK /\ OrderConsistent(o) /\ Asked(o, s) /\ SetStatus(o, s)
      /\ status[o] \notin RELEASE_ON_CANCEL /\ ~completed[o]
  BY DEF CloseUnsold, Closing, StockInv, Known, IInv
<1>2. status[o] \in ITEM_EDITABLE_STATUSES
  BY <1>1, StatusWritten DEF OrderStatus, OrderConsistent
<1>3. ~Counted(o)
  BY <1>1, <1>2 DEF OrderConsistent
<1>4. \A l \in Lines : line[o][l].qty \in Nat
  BY <1>1, RowTyped DEF Typed
<1> DEFINE c == Negated(Quantity(o))
<1>5. c \in [Lines -> Int] /\ \A l \in Lines : c[l] = -line[o][l].qty
  BY <1>4 DEF Negated, Quantity
<1>6. reserved' = Shift(reserved, Physical, c)
  BY DEF CloseUnsold, releaseReservations
<1> HIDE DEF c
<1>7. p \in Physical
  BY ConstantsAssumption, DigitalUntracked DEF Physical
<1>8. \E e \in [Lines -> Int] : /\ stock' = Shift(stock, Physical, e)
                                /\ \A l \in Lines : e[l] >= c[l]
  <2>1. CASE UNCHANGED <<stock, line>>
    <3>1. PICK z \in [Lines -> Int] : /\ \A k \in Lines : z[k] = 0
                                      /\ \A S : Shift(stock, S, z) = stock
      BY <1>1, NoShift DEF CountersOK
    <3>2. \A l \in Lines : z[l] >= c[l]
      BY <1>4, <1>5, <3>1
    <3> QED
      BY <2>1, <3>1, <3>2
  <2>2. CASE setReturnStock(o, ret)
    <3>1. PICK e \in [Lines -> Int] :
             /\ stock' = Shift(stock, Physical, e)
             /\ \A l \in Lines : line'[o][l].back = line[o][l].qty + e[l]
      BY <1>1, <1>3, <2>2, SetReturnStockMoves
    <3>2. \A l \in Lines : line'[o][l].back \in Nat
      BY DEF Typed, OrdersOK, LineRow
    <3>3. ASSUME NEW l \in Lines PROVE e[l] >= c[l]
      BY <1>4, <1>5, <3>1, <3>2
    <3> QED
      BY <3>1, <3>3
  <2> QED
    BY <2>1, <2>2 DEF CloseUnsold
<1> QED
  BY <1>1, <1>5, <1>6, <1>7, <1>8, GivingBackKeeps

LEMMA StatusOversells ==
    ASSUME Practices = {}, StockInv, EntriesKept, Typed', NEW p \in Tracked \ Backorder,
           NEW o \in Orders, NEW s \in Requested,
           \/ CompleteFirst(o, s) \/ CompleteAgain(o, s) \/ Relabel(o, s)
           \/ \E ret \in ReturnLines :
                 \/ CloseUnsold(o, s, ret) \/ CloseSold(o, s, ret)
                 \/ CloseReturned(o, s, ret) \/ FinishReturn(o, s, ret)
    PROVE  Oversells(p) => OfReturned(o)
<1>1. Typed /\ CountersOK /\ Asked(o, s) /\ SetStatus(o, s)
  BY UpdateStatusLines DEF StockInv, Known, IInv
<1>2. p \in Physical
  BY ConstantsAssumption, DigitalUntracked DEF Physical
<1>3. \A l \in Lines : line[o][l].qty \in Nat /\ line'[o][l].back \in Nat
  BY <1>1, RowTyped DEF Typed, OrdersOK, LineRow
<1>4. ASSUME completed[o], ~StockIsOut(o) PROVE OfReturned(o)
  <2>1. /\ lastStock[o] \in RELEASE_ON_CANCEL \cup {"COMPLETED", "none"}
        /\ lastStock[o] # "none" /\ lastStock[o] # "COMPLETED"
    BY <1>1, <1>4 DEF EntriesKept, LastWritten, StockIsOut, Typed, OrdersOK
  <2> QED
    BY <1>1, <2>1, StatusExcused
<1>5. CASE CompleteFirst(o, s)
  <2> DEFINE c == Negated(Quantity(o))
  <2>1. c \in [Lines -> Int] /\ \A l \in Lines : c[l] >= c[l]
    BY <1>3 DEF Negated, Quantity
  <2>2. reserved' = Shift(reserved, Physical, c) /\ stock' = Shift(stock, Physical, c)
    BY <1>5 DEF CompleteFirst, commitReservations
  <2> HIDE DEF c
  <2> QED
    BY <1>1, <1>2, <2>1, <2>2, GivingBackKeeps
<1>6. CASE CompleteAgain(o, s)
  BY <1>4, <1>6 DEF CompleteAgain
<1>7. CASE Relabel(o, s)
  BY <1>1, <1>7, StayingKeeps DEF Relabel
<1>8. ASSUME NEW ret \in ReturnLines, CloseUnsold(o, s, ret)
      PROVE  ~Oversells(p)
  BY <1>8, CloseUnsoldNeverOversells
<1>9. ASSUME NEW ret \in ReturnLines, CloseSold(o, s, ret)
      PROVE  ~Oversells(p)
  <2>1. /\ s \in RELEASE_ON_CANCEL /\ applyReturnLines(o, s, ret, FALSE)
        /\ UNCHANGED reserved
    BY <1>9 DEF CloseSold, Closing
  <2>2. PICK e \in [Lines -> Int] : /\ stock' = Shift(stock, Physical, e)
                                    /\ \A l \in Lines : line'[o][l].back = e[l]
    BY <1>1, <2>1, ApplyReturnMoves
  <2>3. PICK z \in [Lines -> Int] : /\ \A k \in Lines : z[k] = 0
                                    /\ \A S : Shift(reserved, S, z) = reserved
    BY <1>1, NoShift DEF CountersOK
  <2>4. \A l \in Lines : e[l] >= z[l]
    BY <1>3, <2>2, <2>3
  <2>5. reserved' = Shift(reserved, Physical, z)
    BY <2>1, <2>3
  <2> QED
    BY <1>1, <1>2, <2>2, <2>3, <2>4, <2>5, GivingBackKeeps
<1>10. ASSUME NEW ret \in ReturnLines, CloseReturned(o, s, ret)
       PROVE  OfReturned(o)
  BY <1>4, <1>10 DEF CloseReturned
<1>11. ASSUME NEW ret \in ReturnLines, FinishReturn(o, s, ret)
       PROVE  OfReturned(o)
  <2>1. status[o] = "PARTIALLY_RETURNED"
    BY <1>11 DEF FinishReturn, FinishesReturn
  <2>2. lastStock[o] \in RELEASE_ON_CANCEL
    BY <2>1 DEF EntriesKept, LastWritten, RELEASE_ON_CANCEL
  <2> QED
    BY <1>1, <2>2, StatusExcused
<1> QED
  BY <1>5, <1>6, <1>7, <1>8, <1>9, <1>10, <1>11

\* setReturnedStock that leaves the lines as they are leaves the shelf, too.
LEMMA ReturnedStockOversells ==
    ASSUME StockInv, EntriesKept, Typed', NEW p \in Tracked, NEW o \in Orders,
           NEW ret \in ReturnLines, setReturnedStock(o, ret), Oversells(p)
    PROVE  OfReturned(o)
<1>1. Typed /\ CountersOK
  BY DEF StockInv, Known, IInv
<1>2. lastStock[o] \in RELEASE_ON_CANCEL
  BY DEF setReturnedStock, EntriesKept, LastWritten, RELEASE_ON_CANCEL
<1>3. setReturnStock(o, ret) /\ UNCHANGED reserved
  BY DEF setReturnedStock
<1>4. PICK e \in [Lines -> Int] :
        /\ stock' = Shift(stock, Physical, e)
        /\ \A l \in Lines :
             /\ Counted(o) => line'[o][l].back = line[o][l].back + e[l]
             /\ ~Counted(o) => line'[o][l].off = -e[l]
  BY <1>1, <1>3, SetReturnStockMoves
<1>5. ASSUME line'[o] = line[o] PROVE FALSE
  <2>1. \A l \in Lines : e[l] = 0
    <3> SUFFICES ASSUME NEW l \in Lines PROVE e[l] = 0
      OBVIOUS
    <3>1. line[o][l].back \in Nat /\ line[o][l].off \in Nat /\ e[l] \in Int
      BY <1>1, RowTyped DEF Typed
    <3>2. CASE Counted(o)
      BY <1>4, <1>5, <3>1, <3>2
    <3>3. CASE ~Counted(o)
      <4>1. line[o][l].off = 0
        BY <3>1, <3>3 DEF Counted
      <4>2. 0 = -e[l]
        BY <1>4, <1>5, <3>3, <4>1
      <4> QED
        BY <3>1, <4>2
    <3> QED
      BY <3>2, <3>3
  <2>2. PerSku(e, p) = 0
    BY <2>1, PerSkuZero
  <2>3. p \in SKUs /\ stock[p] \in Int
    BY <1>1, ConstantsAssumption DEF CountersOK
  <2>4. stock'[p] = stock[p]
    BY <1>4, <2>2, <2>3 DEF Shift
  <2> QED
    BY <1>1, <1>3, <2>4, StayingKeeps
<1> QED
  BY <1>2, <1>5 DEF OfReturned

LEMMA OversoldStep ==
    ASSUME Practices = {}, StockInv, EntriesKept, StockInv', [Next]_vars,
           NEW p \in Tracked \ Backorder, Oversells(p)
    PROVE  \E o \in Orders : OfReturned(o)
<1>0. Typed /\ CountersOK /\ Typed' /\ p \in SKUs
  BY ConstantsAssumption DEF StockInv, Known, IInv
<1>1. ASSUME UNCHANGED <<stock, reserved>> PROVE FALSE
  BY <1>0, <1>1, StayingKeeps
<1>2. ASSUME NEW o \in Orders, NEW q \in [Lines -> Counts], Checkout(o, q) \/ CreateByStaff(o, q)
      PROVE  FALSE
  <2>1. reserveStock(q) /\ UNCHANGED stock
    BY <1>2 DEF Checkout, CreateByStaff, PlaceOrder
  <2>2. Counts \subseteq Int
    BY ConstantsAssumption DEF Counts
  <2>3. q \in [Lines -> Int]
    BY <2>2
  <2> QED
    BY <1>0, <2>1, <2>3, ReservingKeeps
<1>3. ASSUME NEW x \in SKUs, NEW n \in {1, -1}, OnlineMove(x, n) PROVE FALSE
  <2>1. PICK a, b \in Int : a = reserved[p] /\ b = stock[p]
    BY <1>0 DEF CountersOK
  <2>2. reserved'[p] = a /\ stock'[p] = IF x = p THEN b + n ELSE b
    BY <1>0, <1>3, <2>1 DEF OnlineMove, CountersOK
  <2>3. x = p => (n > 0 \/ b - a + n >= 0)
    BY <1>3, <2>1 DEF OnlineMove
  <2> QED
    BY <2>1, <2>2, <2>3 DEF Oversells
<1>4. ASSUME NEW h \in Requests, NEW o \in Orders, NEW l \in Lines,
             \/ \E q \in Quantities : ReadForAdd(h, o, l, q) \/ ReadForUpdate(h, o, l, q)
             \/ ReadForRemove(h, o, l)
      PROVE  FALSE
  BY <1>1, <1>4 DEF ReadForAdd, ReadForUpdate, ReadForRemove, BeginEdit, stockVars
<1>5. ASSUME NEW h \in Requests, addItem(h) \/ updateItemQuantity(h) \/ removeItem(h)
      PROVE  FALSE
  BY <1>0, <1>5, EditNeverOversells
<1>6. ASSUME NEW h \in Requests, editFails(h) PROVE FALSE
  BY <1>1, <1>6 DEF editFails, EndEdit
<1>7. ASSUME NEW o \in Orders, NEW s \in Requested,
             \/ CompleteFirst(o, s) \/ CompleteAgain(o, s) \/ Relabel(o, s)
             \/ \E ret \in ReturnLines :
                   \/ CloseUnsold(o, s, ret) \/ CloseSold(o, s, ret)
                   \/ CloseReturned(o, s, ret) \/ FinishReturn(o, s, ret)
      PROVE  OfReturned(o)
  BY <1>0, <1>7, StatusOversells
<1>8. ASSUME NEW o \in Orders, NEW ret \in ReturnLines, setReturnedStock(o, ret)
      PROVE  OfReturned(o)
  BY <1>0, <1>8, ReturnedStockOversells
<1>9. CASE UNCHANGED vars
  BY <1>1, <1>9 DEF vars, stockVars
<1> QED
  BY <1>2, <1>3, <1>4, <1>5, <1>6, <1>7, <1>8, <1>9 DEF Next

\* More is promised than is there only by a step on an order whose goods had come
\* back: whatever customers, staff and couriers do with any number of orders,
\* checkout, staff orders, edits, stock moves, completions and cancellations keep
\* what a SKU without backorders has promised within what it has.
THEOREM OversoldAfterReturn ==
    ASSUME Practices = {}
    PROVE  Spec => OversoldOnlyAfterReturn
<1>1. StockInv /\ [Next]_vars => StockInv'
  BY StockInvStep
<1>2. StockInv /\ EntriesKept /\ [Next]_vars => EntriesKept'
  BY EntriesStep DEF StockInv, Known, IInv
<1>3. StockInv /\ EntriesKept /\ StockInv' /\ [Next]_vars =>
        [\A p \in Tracked \ Backorder :
            reserved[p] <= stock[p] /\ reserved'[p] > stock'[p]
               => \E o \in Orders : /\ lastStock[o] \in RELEASE_ON_CANCEL
                                    /\ <<status[o], line[o]>>' # <<status[o], line[o]>>]_vars
  BY OversoldStep DEF Oversells, OfReturned
<1> QED
  BY <1>1, <1>2, <1>3, StockInvInit, EntriesInit, PTL DEF Spec, OversoldOnlyAfterReturn
=============================================================================
