------------------------ MODULE StockReservation_proofs ------------------------
(***************************************************************************)
(* Theorems about StockReservation, for any workers, products, orders and  *)
(* crashes.  The argument: an operation that overlaps with no other still  *)
(* finds, when it writes, what it read; so the books of each step are      *)
(* those of the documents.  While the one operation is under way, a unit   *)
(* taken for a reservation not yet inserted counts as held, and a unit     *)
(* returned from one not yet released does not.                            *)
(***************************************************************************)
EXTENDS StockReservation, FiniteSetTheorems, TLAPS

USE StockAssumption

Jobs == [kind : Kinds \cup {"none"}, step : {"next", "take", "return", "publish"},
         order : OrderIds \cup {"none"}, todo : SUBSET Products, read : Nat,
         units : 0..MaxUnits, product : Products \cup {"none"}, res : Reservation]

Adjusting == {"increase", "decrease", "publish"}

(* A job has what its next step uses.                                      *)
Formed(j) ==
  /\ j.kind \in {"reserve", "commit", "release"} => j.order \in OrderIds
  /\ j.step \in {"take", "return"} \/ j.kind \in Adjusting => j.product \in Products
  /\ j.step = "take" \/ j.kind = "decrease" => j.units <= j.read
  /\ j.kind \in {"commit", "release"} /\ j.step # "publish" => j.res.status = "open"

(* A job that has read a quantity it is about to replace.                  *)
Read(j) == \/ j.kind \in {"reserve", "release"} /\ j.step \in {"take", "return"}
           \/ j.kind \in {"increase", "decrease"}

(* A job that overlaps with no other: what it read is still so.            *)
Fits(j) ==
  /\ j.kind = "reserve" => j.res.status = "open"
  /\ j.kind \in {"commit", "release"} /\ j.step # "publish" => reservation[j.order] = j.res
  /\ j.kind = "commit" /\ j.step # "publish" => announced[j.order] = {}
  /\ j.kind = "commit" /\ j.step = "publish" => reservation[j.order].status = "committed"
  /\ j.kind = "release" /\ j.step = "publish" => reservation[j.order].status = "released"
  /\ Read(j) => j.read = stock[j.product]
  /\ j.kind = "release" /\ j.step = "return" =>
       j.product \notin j.todo /\ j.units = j.res.items[j.product]

(* What was announced of an order, by the state of its reservation.        *)
OrdersConsistent ==
  \A o \in OrderIds :
    /\ reservation[o].status = "none" \/ Decidable(o) => announced[o] = {}
    /\ reservation[o].status = "committed" => announced[o] \subseteq {"committed"}
    /\ "committed" \in announced[o] => reservation[o].status = "committed"

(* The units a job has taken and nobody holds yet, or has returned and are *)
(* still held.                                                             *)
Extra(j, p) ==
  IF j.kind = "reserve" THEN j.res.items[p]
  ELSE IF /\ j.kind = "release" /\ j.step # "publish" /\ p \notin j.todo
          /\ ~(j.step = "return" /\ j.product = p) THEN 0 - j.res.items[p] ELSE 0

Balanced ==
  /\ Quiet => \A p \in Products : stock[p] + Held(p) <= supply[p]
  /\ \A w \in Workers : Busy(w) =>
       \A p \in Products : stock[p] + Held(p) + Extra(job[w], p) <= supply[p]

StockBounds == adjusts \in Nat /\ crashes \in Nat /\ overlapped \in BOOLEAN

DataTypeOK ==
  /\ stock \in [Products -> Nat] /\ reservation \in [OrderIds -> Reservation]
  /\ expired \subseteq OrderIds
  /\ announced \in [OrderIds -> SUBSET {"committed", "failed", "released"}]
  /\ supply \in [Products -> Int]

StockInv ==
  /\ DataTypeOK /\ StockBounds
  /\ job \in [Workers -> Jobs] /\ \A w \in Workers : Formed(job[w])
  /\ ~overlapped => /\ OrdersConsistent
                    /\ \A w \in Workers : Fits(job[w])
                    /\ \A v, w \in Workers : Busy(v) /\ Busy(w) => v = w
  /\ ~overlapped /\ crashes = 0 => Balanced

---------------------------------------------------------------------------
(* The units held. *)

(* The units of a product that a reservation holds.                        *)
Unit(x, p) == IF x.status \in {"open", "committed"} THEN x.items[p] ELSE 0

UnitsOf(r, p, orders) == {u \in orders \X (1..MaxUnits) :
  /\ r[u[1]].status \in {"open", "committed"} /\ u[2] <= r[u[1]].items[p]}

HeldIn(r, p) == Cardinality(UnitsOf(r, p, OrderIds))

(* The units of some orders are finitely many.                             *)
LEMMA UnitsFinite ==
  ASSUME NEW r, NEW p, NEW orders \in SUBSET OrderIds
  PROVE  IsFiniteSet(UnitsOf(r, p, orders))
  <1>1. IsFiniteSet(orders) /\ IsFiniteSet(1..MaxUnits)
    BY FS_Subset, FS_Interval
  <1>2. IsFiniteSet(orders \X (1..MaxUnits))
    BY <1>1, FS_Product
  <1>3. UnitsOf(r, p, orders) \in SUBSET (orders \X (1..MaxUnits))
    BY DEF UnitsOf
  <1> QED BY <1>2, <1>3, FS_Subset

(* One order's units are as many as its reservation holds.                 *)
LEMMA UnitsOfOne ==
  ASSUME NEW r, NEW o \in OrderIds, NEW p \in Products, r[o] \in Reservation
  PROVE  Cardinality(UnitsOf(r, p, {o})) = Unit(r[o], p)
  <1>1. Unit(r[o], p) \in 0..MaxUnits
    BY DEF Unit, Reservation
  <1> DEFINE k == Unit(r[o], p)
             numbered == [n \in 1..k |-> <<o, n>>]
  <1>2. UnitsOf(r, p, {o}) = {<<o, n>> : n \in 1..k}
    <2>1. CASE r[o].status \in {"open", "committed"}
      <3>1. k = r[o].items[p] /\ k \in 0..MaxUnits
        BY <1>1, <2>1 DEF Unit
      <3>2. UnitsOf(r, p, {o}) = {u \in {o} \X (1..MaxUnits) : u[2] <= k}
        BY <2>1, <3>1 DEF UnitsOf
      <3> HIDE DEF k
      <3>3. ASSUME NEW u \in {o} \X (1..MaxUnits), u[2] <= k
            PROVE  u = <<o, u[2]>> /\ u[2] \in 1..k
        BY <3>1, <3>3
      <3>4. ASSUME NEW n \in 1..k
            PROVE  <<o, n>> \in {o} \X (1..MaxUnits) /\ <<o, n>>[2] <= k
        BY <3>1, <3>4
      <3> QED BY <3>2, <3>3, <3>4
    <2>2. CASE r[o].status \notin {"open", "committed"}
      <3>1. k = 0 /\ UnitsOf(r, p, {o}) = {}
        BY <2>2 DEF Unit, UnitsOf
      <3> HIDE DEF k
      <3>2. 1..k = {}
        BY <3>1
      <3> QED BY <3>1, <3>2
    <2> QED BY <2>1, <2>2
  <1> HIDE DEF k
  <1>3. numbered \in Bijection(1..k, {<<o, n>> : n \in 1..k})
    BY DEF Bijection, Injection, Surjection, IsInjective
  <1>4. IsFiniteSet(1..k) /\ Cardinality(1..k) = k
    BY <1>1, FS_Interval DEF k
  <1>5. Cardinality({<<o, n>> : n \in 1..k}) = k
    BY <1>3, <1>4, FS_Bijection DEF ExistsBijection
  <1> QED BY <1>2, <1>5 DEF k

(* The units held by the reservations other than one order's, and by it.   *)
LEMMA HeldSplit ==
  ASSUME NEW r, NEW o \in OrderIds, NEW p \in Products, r[o] \in Reservation
  PROVE  /\ Cardinality(UnitsOf(r, p, OrderIds \ {o})) \in Nat
         /\ HeldIn(r, p) = Cardinality(UnitsOf(r, p, OrderIds \ {o})) + Unit(r[o], p)
  <1> DEFINE others == UnitsOf(r, p, OrderIds \ {o})
             own == UnitsOf(r, p, {o})
  <1>1. IsFiniteSet(others) /\ IsFiniteSet(own)
    BY UnitsFinite
  <1>2. Cardinality(others) \in Nat /\ Cardinality(own) \in Nat
    BY <1>1, FS_CardinalityType
  <1>3. UnitsOf(r, p, OrderIds) = others \cup own /\ others \cap own = {}
    BY DEF UnitsOf
  <1>4. Cardinality(others \cup own)
          = Cardinality(others) + Cardinality(own) - Cardinality(others \cap own)
    BY <1>1, FS_Union
  <1>5. Cardinality(own) = Unit(r[o], p)
    BY UnitsOfOne
  <1>6. Cardinality({}) = 0
    BY FS_EmptySet
  <1> HIDE DEF others, own
  <1>7. HeldIn(r, p) = Cardinality(others) + Unit(r[o], p)
    BY <1>2, <1>3, <1>4, <1>5, <1>6 DEF HeldIn
  <1> QED BY <1>2, <1>7 DEF others

(* The units held are a number.                                            *)
LEMMA HeldTyped == \A r : \A p \in Products : HeldIn(r, p) \in Nat
  BY UnitsFinite, FS_CardinalityType DEF HeldIn

(* What changing one reservation does to the units held.                   *)
LEMMA HeldChanges ==
  ASSUME NEW r \in [OrderIds -> Reservation], NEW o \in OrderIds,
         NEW n \in Reservation, NEW p \in Products
  PROVE  /\ HeldIn(r, p) \in Int /\ HeldIn([r EXCEPT ![o] = n], p) \in Int
         /\ HeldIn([r EXCEPT ![o] = n], p) = HeldIn(r, p) - Unit(r[o], p) + Unit(n, p)
  <1> DEFINE s == [r EXCEPT ![o] = n]
             othersOf(f) == UnitsOf(f, p, OrderIds \ {o})
  <1>1. s[o] = n /\ r[o] \in Reservation /\ \A q \in OrderIds \ {o} : s[q] = r[q]
    OBVIOUS
  <1>2. othersOf(s) = othersOf(r)
    BY <1>1 DEF UnitsOf
  <1>3. /\ Cardinality(othersOf(r)) \in Nat
        /\ HeldIn(r, p) = Cardinality(othersOf(r)) + Unit(r[o], p)
    BY <1>1, HeldSplit
  <1>4. HeldIn(s, p) = Cardinality(othersOf(s)) + Unit(s[o], p)
    BY <1>1, HeldSplit
  <1>5. Unit(r[o], p) \in Nat /\ Unit(n, p) \in Nat
    BY <1>1 DEF Unit, Reservation
  <1> HIDE DEF othersOf, s
  <1>6. /\ HeldIn(r, p) \in Int /\ HeldIn(s, p) \in Int
        /\ HeldIn(s, p) = HeldIn(r, p) - Unit(r[o], p) + Unit(n, p)
    BY <1>1, <1>2, <1>3, <1>4, <1>5
  <1> QED BY <1>6 DEF s

---------------------------------------------------------------------------
(* The invariant. *)

(* A step of one worker keeps the invariant if its job is well-formed,     *)
(* and if it fits and the books balance when nothing has overlapped: then  *)
(* no other worker is busy.                                                *)
LEMMA OneWorkerSteps ==
  ASSUME StockInv, NEW w \in Workers, NEW j \in Jobs, Formed(j),
         job' = [job EXCEPT ![w] = j],
         DataTypeOK', StockBounds',
         ~overlapped' => /\ \A v \in Workers : v # w => ~Busy(v)
                         /\ OrdersConsistent' /\ Fits(j)',
         ~overlapped' /\ crashes' = 0 =>
           \A p \in Products : stock'[p] + HeldIn(reservation', p) + Extra(j, p) <= supply'[p]
  PROVE  StockInv'
  <1>1. /\ job' \in [Workers -> Jobs] /\ job'[w] = j
        /\ \A v \in Workers : v # w => job'[v] = job[v]
    BY DEF StockInv
  <1>2. \A v \in Workers : Formed(job'[v])
    BY <1>1 DEF StockInv
  <1>3. ASSUME ~overlapped'
        PROVE  /\ \A v \in Workers : Fits(job[v])'
               /\ \A u, v \in Workers : Busy(u)' /\ Busy(v)' => u = v
    <2>1. Fits(job[w])'
      BY <1>1, <1>3 DEF Fits, Read
    <2>2. ASSUME NEW v \in Workers, v # w
          PROVE  job'[v].kind = "none"
      BY <1>1, <1>3, <2>2 DEF Busy
    <2>3. ASSUME NEW v \in Workers, v # w
          PROVE  Fits(job[v])'
      BY <2>2, <2>3 DEF Fits, Read
    <2> QED BY <2>1, <2>2, <2>3 DEF Busy
  <1>4. ASSUME ~overlapped', crashes' = 0
        PROVE  Balanced'
    <2>1. \A p \in Products : Held(p)' = HeldIn(reservation', p)
      BY DEF Held, HeldIn, UnitsOf
    <2>2. ASSUME NEW v \in Workers, Busy(v)', NEW p \in Products
          PROVE  stock'[p] + Held(p)' + Extra(job'[v], p) <= supply'[p]
      <3>1. v = w
        BY <1>1, <1>3, <1>4, <2>2 DEF Busy
      <3> QED BY <1>1, <1>4, <2>1, <3>1
    <2>3. ASSUME Quiet', NEW p \in Products
          PROVE  stock'[p] + Held(p)' <= supply'[p]
      <3>1. j.kind = "none"
        BY <1>1, <2>3 DEF Quiet, Busy
      <3>2. Extra(j, p) = 0
        BY <3>1 DEF Extra
      <3>3. stock'[p] \in Int /\ HeldIn(reservation', p) \in Int
        BY HeldTyped DEF DataTypeOK
      <3>4. stock'[p] + HeldIn(reservation', p) + 0 <= supply'[p]
        BY <1>4, <3>2
      <3> QED BY <2>1, <3>3, <3>4
    <2> QED BY <2>2, <2>3 DEF Balanced
  <1> QED BY <1>1, <1>2, <1>3, <1>4 DEF StockInv

(* An operation that starts has changed nothing yet.                       *)
LEMMA Starting ==
  ASSUME StockInv, NEW w \in Workers, NEW j \in Jobs, Formed(j), Start(w, j),
         UNCHANGED <<stock, reservation, expired, announced, supply, crashes>>,
         adjusts' \in Nat, ~overlapped => Fits(j), \A p \in Products : Extra(j, p) = 0
  PROVE  StockInv'
  <1>1. /\ job' = [job EXCEPT ![w] = j] /\ ~Busy(w)
        /\ overlapped' = (overlapped \/ \E v \in Workers : Busy(v))
    BY DEF Start
  <1>2. DataTypeOK' /\ StockBounds'
    BY <1>1 DEF StockInv, DataTypeOK, StockBounds
  <1>3. ASSUME ~overlapped'
        PROVE  ~overlapped /\ Quiet /\ \A v \in Workers : ~Busy(v)
    BY <1>1, <1>3 DEF Quiet
  <1>4. ASSUME ~overlapped'
        PROVE  OrdersConsistent' /\ Fits(j)'
    BY <1>3, <1>4 DEF StockInv, OrdersConsistent, Decidable, Fits, Read
  <1>5. ASSUME ~overlapped', crashes' = 0, NEW p \in Products
        PROVE  stock'[p] + HeldIn(reservation', p) + Extra(j, p) <= supply'[p]
    <2>1. stock[p] + HeldIn(reservation, p) <= supply[p]
      BY <1>3, <1>5 DEF StockInv, Balanced, Held, HeldIn, UnitsOf
    <2>2. stock[p] \in Nat /\ HeldIn(reservation, p) \in Nat
      BY HeldTyped DEF StockInv, DataTypeOK
    <2> QED BY <2>1, <2>2
  <1> QED BY <1>1, <1>2, <1>3, <1>4, <1>5, OneWorkerSteps

(* An operation that goes on: nothing else is under way if nothing has     *)
(* overlapped, and the books balanced before.                              *)
LEMMA Continuing ==
  ASSUME StockInv, NEW w \in Workers, NEW j \in Jobs, Busy(w), Formed(j),
         job' = [job EXCEPT ![w] = j], DataTypeOK',
         UNCHANGED <<adjusts, overlapped, crashes>>,
         ~overlapped => OrdersConsistent' /\ Fits(j)',
         ~overlapped =>
           \A p \in Products :
             stock[p] + HeldIn(reservation, p) + Extra(job[w], p) <= supply[p]
             => stock'[p] + HeldIn(reservation', p) + Extra(j, p) <= supply'[p]
  PROVE  StockInv'
  <1>1. StockBounds'
    BY DEF StockInv, StockBounds
  <1>2. ASSUME ~overlapped'
        PROVE  /\ ~overlapped /\ \A v \in Workers : v # w => ~Busy(v)
               /\ OrdersConsistent' /\ Fits(j)'
    BY <1>2 DEF StockInv
  <1>3. ASSUME ~overlapped', crashes' = 0, NEW p \in Products
        PROVE  stock'[p] + HeldIn(reservation', p) + Extra(j, p) <= supply'[p]
    <2>1. stock[p] + HeldIn(reservation, p) + Extra(job[w], p) <= supply[p]
      BY <1>3 DEF StockInv, Balanced, Held, HeldIn, UnitsOf
    <2> QED BY <1>2, <2>1, <1>3
  <1> QED BY <1>1, <1>2, <1>3, OneWorkerSteps

(* What the invariant says of one worker's job.                            *)
LEMMA JobOf ==
  ASSUME StockInv, NEW w \in Workers
  PROVE  job[w] \in Jobs /\ Formed(job[w]) /\ (~overlapped => Fits(job[w]))
  BY DEF StockInv

(* The jobs an operation begins with.                                      *)
LEMMA FirstJobs ==
  /\ Idle \in Jobs /\ Formed(Idle) /\ Fits(Idle) /\ \A p : Extra(Idle, p) = 0
  /\ NoReservation \in Reservation /\ NoReservation.status = "none"
  /\ NoItems \in [Products -> 0..MaxUnits] /\ \A p \in Products : NoItems[p] = 0
  /\ Idle.step = "next" /\ Idle.todo = {}
  BY DEF Idle, Jobs, Formed, Fits, Read, Extra, NoReservation, NoItems, Reservation, Kinds,
         Adjusting

(* The documents of an operation that only reads are what they were.       *)
LEMMA Reads ==
  ASSUME StockInv, NEW w \in Workers, NEW p \in Products, Busy(w),
         job[w].kind \in {"reserve", "release"}, job[w].step = "next", p \in job[w].todo,
         NEW step \in {"take", "return"}, step = "return" <=> job[w].kind = "release",
         NEW units \in 0..MaxUnits, step = "return" => units = job[w].res.items[p],
         NEW j, job' = [job EXCEPT ![w] = j],
         \/ /\ j = [job[w] EXCEPT !.todo = @ \ {p}, !.step = step, !.product = p,
                                  !.read = stock[p], !.units = units]
            /\ step = "take" => units <= stock[p]
         \/ j = [job[w] EXCEPT !.todo = @ \ {p}],
         UNCHANGED <<stock, reservation, expired, announced, supply, adjusts, overlapped, crashes>>
  PROVE  StockInv'
  <1>1. job[w] \in Jobs /\ Formed(job[w]) /\ (~overlapped => Fits(job[w]))
    BY JobOf
  <1>3. /\ stock[p] \in Nat
        /\ \A q \in Products : stock[q] \in Nat /\ HeldIn(reservation, q) \in Nat
                              /\ supply[q] \in Int
    BY HeldTyped DEF StockInv, DataTypeOK
  <1>4. /\ j \in Jobs /\ j.kind = job[w].kind /\ j.order = job[w].order /\ j.res = job[w].res
        /\ j.todo = job[w].todo \ {p}
        /\ \/ /\ j.step = step /\ j.product = p /\ j.read = stock[p]
              /\ j.units = units /\ (step = "take" => units <= stock[p])
           \/ j.step = "next"
    BY <1>1, <1>3 DEF Jobs
  <1>5. Formed(j)
    BY <1>1, <1>4 DEF Formed, Adjusting
  <1>6. DataTypeOK'
    BY DEF StockInv, DataTypeOK
  <1>7. ASSUME ~overlapped
        PROVE  OrdersConsistent' /\ Fits(j)'
    BY <1>1, <1>4, <1>7 DEF Fits, Read, StockInv, OrdersConsistent, Decidable
  <1>8. ASSUME ~overlapped, NEW q \in Products,
               stock[q] + HeldIn(reservation, q) + Extra(job[w], q) <= supply[q]
        PROVE  stock'[q] + HeldIn(reservation', q) + Extra(j, q) <= supply'[q]
    <2>1. job[w].res.items[q] \in Nat
      BY <1>1 DEF Jobs, Reservation
    <2>2. Extra(j, q) <= Extra(job[w], q) /\ Extra(j, q) \in Int /\ Extra(job[w], q) \in Int
      BY <1>1, <1>4, <2>1 DEF Extra
    <2> QED BY <1>3, <1>8, <2>2
  <1> QED BY <1>4, <1>5, <1>6, <1>7, <1>8, Continuing

(* An operation that ends leaves an idle worker.                           *)
LEMMA Ending ==
  ASSUME StockInv, NEW w \in Workers, Busy(w), End(w), DataTypeOK',
         UNCHANGED <<adjusts, overlapped, crashes>>, ~overlapped => OrdersConsistent',
         ~overlapped =>
           \A p \in Products :
             stock[p] + HeldIn(reservation, p) + Extra(job[w], p) <= supply[p]
             => stock'[p] + HeldIn(reservation', p) <= supply'[p]
  PROVE  StockInv'
  <1>1. PICK j : j = Idle
    OBVIOUS
  <1>2. j \in Jobs /\ Formed(j) /\ \A p : Extra(j, p) = 0
    BY <1>1, FirstJobs
  <1>3. Fits(j)'
    BY <1>1 DEF Fits, Read, Idle
  <1>4. ASSUME NEW p \in Products
        PROVE  stock'[p] + HeldIn(reservation', p) + Extra(j, p)
                 = stock'[p] + HeldIn(reservation', p)
    <2>1. stock'[p] \in Int /\ HeldIn(reservation', p) \in Int
      BY HeldTyped DEF DataTypeOK
    <2>2. Extra(j, p) = 0
      BY <1>2
    <2> QED BY <2>1, <2>2
  <1>5. job' = [job EXCEPT ![w] = j]
    BY <1>1 DEF End
  <1> QED BY <1>2, <1>3, <1>4, <1>5, Continuing

---------------------------------------------------------------------------
(* The operations. *)

(* The steps of ReserveStock keep the invariant.                           *)
LEMMA ReserveKeeps ==
  ASSUME StockInv, NEW w \in Workers, Reserve(w)
  PROVE  StockInv'
  <1>1. ASSUME NEW o \in OrderIds, BeginReserve(w, o)
        PROVE  StockInv'
    <2>1. PICK j : j = [Idle EXCEPT !.kind = "reserve", !.order = o,
                                    !.todo = Items(Wanted[o]),
                                    !.res = [status |-> "open", items |-> NoItems]]
      OBVIOUS
    <2>2. /\ j \in Jobs /\ j.kind = "reserve" /\ j.step = "next" /\ j.order = o
          /\ j.res.status = "open" /\ j.res.items = NoItems
      BY <2>1, FirstJobs DEF Jobs, Kinds, Items, Reservation
    <2>4. Formed(j) /\ Fits(j) /\ \A p \in Products : Extra(j, p) = 0
      BY <2>2, FirstJobs DEF Formed, Fits, Read, Extra, Adjusting
    <2>3. Start(w, j) /\ adjusts' \in Nat
          /\ UNCHANGED <<stock, reservation, expired, announced, supply, crashes>>
      BY <1>1, <2>1 DEF BeginReserve, StockInv, StockBounds
    <2> QED BY <2>2, <2>3, <2>4, Starting
  <1>2. ASSUME NEW p \in Products, ReadItem(w, p)
        PROVE  StockInv'
    <2>1. job[w] \in Jobs /\ Formed(job[w])
      BY JobOf
    <2>2. PICK units : units = Wanted[job[w].order][p]
      OBVIOUS
    <2>3. /\ job[w].kind = "reserve" /\ job[w].step = "next" /\ p \in job[w].todo
          /\ job' = [job EXCEPT ![w] = Reading(w, p, "take", units, Covers(p, units))]
          /\ UNCHANGED <<stock, reservation, expired, announced, supply, adjusts, overlapped, crashes>>
      BY <1>2, <2>2 DEF ReadItem, At
    <2>4. units \in 0..MaxUnits /\ Busy(w)
      BY <2>1, <2>2, <2>3 DEF Formed, Busy
    <2>5. PICK j : j = Reading(w, p, "take", units, Covers(p, units))
      OBVIOUS
    <2>6. \/ /\ j = [job[w] EXCEPT !.todo = @ \ {p}, !.step = "take", !.product = p,
                                  !.read = stock[p], !.units = units]
             /\ units <= stock[p]
          \/ j = [job[w] EXCEPT !.todo = @ \ {p}]
      BY <2>4, <2>5 DEF Reading, Covers, StockInv, DataTypeOK
    <2>7. job' = [job EXCEPT ![w] = j]
      BY <2>3, <2>5
    <2> QED BY <2>3, <2>4, <2>6, <2>7, Reads
  <1>3. CASE TakeItem(w)
    <2>1. job[w] \in Jobs /\ Formed(job[w]) /\ (~overlapped => Fits(job[w]))
      BY JobOf
    <2>2. PICK p, c : p = job[w].product /\ c = job[w].units
      OBVIOUS
    <2>3. PICK j : j = [Written(w) EXCEPT !.res.items[p] = c]
      OBVIOUS
    <2>4. /\ p \in Products /\ job[w].read \in Nat /\ c \in 0..MaxUnits /\ c <= job[w].read
          /\ job[w].kind = "reserve" /\ job[w].step = "take" /\ Busy(w)
      BY <1>3, <2>1, <2>2 DEF TakeItem, At, Formed, Jobs, Busy
    <2>5. /\ j \in Jobs /\ j.kind = "reserve" /\ j.order = job[w].order /\ j.step = "next"
          /\ j.res.status = job[w].res.status
          /\ j.res.items = [job[w].res.items EXCEPT ![p] = c]
      <3>1. PICK x : x = Written(w)
        OBVIOUS
      <3>2. /\ x \in Jobs /\ x.kind = "reserve" /\ x.order = job[w].order /\ x.step = "next"
            /\ x.res = job[w].res
        BY <2>1, <2>4, <3>1, 0 \in 0..MaxUnits DEF Written, Jobs
      <3>3. j = [x EXCEPT !.res.items[p] = c] /\ x.res \in Reservation
        BY <2>3, <3>1, <3>2 DEF Jobs
      <3> QED BY <2>4, <3>2, <3>3 DEF Jobs, Reservation
    <2>6. Formed(j)
      BY <2>1, <2>4, <2>5 DEF Formed, Adjusting
    <2>7. /\ job' = [job EXCEPT ![w] = j]
          /\ stock' = [stock EXCEPT ![p] = job[w].read - c]
          /\ UNCHANGED <<reservation, expired, announced, supply, adjusts, overlapped, crashes>>
      BY <1>3, <2>2, <2>3 DEF TakeItem
    <2>8. DataTypeOK'
      <3>1. job[w].read - c \in Nat
        BY <2>4
      <3> QED BY <2>4, <2>7, <3>1 DEF StockInv, DataTypeOK
    <2>9. ASSUME ~overlapped
          PROVE  OrdersConsistent' /\ Fits(j)'
      <3>1. OrdersConsistent'
        BY <2>7, <2>9 DEF StockInv, OrdersConsistent, Decidable
      <3>2. j.kind = "reserve" /\ j.step = "next" /\ j.res.status = "open"
        BY <2>1, <2>4, <2>5, <2>9 DEF Fits
      <3>3. Fits(j)'
        BY <3>2 DEF Fits, Read
      <3> QED BY <3>1, <3>3
    <2>10. ASSUME ~overlapped, NEW q \in Products,
                  stock[q] + HeldIn(reservation, q) + Extra(job[w], q) <= supply[q]
           PROVE  stock'[q] + HeldIn(reservation', q) + Extra(j, q) <= supply'[q]
      <3>1. stock[q] \in Nat /\ HeldIn(reservation, q) \in Nat /\ supply[q] \in Int
        BY HeldTyped DEF StockInv, DataTypeOK
      <3>2. CASE q = p
        <4>1. stock[q] = job[w].read
          BY <2>1, <2>2, <2>4, <2>10, <3>2 DEF Fits, Read
        <4>2. stock'[q] = stock[q] - c
          BY <2>4, <2>7, <3>2, <4>1 DEF StockInv, DataTypeOK
        <4>3. job[w].res.items[q] \in Nat /\ j.res.items[q] = c
          BY <2>1, <2>4, <2>5, <3>2 DEF Jobs, Reservation
        <4>4. Extra(j, q) = c /\ Extra(job[w], q) \in Nat
          BY <2>4, <2>5, <4>3 DEF Extra
        <4> QED BY <2>4, <2>7, <2>10, <3>1, <4>2, <4>4
      <3>3. CASE q # p
        <4>1. j.res.items[q] = job[w].res.items[q]
          BY <2>1, <2>5, <3>3 DEF Jobs, Reservation
        <4>2. stock'[q] = stock[q] /\ Extra(j, q) = Extra(job[w], q)
          BY <2>4, <2>5, <2>7, <3>3, <4>1 DEF Extra, StockInv, DataTypeOK
        <4> QED BY <2>7, <2>10, <4>2
      <3> QED BY <3>2, <3>3
    <2> QED BY <2>4, <2>5, <2>6, <2>7, <2>8, <2>9, <2>10, Continuing
  <1>4. CASE InsertReservation(w)
    <2>1. job[w] \in Jobs /\ Formed(job[w]) /\ (~overlapped => Fits(job[w]))
      BY JobOf
    <2>2. PICK o : o = job[w].order
      OBVIOUS
    <2>3. /\ o \in OrderIds /\ Busy(w) /\ End(w) /\ job[w].kind = "reserve"
          /\ UNCHANGED <<stock, expired, announced, supply, adjusts, overlapped, crashes>>
          /\ \/ /\ reservation[o].status = "none"
                /\ reservation' = [reservation EXCEPT ![o] = job[w].res]
             \/ UNCHANGED reservation
      BY <1>4, <2>1, <2>2 DEF InsertReservation, At, Formed, Busy
    <2>4. DataTypeOK'
      BY <2>1, <2>3 DEF StockInv, DataTypeOK, Jobs
    <2>5. ASSUME ~overlapped
          PROVE  OrdersConsistent'
      BY <2>1, <2>3, <2>5 DEF Fits, Read, StockInv, DataTypeOK, OrdersConsistent, Decidable
    <2>6. ASSUME ~overlapped, NEW q \in Products,
                 stock[q] + HeldIn(reservation, q) + Extra(job[w], q) <= supply[q]
          PROVE  stock'[q] + HeldIn(reservation', q) <= supply'[q]
      <3>1. stock[q] \in Nat /\ HeldIn(reservation, q) \in Nat /\ supply[q] \in Int
        BY HeldTyped DEF StockInv, DataTypeOK
      <3>2. CASE UNCHANGED reservation
        <4>1. Extra(job[w], q) \in Nat
          BY <2>1, <2>3 DEF Extra, Jobs, Reservation
        <4> QED BY <2>3, <2>6, <3>1, <3>2, <4>1
      <3>3. CASE /\ reservation[o].status = "none"
                 /\ reservation' = [reservation EXCEPT ![o] = job[w].res]
        <4>0. reservation \in [OrderIds -> Reservation] /\ job[w].res \in Reservation
          BY <2>1 DEF StockInv, DataTypeOK, Jobs
        <4>1. HeldIn([reservation EXCEPT ![o] = job[w].res], q)
                = HeldIn(reservation, q) - Unit(reservation[o], q) + Unit(job[w].res, q)
          BY <2>3, <4>0, HeldChanges
        <4>2. Unit(reservation[o], q) = 0
          BY <3>3 DEF Unit
        <4>3. Extra(job[w], q) = Unit(job[w].res, q) /\ Unit(job[w].res, q) \in Nat
          BY <2>1, <2>3, <2>6, <4>0 DEF Extra, Unit, Fits, Read, Reservation
        <4> QED BY <2>3, <2>6, <3>1, <3>3, <4>1, <4>2, <4>3
      <3> QED BY <2>3, <3>2, <3>3
    <2> QED BY <2>3, <2>4, <2>5, <2>6, Ending
  <1> QED BY <1>1, <1>2, <1>3, <1>4 DEF Reserve

(* The steps of CommitStockReservationConsumer keep the invariant.         *)
LEMMA CommitKeeps ==
  ASSUME StockInv, NEW w \in Workers, CommitReservation(w)
  PROVE  StockInv'
  <1>1. ASSUME NEW o \in OrderIds, BeginCommit(w, o)
        PROVE  StockInv'
    <2>1. PICK j : j = [Idle EXCEPT !.kind = "commit", !.order = o, !.res = reservation[o]]
      OBVIOUS
    <2>2. reservation[o] \in Reservation /\ reservation[o].status = "open" /\ Decidable(o)
      BY <1>1 DEF BeginCommit, Decidable, StockInv, DataTypeOK
    <2>3. /\ j \in Jobs /\ j.kind = "commit" /\ j.step = "next" /\ j.order = o
          /\ j.res = reservation[o]
      BY <2>1, <2>2, FirstJobs DEF Jobs, Kinds
    <2>4. Formed(j) /\ \A p \in Products : Extra(j, p) = 0
      BY <2>2, <2>3 DEF Formed, Extra, Adjusting
    <2>5. ASSUME ~overlapped
          PROVE  Fits(j)
      BY <2>2, <2>3, <2>5 DEF Fits, Read, StockInv, OrdersConsistent
    <2>6. Start(w, j) /\ adjusts' \in Nat
          /\ UNCHANGED <<stock, reservation, expired, announced, supply, crashes>>
      BY <1>1, <2>1 DEF BeginCommit, StockInv, StockBounds
    <2> QED BY <2>3, <2>4, <2>5, <2>6, Starting
  <1>2. ASSUME NEW o \in OrderIds, RefuseCommit(w, o)
        PROVE  StockInv'
    <2>1. /\ reservation[o].status \notin {"none", "committed"} /\ ~Decidable(o)
          /\ ~Busy(w) /\ announced' = [announced EXCEPT ![o] = @ \cup {"failed"}]
          /\ overlapped' = (overlapped \/ \E v \in Workers : Busy(v))
          /\ UNCHANGED <<stock, reservation, expired, job, supply, adjusts, crashes>>
      BY <1>2 DEF RefuseCommit, Placed, Publish
    <2>2. PICK j : j = job[w]
      OBVIOUS
    <2>3. j \in Jobs /\ Formed(j) /\ j.kind = "none" /\ job' = [job EXCEPT ![w] = j]
      BY <2>1, <2>2 DEF StockInv, Busy
    <2>4. DataTypeOK' /\ StockBounds'
      BY <2>1 DEF StockInv, DataTypeOK, StockBounds
    <2>5. ASSUME ~overlapped'
          PROVE  ~overlapped /\ \A v \in Workers : ~Busy(v)
      BY <2>1, <2>5
    <2>6. ASSUME ~overlapped'
          PROVE  OrdersConsistent' /\ Fits(j)'
      <3>1. OrdersConsistent
        BY <2>5, <2>6 DEF StockInv
      <3>2. OrdersConsistent'
        BY <2>1, <3>1 DEF OrdersConsistent, Decidable, StockInv, DataTypeOK
      <3>3. Fits(j)'
        BY <2>3 DEF Fits, Read
      <3> QED BY <3>2, <3>3
    <2>7. ASSUME ~overlapped', crashes' = 0, NEW p \in Products
          PROVE  stock'[p] + HeldIn(reservation', p) + Extra(j, p) <= supply'[p]
      <3>1. stock[p] + HeldIn(reservation, p) <= supply[p]
        BY <2>1, <2>5, <2>7 DEF StockInv, Balanced, Held, HeldIn, UnitsOf, Quiet
      <3>2. stock[p] \in Nat /\ HeldIn(reservation, p) \in Nat
        BY HeldTyped DEF StockInv, DataTypeOK
      <3>3. Extra(j, p) = 0
        BY <2>3 DEF Extra
      <3> QED BY <2>1, <3>1, <3>2, <3>3
    <2> QED BY <2>3, <2>4, <2>5, <2>6, <2>7, OneWorkerSteps
  <1>3. CASE WriteCommit(w)
    <2>1. job[w] \in Jobs /\ Formed(job[w]) /\ (~overlapped => Fits(job[w]))
      BY JobOf
    <2>2. PICK o, j, n : /\ o = job[w].order /\ n = [job[w].res EXCEPT !.status = "committed"]
                         /\ j = [job[w] EXCEPT !.step = "publish", !.res = NoReservation]
      OBVIOUS
    <2>3. /\ o \in OrderIds /\ Busy(w) /\ job[w].kind = "commit" /\ job[w].step = "next"
          /\ reservation' = [reservation EXCEPT ![o] = n]
          /\ UNCHANGED <<stock, expired, announced, supply, adjusts, overlapped, crashes>>
      BY <1>3, <2>1, <2>2 DEF WriteCommit, At, Formed, Busy
    <2>4. /\ n \in Reservation /\ n.status = "committed" /\ n.items = job[w].res.items
          /\ job[w].res.status = "open"
      BY <2>1, <2>2, <2>3 DEF Jobs, Reservation, Formed
    <2>5. /\ j \in Jobs /\ j.kind = "commit" /\ j.step = "publish" /\ j.order = o
      BY <2>1, <2>2, <2>3, FirstJobs DEF Jobs
    <2>6. Formed(j)
      BY <2>3, <2>5 DEF Formed, Adjusting
    <2>7. job' = [job EXCEPT ![w] = j]
      <3>1. job' = [job EXCEPT ![w] = [job[w] EXCEPT !.step = "publish", !.res = NoReservation]]
        BY <1>3, <2>1 DEF WriteCommit, Decided, StockInv, Jobs
      <3> QED BY <2>2, <3>1
    <2>8. DataTypeOK'
      BY <2>3, <2>4 DEF StockInv, DataTypeOK
    <2>9. ASSUME ~overlapped
          PROVE  reservation[o] = job[w].res /\ announced[o] = {}
      BY <2>1, <2>2, <2>3, <2>9 DEF Fits
    <2>10. ASSUME ~overlapped
           PROVE  OrdersConsistent' /\ Fits(j)'
      <3>1. reservation'[o] = n /\ \A q \in OrderIds : q # o => reservation'[q] = reservation[q]
        BY <2>3 DEF StockInv, DataTypeOK
      <3>2. OrdersConsistent'
        BY <2>3, <2>4, <2>9, <2>10, <3>1 DEF StockInv, OrdersConsistent, Decidable
      <3>3. Fits(j)'
        BY <2>4, <2>5, <3>1 DEF Fits, Read
      <3> QED BY <3>2, <3>3
    <2>11. ASSUME ~overlapped, NEW q \in Products,
                  stock[q] + HeldIn(reservation, q) + Extra(job[w], q) <= supply[q]
           PROVE  stock'[q] + HeldIn(reservation', q) + Extra(j, q) <= supply'[q]
      <3>1. reservation \in [OrderIds -> Reservation]
        BY DEF StockInv, DataTypeOK
      <3>2. /\ HeldIn([reservation EXCEPT ![o] = n], q)
                 = HeldIn(reservation, q) - Unit(reservation[o], q) + Unit(n, q)
            /\ HeldIn(reservation, q) \in Int
        BY <2>3, <2>4, <3>1, HeldChanges
      <3>3. Unit(reservation[o], q) = Unit(n, q) /\ Unit(n, q) \in Nat
        BY <2>4, <2>9, <2>11 DEF Unit, Reservation
      <3>4. Extra(j, q) = 0 /\ Extra(job[w], q) = 0
        BY <2>3, <2>5 DEF Extra
      <3> QED BY <2>3, <2>11, <3>2, <3>3, <3>4
    <2> QED BY <2>3, <2>5, <2>6, <2>7, <2>8, <2>10, <2>11, Continuing
  <1>4. CASE PublishCommit(w)
    <2>1. job[w] \in Jobs /\ Formed(job[w]) /\ (~overlapped => Fits(job[w]))
      BY JobOf
    <2>2. PICK o : o = job[w].order
      OBVIOUS
    <2>3. /\ o \in OrderIds /\ Busy(w) /\ End(w) /\ job[w].kind = "commit"
          /\ job[w].step = "publish"
          /\ announced' = [announced EXCEPT ![o] = @ \cup {"committed"}]
          /\ UNCHANGED <<stock, reservation, expired, supply, adjusts, overlapped, crashes>>
      BY <1>4, <2>1, <2>2 DEF PublishCommit, Publish, At, Formed, Busy
    <2>4. DataTypeOK'
      BY <2>3 DEF StockInv, DataTypeOK
    <2>5. ASSUME ~overlapped
          PROVE  OrdersConsistent'
      <3>1. reservation[o].status = "committed" /\ OrdersConsistent
        BY <2>1, <2>2, <2>3, <2>5 DEF Fits, StockInv
      <3> QED BY <2>3, <3>1 DEF OrdersConsistent, Decidable, StockInv, DataTypeOK
    <2>6. ASSUME NEW q \in Products
          PROVE  /\ Extra(job[w], q) = 0 /\ HeldIn(reservation, q) \in Nat
                 /\ stock[q] \in Nat
      BY <2>3, HeldTyped DEF Extra, StockInv, DataTypeOK
    <2> QED BY <2>3, <2>4, <2>5, <2>6, Ending
  <1> QED BY <1>1, <1>2, <1>3, <1>4 DEF CommitReservation

(* The steps of ReleaseStockReservationConsumer keep the invariant.        *)
LEMMA ReleaseKeeps ==
  ASSUME StockInv, NEW w \in Workers, ReleaseReservation(w)
  PROVE  StockInv'
  <1>1. ASSUME NEW o \in OrderIds, BeginRelease(w, o)
        PROVE  StockInv'
    <2>1. PICK j : j = [Idle EXCEPT !.kind = "release", !.order = o, !.res = reservation[o],
                                    !.todo = Items(reservation[o].items)]
      OBVIOUS
    <2>2. reservation[o] \in Reservation /\ reservation[o].status = "open"
      BY <1>1 DEF BeginRelease, Decidable, StockInv, DataTypeOK
    <2>3. /\ j \in Jobs /\ j.kind = "release" /\ j.step = "next" /\ j.order = o
          /\ j.res = reservation[o] /\ j.todo = Items(reservation[o].items)
      BY <2>1, <2>2, FirstJobs DEF Jobs, Kinds, Items
    <2>4. Formed(j) /\ Fits(j) /\ \A p \in Products : Extra(j, p) = 0
      <3>1. \A p \in Products \ j.todo : j.res.items[p] = 0
        BY <2>2, <2>3 DEF Items, Reservation
      <3> QED BY <2>2, <2>3, <3>1 DEF Formed, Fits, Read, Extra, Adjusting
    <2>5. Start(w, j) /\ adjusts' \in Nat
          /\ UNCHANGED <<stock, reservation, expired, announced, supply, crashes>>
      BY <1>1, <2>1 DEF BeginRelease, StockInv, StockBounds
    <2> QED BY <2>3, <2>4, <2>5, Starting
  <1>2. ASSUME NEW p \in Products, ReadReturned(w, p)
        PROVE  StockInv'
    <2>1. job[w] \in Jobs
      BY JobOf
    <2>2. PICK units : units = job[w].res.items[p]
      OBVIOUS
    <2>3. PICK j : j = Reading(w, p, "return", units, Found(p))
      OBVIOUS
    <2>4. /\ job[w].kind = "release" /\ job[w].step = "next" /\ p \in job[w].todo
          /\ job' = [job EXCEPT ![w] = j]
          /\ UNCHANGED <<stock, reservation, expired, announced, supply, adjusts, overlapped, crashes>>
      BY <1>2, <2>2, <2>3 DEF ReadReturned, At
    <2>5. units \in 0..MaxUnits /\ Busy(w)
      BY <2>1, <2>2, <2>4 DEF Jobs, Reservation, Busy
    <2>6. \/ j = [job[w] EXCEPT !.todo = @ \ {p}, !.step = "return", !.product = p,
                               !.read = stock[p], !.units = units]
          \/ j = [job[w] EXCEPT !.todo = @ \ {p}]
      BY <2>3 DEF Reading
    <2> QED BY <2>2, <2>4, <2>5, <2>6, Reads
  <1>3. CASE ReturnItem(w)
    <2>1. job[w] \in Jobs /\ Formed(job[w]) /\ (~overlapped => Fits(job[w]))
      BY JobOf
    <2>2. PICK p, c, j : p = job[w].product /\ c = job[w].units /\ j = Written(w)
      OBVIOUS
    <2>3. /\ p \in Products /\ job[w].kind = "release" /\ job[w].step = "return" /\ Busy(w)
          /\ job[w].read \in Nat /\ c \in Nat
      BY <1>3, <2>1, <2>2 DEF ReturnItem, At, Formed, Jobs, Busy
    <2>4. /\ j \in Jobs /\ j.kind = "release" /\ j.order = job[w].order /\ j.step = "next"
          /\ j.res = job[w].res /\ j.todo = job[w].todo
      BY <2>1, <2>2, <2>3, 0 \in 0..MaxUnits DEF Written, Jobs
    <2>5. Formed(j)
      BY <2>1, <2>3, <2>4 DEF Formed, Adjusting
    <2>6. /\ job' = [job EXCEPT ![w] = j]
          /\ stock' = [stock EXCEPT ![p] = job[w].read + c]
          /\ UNCHANGED <<reservation, expired, announced, supply, adjusts, overlapped, crashes>>
      BY <1>3, <2>2 DEF ReturnItem
    <2>7. DataTypeOK'
      BY <2>3, <2>6 DEF StockInv, DataTypeOK
    <2>8. ASSUME ~overlapped
          PROVE  /\ OrdersConsistent' /\ Fits(j)'
                 /\ job[w].read = stock[p] /\ p \notin job[w].todo
                 /\ c = job[w].res.items[p]
      <3>1. OrdersConsistent'
        BY <2>6, <2>8 DEF StockInv, OrdersConsistent, Decidable
      <3>2. /\ job[w].read = stock[p] /\ p \notin job[w].todo
            /\ c = job[w].res.items[p] /\ reservation[job[w].order] = job[w].res
        BY <2>1, <2>2, <2>3, <2>8 DEF Fits, Read
      <3>3. Fits(j)'
        BY <2>4, <2>6, <3>2 DEF Fits, Read
      <3> QED BY <3>1, <3>2, <3>3
    <2>9. ASSUME ~overlapped, NEW q \in Products,
                 stock[q] + HeldIn(reservation, q) + Extra(job[w], q) <= supply[q]
          PROVE  stock'[q] + HeldIn(reservation', q) + Extra(j, q) <= supply'[q]
      <3>1. stock[q] \in Nat /\ HeldIn(reservation, q) \in Nat /\ supply[q] \in Int
        BY HeldTyped DEF StockInv, DataTypeOK
      <3>2. CASE q = p
        <4>1. stock'[q] = stock[q] + c
          BY <2>3, <2>6, <2>8, <2>9, <3>2 DEF StockInv, DataTypeOK
        <4>2. Extra(j, q) = 0 - c /\ Extra(job[w], q) = 0
          BY <2>2, <2>3, <2>4, <2>8, <2>9, <3>2 DEF Extra
        <4> QED BY <2>3, <2>6, <2>9, <3>1, <4>1, <4>2
      <3>3. CASE q # p
        <4>1. stock'[q] = stock[q] /\ Extra(j, q) = Extra(job[w], q)
          BY <2>2, <2>3, <2>4, <2>6, <3>3 DEF Extra, StockInv, DataTypeOK
        <4> QED BY <2>6, <2>9, <4>1
      <3> QED BY <3>2, <3>3
    <2> QED BY <2>3, <2>4, <2>5, <2>6, <2>7, <2>8, <2>9, Continuing
  <1>4. CASE WriteRelease(w)
    <2>1. job[w] \in Jobs /\ Formed(job[w]) /\ (~overlapped => Fits(job[w]))
      BY JobOf
    <2>2. PICK o, j, n : /\ o = job[w].order /\ n = [job[w].res EXCEPT !.status = "released"]
                         /\ j = [job[w] EXCEPT !.step = "publish", !.res = NoReservation]
      OBVIOUS
    <2>3. /\ o \in OrderIds /\ Busy(w) /\ job[w].kind = "release" /\ job[w].step = "next"
          /\ job[w].todo = {} /\ reservation' = [reservation EXCEPT ![o] = n]
          /\ UNCHANGED <<stock, expired, announced, supply, adjusts, overlapped, crashes>>
      BY <1>4, <2>1, <2>2 DEF WriteRelease, At, Formed, Busy
    <2>4. n \in Reservation /\ n.status = "released" /\ job[w].res.status = "open"
      BY <2>1, <2>2, <2>3 DEF Jobs, Reservation, Formed
    <2>5. j \in Jobs /\ j.kind = "release" /\ j.step = "publish" /\ j.order = o
      BY <2>1, <2>2, <2>3, FirstJobs DEF Jobs
    <2>6. Formed(j)
      BY <2>3, <2>5 DEF Formed, Adjusting
    <2>7. job' = [job EXCEPT ![w] = j]
      <3>1. job' = [job EXCEPT ![w] = [job[w] EXCEPT !.step = "publish", !.res = NoReservation]]
        BY <1>4, <2>1 DEF WriteRelease, Decided, StockInv, Jobs
      <3> QED BY <2>2, <3>1
    <2>8. DataTypeOK'
      BY <2>3, <2>4 DEF StockInv, DataTypeOK
    <2>9. ASSUME ~overlapped
          PROVE  reservation[o] = job[w].res /\ OrdersConsistent
      BY <2>1, <2>2, <2>3, <2>9 DEF Fits, StockInv
    <2>10. ASSUME ~overlapped
           PROVE  OrdersConsistent' /\ Fits(j)'
      <3>1. reservation'[o] = n /\ \A q \in OrderIds : q # o => reservation'[q] = reservation[q]
        BY <2>3 DEF StockInv, DataTypeOK
      <3>2. OrdersConsistent'
        BY <2>3, <2>4, <2>9, <2>10, <3>1 DEF OrdersConsistent, Decidable
      <3>3. Fits(j)'
        BY <2>4, <2>5, <3>1 DEF Fits, Read
      <3> QED BY <3>2, <3>3
    <2>11. ASSUME ~overlapped, NEW q \in Products,
                  stock[q] + HeldIn(reservation, q) + Extra(job[w], q) <= supply[q]
           PROVE  stock'[q] + HeldIn(reservation', q) + Extra(j, q) <= supply'[q]
      <3>1. reservation \in [OrderIds -> Reservation] /\ stock[q] \in Nat /\ supply[q] \in Int
        BY DEF StockInv, DataTypeOK
      <3>2. /\ HeldIn([reservation EXCEPT ![o] = n], q)
                 = HeldIn(reservation, q) - Unit(reservation[o], q) + Unit(n, q)
            /\ HeldIn(reservation, q) \in Int
        BY <2>3, <2>4, <3>1, HeldChanges
      <3>3. Unit(n, q) = 0
        BY <2>4 DEF Unit
      <3>4. Extra(j, q) = 0
        BY <2>5 DEF Extra
      <3>5. Extra(job[w], q) = 0 - Unit(reservation[o], q) /\ Unit(reservation[o], q) \in Nat
        BY <2>3, <2>4, <2>9, <2>11, <3>1 DEF Extra, Unit, Reservation
      <3> QED BY <2>3, <2>11, <3>1, <3>2, <3>3, <3>4, <3>5
    <2> QED BY <2>3, <2>5, <2>6, <2>7, <2>8, <2>10, <2>11, Continuing
  <1>5. CASE PublishRelease(w)
    <2>1. job[w] \in Jobs /\ Formed(job[w]) /\ (~overlapped => Fits(job[w]))
      BY JobOf
    <2>2. PICK o : o = job[w].order
      OBVIOUS
    <2>3. /\ o \in OrderIds /\ Busy(w) /\ End(w) /\ job[w].kind = "release"
          /\ job[w].step = "publish"
          /\ announced' = [announced EXCEPT ![o] = @ \cup {"released"}]
          /\ UNCHANGED <<stock, reservation, expired, supply, adjusts, overlapped, crashes>>
      BY <1>5, <2>1, <2>2 DEF PublishRelease, Publish, At, Formed, Busy
    <2>4. DataTypeOK'
      BY <2>3 DEF StockInv, DataTypeOK
    <2>5. ASSUME ~overlapped
          PROVE  OrdersConsistent'
      <3>1. reservation[o].status = "released" /\ OrdersConsistent
        BY <2>1, <2>2, <2>3, <2>5 DEF Fits, StockInv
      <3> QED BY <2>3, <3>1 DEF OrdersConsistent, Decidable, StockInv, DataTypeOK
    <2>6. ASSUME NEW q \in Products
          PROVE  /\ Extra(job[w], q) = 0 /\ HeldIn(reservation, q) \in Nat
                 /\ stock[q] \in Nat
      BY <2>3, HeldTyped DEF Extra, StockInv, DataTypeOK
    <2> QED BY <2>3, <2>4, <2>5, <2>6, Ending
  <1> QED BY <1>1, <1>2, <1>3, <1>4, <1>5 DEF ReleaseReservation

(* The stock API and published products keep the invariant.                *)
LEMMA AdjustKeeps ==
  ASSUME StockInv, NEW w \in Workers, Adjust(w)
  PROVE  StockInv'
  <1>1. ASSUME NEW p \in Products, NEW kind \in {"increase", "decrease"},
               NEW units \in 1..MaxUnits, BeginAdjust(w, kind, p, units)
        PROVE  StockInv'
    <2>1. PICK j : j = [Idle EXCEPT !.kind = kind, !.product = p, !.read = stock[p],
                                    !.units = units]
      OBVIOUS
    <2>2. stock[p] \in Nat /\ (kind = "decrease" => units <= stock[p])
      BY <1>1 DEF BeginAdjust, Covers, StockInv, DataTypeOK
    <2>3. /\ j \in Jobs /\ j.kind = kind /\ j.step = "next" /\ j.product = p
          /\ j.read = stock[p] /\ j.units = units
      <3>1. units \in 0..MaxUnits /\ kind \in Kinds
        BY DEF Kinds
      <3> QED BY <2>1, <2>2, <3>1, FirstJobs DEF Jobs
    <2>4. Formed(j) /\ Fits(j) /\ \A q \in Products : Extra(j, q) = 0
      BY <2>2, <2>3 DEF Formed, Fits, Read, Extra, Adjusting
    <2>5. Start(w, j) /\ adjusts' \in Nat
          /\ UNCHANGED <<stock, reservation, expired, announced, supply, crashes>>
      BY <1>1, <2>1 DEF BeginAdjust, StockInv, StockBounds
    <2> QED BY <2>3, <2>4, <2>5, Starting
  <1>2. ASSUME NEW p \in Products, BeginPublished(w, p)
        PROVE  StockInv'
    <2>1. PICK j : j = [Idle EXCEPT !.kind = "publish", !.product = p]
      OBVIOUS
    <2>2. j \in Jobs /\ Formed(j) /\ Fits(j) /\ \A q \in Products : Extra(j, q) = 0
      BY <2>1, FirstJobs DEF Idle, Jobs, Kinds, Formed, Fits, Read, Extra, Adjusting
    <2>3. Start(w, j) /\ adjusts' \in Nat
          /\ UNCHANGED <<stock, reservation, expired, announced, supply, crashes>>
      BY <1>2, <2>1 DEF BeginPublished, StockInv, StockBounds
    <2> QED BY <2>2, <2>3, Starting
  <1>3. CASE WriteAdjust(w)
    <2>1. job[w] \in Jobs /\ Formed(job[w]) /\ (~overlapped => Fits(job[w]))
      BY JobOf
    <2>2. PICK p, c : /\ p = job[w].product
                      /\ c = IF job[w].kind = "increase" THEN job[w].units ELSE - job[w].units
      OBVIOUS
    <2>3. /\ p \in Products /\ job[w].kind \in {"increase", "decrease"} /\ Busy(w) /\ End(w)
          /\ stock' = [stock EXCEPT ![p] = job[w].read + c]
          /\ supply' = [supply EXCEPT ![p] = @ + c]
          /\ UNCHANGED <<reservation, expired, announced, adjusts, overlapped, crashes>>
      BY <1>3, <2>1, <2>2 DEF WriteAdjust, Formed, Adjusting, Busy
    <2>4. c \in Int /\ job[w].read + c \in Nat
      BY <2>1, <2>2, <2>3 DEF Formed, Jobs
    <2>5. DataTypeOK'
      BY <2>3, <2>4 DEF StockInv, DataTypeOK
    <2>6. ASSUME ~overlapped
          PROVE  OrdersConsistent' /\ job[w].read = stock[p]
      BY <2>1, <2>2, <2>3, <2>6 DEF StockInv, OrdersConsistent, Decidable, Fits, Read
    <2>7. ASSUME ~overlapped, NEW q \in Products,
                 stock[q] + HeldIn(reservation, q) + Extra(job[w], q) <= supply[q]
          PROVE  stock'[q] + HeldIn(reservation', q) <= supply'[q]
      <3>1. stock[q] \in Nat /\ HeldIn(reservation, q) \in Nat /\ supply[q] \in Int
        BY HeldTyped DEF StockInv, DataTypeOK
      <3>2. Extra(job[w], q) = 0
        BY <2>3 DEF Extra
      <3>3. \/ stock'[q] = stock[q] /\ supply'[q] = supply[q]
            \/ stock'[q] = stock[q] + c /\ supply'[q] = supply[q] + c
        BY <2>3, <2>6, <2>7 DEF StockInv, DataTypeOK
      <3> QED BY <2>3, <2>4, <2>7, <3>1, <3>2, <3>3
    <2> QED BY <2>3, <2>5, <2>6, <2>7, Ending
  <1>4. CASE WritePublished(w)
    <2>1. job[w] \in Jobs /\ Formed(job[w])
      BY JobOf
    <2>2. PICK p : p = job[w].product
      OBVIOUS
    <2>3. /\ p \in Products /\ job[w].kind = "publish" /\ Busy(w) /\ End(w)
          /\ stock' = [stock EXCEPT ![p] = 0]
          /\ UNCHANGED <<reservation, expired, announced, supply, adjusts, overlapped, crashes>>
      BY <1>4, <2>1, <2>2 DEF WritePublished, Formed, Adjusting, Busy
    <2>4. DataTypeOK'
      BY <2>3 DEF StockInv, DataTypeOK
    <2>5. ASSUME ~overlapped
          PROVE  OrdersConsistent'
      BY <2>3, <2>5 DEF StockInv, OrdersConsistent, Decidable
    <2>6. ASSUME NEW q \in Products
          PROVE  /\ stock'[q] \in Nat /\ stock[q] \in Nat /\ stock'[q] <= stock[q]
                 /\ HeldIn(reservation, q) \in Nat /\ supply[q] \in Int
                 /\ Extra(job[w], q) = 0
      BY <2>3, HeldTyped DEF Extra, StockInv, DataTypeOK
    <2> QED BY <2>3, <2>4, <2>5, <2>6, Ending
  <1> QED BY <1>1, <1>2, <1>3, <1>4 DEF Adjust

(* A process that stops keeps the invariant: its books are not claimed.    *)
LEMMA CrashKeeps ==
  ASSUME StockInv, NEW w \in Workers, Crash(w)
  PROVE  StockInv'
  <1>1. PICK j : j = Idle
    OBVIOUS
  <1>2. j \in Jobs /\ Formed(j) /\ Fits(j)' /\ job' = [job EXCEPT ![w] = j]
    BY <1>1, FirstJobs DEF Crash, End, Fits, Read, Idle
  <1>3. crashes' = crashes + 1 /\ crashes \in Nat /\ Busy(w)
        /\ UNCHANGED <<stock, reservation, expired, announced, supply, adjusts, overlapped>>
    BY DEF Crash, StockInv, StockBounds
  <1>4. DataTypeOK' /\ StockBounds'
    BY <1>3 DEF StockInv, DataTypeOK, StockBounds
  <1>5. ASSUME ~overlapped'
        PROVE  (\A v \in Workers : v # w => ~Busy(v)) /\ OrdersConsistent'
    BY <1>3, <1>5 DEF StockInv, OrdersConsistent, Decidable
  <1>6. crashes' # 0
    BY <1>3
  <1> QED BY <1>2, <1>4, <1>5, <1>6, OneWorkerSteps

(* An order that expires was undecided or decided, and stays so.           *)
LEMMA ExpireKeeps ==
  ASSUME StockInv, NEW o \in OrderIds, Expire(o)
  PROVE  StockInv'
  <1>1. /\ expired' = expired \cup {o}
        /\ UNCHANGED <<stock, reservation, job, announced, supply, adjusts, overlapped, crashes>>
    BY DEF Expire
  <1>2. DataTypeOK' /\ StockBounds' /\ job' \in [Workers -> Jobs]
        /\ \A w \in Workers : Formed(job[w])'
    BY <1>1 DEF StockInv, DataTypeOK, StockBounds, Formed
  <1>3. ASSUME ~overlapped'
        PROVE  /\ OrdersConsistent' /\ \A w \in Workers : Fits(job[w])'
               /\ \A v, w \in Workers : Busy(v)' /\ Busy(w)' => v = w
    BY <1>1, <1>3 DEF StockInv, OrdersConsistent, Decidable, Fits, Read, Busy
  <1>4. ASSUME ~overlapped', crashes' = 0
        PROVE  Balanced'
    BY <1>1, <1>4 DEF StockInv, Balanced, Quiet, Busy, Held, Extra
  <1> QED BY <1>2, <1>3, <1>4 DEF StockInv

---------------------------------------------------------------------------
(* The theorems. *)

(* The invariant of the stock: jobs have what they need, and operations    *)
(* that do not overlap leave consistent orders and balanced books.         *)
THEOREM StockInvariance == StockSpec => []StockInv
  <1>1. StockInit => StockInv
    <2> SUFFICES ASSUME StockInit
                 PROVE  StockInv
      OBVIOUS
    <2>1. DataTypeOK /\ StockBounds /\ job \in [Workers -> Jobs]
      <3>1. stock \in [Products -> Nat] /\ supply \in [Products -> Int]
        BY DEF StockInit
      <3>2. reservation \in [OrderIds -> Reservation]
        BY FirstJobs DEF StockInit
      <3>3. /\ expired \subseteq OrderIds
            /\ announced \in [OrderIds -> SUBSET {"committed", "failed", "released"}]
        BY DEF StockInit
      <3>4. job \in [Workers -> Jobs]
        BY FirstJobs DEF StockInit
      <3> QED BY <3>1, <3>2, <3>3, <3>4 DEF StockInit, DataTypeOK, StockBounds
    <2>2. \A w \in Workers : /\ job[w] = Idle /\ Formed(job[w]) /\ ~Busy(w)
      BY FirstJobs DEF StockInit, Busy, Idle
    <2>3. OrdersConsistent /\ \A w \in Workers : Fits(job[w])
      BY <2>2 DEF StockInit, OrdersConsistent, NoReservation, Decidable, Fits, Read, Idle
    <2>4. Balanced
      <3>1. ASSUME NEW p \in Products
            PROVE  Held(p) = 0
        <4>1. {u \in OrderIds \X (1..MaxUnits) :
                 /\ reservation[u[1]].status \in {"open", "committed"}
                 /\ u[2] <= reservation[u[1]].items[p]} = {}
          BY DEF StockInit, NoReservation
        <4> QED BY <4>1, FS_EmptySet DEF Held
      <3> QED BY <2>2, <3>1 DEF Balanced, StockInit
    <2> QED BY <2>1, <2>2, <2>3, <2>4 DEF StockInv
  <1>2. StockInv /\ [StockNext]_stockVars => StockInv'
    <2> SUFFICES ASSUME StockInv, [StockNext]_stockVars
                 PROVE  StockInv'
      OBVIOUS
    <2>1. CASE UNCHANGED stockVars
      BY <2>1 DEF stockVars, StockInv, DataTypeOK, StockBounds, Formed, OrdersConsistent,
           Decidable, Fits, Read, Busy, Balanced, Quiet, Held, Extra
    <2> QED BY <2>1, ReserveKeeps, CommitKeeps, ReleaseKeeps, AdjustKeeps, CrashKeeps,
              ExpireKeeps DEF StockNext
  <1> QED BY <1>1, <1>2, PTL DEF StockSpec

(* Quantities never go below zero, reservations and jobs are documents of  *)
(* their kind, however the operations interleave and wherever they stop.   *)
THEOREM StockTypeCorrect == StockSpec => []StockTypeOK
  <1>1. StockInv => StockTypeOK
    BY DEF StockInv, StockTypeOK, DataTypeOK, Jobs
  <1> QED BY <1>1, StockInvariance, PTL

(* Operations that do not overlap and are not cut short never invent       *)
(* units, for any products, orders and repetitions.                        *)
THEOREM UnitsKept == StockSpec => []NoUnitsFromNowhere
  <1>1. StockInv => NoUnitsFromNowhere
    BY DEF StockInv, Balanced, NoUnitsFromNowhere
  <1> QED BY <1>1, StockInvariance, PTL

(* Where operations do not overlap, an order told that its stock is        *)
(* committed is told nothing else, through crashes, repeats and expiry.    *)
THEOREM OneOutcomeOnly == StockSpec => []OneOutcome
  <1>1. StockInv => OneOutcome
    BY DEF StockInv, DataTypeOK, OrdersConsistent, OneOutcome
  <1> QED BY <1>1, StockInvariance, PTL

(* However operations interleave, a decided reservation changes only by an *)
(* operation that read it while it was open.                               *)
THEOREM DecisionsAreFinal == StockSpec => DecisionsStick
  <1>1. StockInv /\ [StockNext]_stockVars =>
          [\A o \in OrderIds :
             /\ reservation[o].status \in {"committed", "released"}
             /\ reservation'[o].status # reservation[o].status
             => \E w \in Workers : /\ job[w].order = o
                                   /\ job[w].res.status = "open"
                                   /\ job[w].kind \in {"commit", "release"}]_reservation
    <2> SUFFICES ASSUME StockInv, StockNext, NEW o \in OrderIds,
                        reservation[o].status \in {"committed", "released"},
                        reservation'[o].status # reservation[o].status
                 PROVE  \E w \in Workers : /\ job[w].order = o
                                           /\ job[w].res.status = "open"
                                           /\ job[w].kind \in {"commit", "release"}
      BY DEF stockVars
    <2>1. reservation \in [OrderIds -> Reservation]
      BY DEF StockInv, DataTypeOK
    <2>2. PICK w \in Workers : InsertReservation(w) \/ WriteCommit(w) \/ WriteRelease(w)
      BY DEF StockNext, Reserve, CommitReservation, ReleaseReservation, Adjust, Crash, Expire,
           BeginReserve, ReadItem, TakeItem, BeginCommit, RefuseCommit, PublishCommit,
           BeginRelease, ReadReturned, ReturnItem, PublishRelease, BeginAdjust, BeginPublished,
           WriteAdjust, WritePublished
    <2>3. Formed(job[w])
      BY JobOf
    <2>4. CASE InsertReservation(w)
      BY <2>1, <2>4 DEF InsertReservation
    <2>5. CASE WriteCommit(w)
      BY <2>1, <2>3, <2>5 DEF WriteCommit, At, Formed
    <2>6. CASE WriteRelease(w)
      BY <2>1, <2>3, <2>6 DEF WriteRelease, At, Formed
    <2> QED BY <2>2, <2>4, <2>5, <2>6
  <1> QED BY <1>1, StockInvariance, PTL DEF StockSpec, DecisionsStick
=============================================================================
