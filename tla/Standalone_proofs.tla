-------------------------- MODULE Standalone_proofs --------------------------
(***************************************************************************)
(* Proofs about four modules that stand alone, for every value of their    *)
(* constants: what the operators of PdMessages compute and that the offer  *)
(* loop of PdoSelection is correct; the frame count of ResamplerFrames;    *)
(* StateMatchesTask of ResamplerSpeaker; and the invariants of Automations *)
(* about the timer ring and the stop word, the DACs and the LED ring.      *)
(***************************************************************************)
EXTENDS PdoSelection, ResamplerFrames, ResamplerSpeaker, Automations, WellFoundedInduction, TLAPS

-----------------------------------------------------------------------------
(* USB-PD messages and PdoSelection.  LoopInv is inductive, and it implies *)
(* the three properties of the loop.                                       *)

(* The least-number principle, from the well-foundedness of < on Nat.      *)
LEMMA LeastNatural ==
  ASSUME NEW T \in SUBSET Nat, T # {}
  PROVE  \E x \in T : \A y \in T : x <= y
<1>1. IsWellFoundedOn(OpToRel(<, Nat), Nat)
  BY NatLessThanWellFounded
<1>2. PICK x \in T : \A y \in T : ~ (<<y, x>> \in OpToRel(<, Nat))
  BY <1>1, WFMin
<1>3. \A y \in T : ~ (y < x)
  BY <1>2, Zenon DEF OpToRel
<1>. QED
  BY <1>3

(* A non-empty set of naturals up to n has the maximum Max chooses.        *)
LEMMA MaxOfBounded ==
  ASSUME NEW n \in Nat, NEW T \in SUBSET (1..n), T # {}
  PROVE  Max(T) \in T /\ \A y \in T : y <= Max(T)
<1>. DEFINE D == {d \in Nat : n - d \in T}
<1>1. D # {}
  <2>1. PICK t \in T : TRUE
    BY Zenon
  <2>2. n - t \in Nat /\ n - (n - t) = t
    BY <2>1
  <2>. QED
    BY <2>1, <2>2, Zenon
<1>2. PICK d \in D : \A y \in D : d <= y
  BY <1>1, LeastNatural, Zenon
<1>3. \A t \in T : n - t \in D
  <2>. TAKE t \in T
  <2>1. n - t \in Nat /\ n - (n - t) = t
    OBVIOUS
  <2>. QED
    BY <2>1
<1>4. n - d \in T /\ \A y \in T : n - d >= y
  BY <1>2, <1>3
<1>5. \E x \in T : \A y \in T : x >= y
  BY <1>4
<1>. QED
  BY <1>5, Zenon DEF Max

(* The ranges of the five fields, and what set_header reads out of h.      *)
FieldRanges(t, s, i, n, x) ==
  /\ t \in Int /\ 0 <= t /\ t < 32 /\ s \in Int /\ 0 <= s /\ s < 4
  /\ i \in Int /\ 0 <= i /\ i < 8 /\ n \in Int /\ 0 <= n /\ n < 8
  /\ x \in Int /\ 0 <= x /\ x < 2

FieldsAre(t, s, i, n, x, h) ==
  /\ (h \div 1) % 32 = t /\ (h \div 64) % 4 = s /\ (h \div 512) % 8 = i
  /\ (h \div 4096) % 8 = n /\ (h \div 32768) % 2 = x

Coded(t, s, i, n, x) == t + s * 64 + i * 512 + n * 4096 + x * 32768

(* The shifts and masks of set_header give back what get_coded_header      *)
(* shifted to its place.                                                   *)
LEMMA HeaderFields ==
  ASSUME NEW t, NEW s, NEW i, NEW n, NEW x, FieldRanges(t, s, i, n, x)
  PROVE  FieldsAre(t, s, i, n, x, Coded(t, s, i, n, x))
<1>. DEFINE h == Coded(t, s, i, n, x)
<1>. USE DEF FieldRanges, Coded
<1>0. h \in Int /\ h \div 1 = h
  OBVIOUS
<1>1. h % 32 = t
  <2>. DEFINE q == 2 * s + 16 * i + 128 * n + 1024 * x
  <2>1. q \in Int /\ h = 32 * q + t
    BY <1>0
  <2>. HIDE DEF q
  <2>. QED
    BY <2>1
<1>2. (h \div 64) % 4 = s
  <2>. DEFINE c == 2 * i + 16 * n + 128 * x
              q == 4 * c + s
              r == t
  <2>1. c \in Int /\ q \in Int /\ r \in Int /\ 0 <= r /\ r < 64 /\ h = 64 * q + r
    BY <1>0
  <2>2. q % 4 = s
    BY <2>1
  <2>3. h \div 64 = q
    <3>. HIDE DEF q, r
    <3>. QED
      BY <2>1
  <2>. QED
    BY <2>2, <2>3
<1>3. (h \div 512) % 8 = i
  <2>. DEFINE c == n + 8 * x
              q == 8 * c + i
              r == t + s * 64
  <2>1. c \in Int /\ q \in Int /\ r \in Int /\ 0 <= r /\ r < 512 /\ h = 512 * q + r
    BY <1>0
  <2>2. q % 8 = i
    BY <2>1
  <2>3. h \div 512 = q
    <3>. HIDE DEF q, r
    <3>. QED
      BY <2>1
  <2>. QED
    BY <2>2, <2>3
<1>4. (h \div 4096) % 8 = n
  <2>. DEFINE c == x
              q == 8 * c + n
              r == t + s * 64 + i * 512
  <2>1. c \in Int /\ q \in Int /\ r \in Int /\ 0 <= r /\ r < 4096 /\ h = 4096 * q + r
    BY <1>0
  <2>2. q % 8 = n
    BY <2>1
  <2>3. h \div 4096 = q
    <3>. HIDE DEF q, r
    <3>. QED
      BY <2>1
  <2>. QED
    BY <2>2, <2>3
<1>5. (h \div 32768) % 2 = x
  <2>. DEFINE c == 0
              q == 2 * c + x
              r == t + s * 64 + i * 512 + n * 4096
  <2>1. c \in Int /\ q \in Int /\ r \in Int /\ 0 <= r /\ r < 32768 /\ h = 32768 * q + r
    BY <1>0
  <2>2. q % 2 = x
    BY <2>1
  <2>3. h \div 32768 = q
    <3>. HIDE DEF q, r
    <3>. QED
      BY <2>1
  <2>. QED
    BY <2>2, <2>3
<1>. QED
  BY <1>0, <1>1, <1>2, <1>3, <1>4, <1>5 DEF FieldsAre

(* A header that is coded for the wire and parsed again is the same: the   *)
(* fields of PDMsg do not overlap and none is cut off.                     *)
THEOREM HeaderRoundTrip ==
  \A m \in MsgHeader : set_header(get_coded_header(m)) = m
<1>. SUFFICES ASSUME NEW m \in MsgHeader
              PROVE  set_header(get_coded_header(m)) = m
  OBVIOUS
<1>. DEFINE h == get_coded_header(m)
<1>1. FieldRanges(m.type, m.spec_rev, m.id, m.num_of_obj, m.extended)
  BY DEF MsgHeader, FieldRanges
<1>2. h = Coded(m.type, m.spec_rev, m.id, m.num_of_obj, m.extended)
  BY DEF get_coded_header, Coded
<1>. HIDE DEF h
<1>3. FieldsAre(m.type, m.spec_rev, m.id, m.num_of_obj, m.extended, h)
  BY <1>1, <1>2, HeaderFields
<1>4. set_header(h) = [type |-> m.type, spec_rev |-> m.spec_rev, id |-> m.id,
                       num_of_obj |-> m.num_of_obj, extended |-> m.extended]
  BY <1>3 DEF set_header, Field, FieldsAre
<1>. QED
  BY <1>4 DEF MsgHeader, h

-----------------------------------------------------------------------------
(* SelectPdo is 255 when the loop assigned nothing, and otherwise the      *)
(* index (from 0) of its last assignment.                                  *)
LEMMA SelectPdoFacts ==
  ASSUME NEW offers, Len(offers) \in Nat, NEW v
  PROVE  /\ Assigned(offers, v) = {} => SelectPdo(offers, v) = NONE_SELECTED
         /\ Assigned(offers, v) # {} =>
              /\ SelectPdo(offers, v) + 1 \in Assigned(offers, v)
              /\ SelectPdo(offers, v) \in 0..(Len(offers) - 1)
              /\ \A n \in Assigned(offers, v) : n <= SelectPdo(offers, v) + 1
<1>. DEFINE A == Assigned(offers, v)
<1>1. A \in SUBSET (1..Len(offers))
  BY DEF Assigned
<1>. HIDE DEF A
<1>2. A # {} => Max(A) \in A /\ \A n \in A : n <= Max(A)
  BY <1>1, MaxOfBounded, Zenon
<1>3. SelectPdo(offers, v) = IF A = {} THEN NONE_SELECTED ELSE Max(A) - 1
  BY DEF SelectPdo, A
<1>4. CASE A # {}
  <2>1. Max(A) \in 1..Len(offers) /\ SelectPdo(offers, v) = Max(A) - 1
    BY <1>1, <1>2, <1>3, <1>4, Zenon
  <2>2. SelectPdo(offers, v) + 1 = Max(A) /\ SelectPdo(offers, v) \in 0..(Len(offers) - 1)
    BY <2>1
  <2>. QED
    BY <1>2, <1>4, <2>2 DEF A
<1>. QED
  BY <1>3, <1>4 DEF A

-----------------------------------------------------------------------------
(* pd_parse_power_info yields a contract whose numbers are naturals.       *)
LEMMA ParseType ==
  ASSUME NEW pdo \in Pdos
  PROVE  pd_parse_power_info(pdo) \in Contracts
<1>1. pdo.type \in 0..3 /\ pdo.body \in Nat
  BY DEF Pdos
<1>2. \A lsb \in {1, 256, 1024, 131072, 1048576}, size \in {128, 256, 1024} :
        Field(pdo.body, lsb, size) \in Nat
  BY <1>1 DEF Field
<1>. DEFINE f(lsb, size) == Field(pdo.body, lsb, size)
<1>3. /\ f(1, 1024) \in Nat /\ f(1024, 1024) \in Nat /\ f(1048576, 1024) \in Nat
      /\ f(1, 128) * 5 \in Nat /\ f(256, 256) * 2 \in Nat /\ f(131072, 256) * 2 \in Nat
  BY <1>2
<1>. HIDE DEF f
<1>. USE DEF FIXED_SUPPLY, BATTERY, VARIABLE_SUPPLY, AUGMENTED_PDO, Contract
<1>4. CASE pdo.type = 0
  <2>1. pd_parse_power_info(pdo) = Contract(0, 0, f(1024, 1024), f(1, 1024), 0)
    BY <1>4 DEF pd_parse_power_info, f
  <2>. QED
    BY <1>3, <2>1 DEF Contracts
<1>5. CASE pdo.type = 1
  <2>1. pd_parse_power_info(pdo) = Contract(1, f(1024, 1024), f(1048576, 1024), 0, f(1, 1024))
    BY <1>5 DEF pd_parse_power_info, f
  <2>. QED
    BY <1>3, <2>1 DEF Contracts
<1>6. CASE pdo.type = 2
  <2>1. pd_parse_power_info(pdo) = Contract(2, f(1024, 1024), f(1048576, 1024), f(1, 1024), 0)
    BY <1>6 DEF pd_parse_power_info, f
  <2>. QED
    BY <1>3, <2>1 DEF Contracts
<1>7. CASE pdo.type = 3
  <2>1. pd_parse_power_info(pdo) =
          Contract(3, f(256, 256) * 2, f(131072, 256) * 2, f(1, 128) * 5, 0)
    BY <1>7 DEF pd_parse_power_info, f
  <2>. QED
    BY <1>3, <2>1 DEF Contracts
<1>. QED
  BY <1>1, <1>4, <1>5, <1>6, <1>7

(* The parsed offers are a sequence of contracts as long as the message.   *)
LEMMA InfosType ==
  ASSUME data_objects \in Seq(Pdos)
  PROVE  /\ infos \in Seq(Contracts) /\ Len(infos) = Len(data_objects)
         /\ \A n \in 1..Len(data_objects) : infos[n] = pd_parse_power_info(data_objects[n])
         /\ \A n \in 1..Len(data_objects) : infos[n] \in Contracts
<1>1. \A n \in 1..Len(data_objects) : pd_parse_power_info(data_objects[n]) \in Contracts
  BY ParseType
<1>. QED
  BY <1>1 DEF infos

(* The loop invariant holds when the message has arrived and the loop has  *)
(* looked at none of its offers.                                           *)
LEMMA LoopInvInit == SelectionInit => LoopInv
  BY OffersAssumption, VoltagesAssumption DEF SelectionInit, LoopInv, TypeInv, SeenInv, SentInv

(* Nothing is selected exactly as long as nothing usable was seen.         *)
LEMMA NoneSelected ==
  ASSUME TypeInv, SeenInv
  PROVE  selected = NONE_SELECTED <=> \A k \in 1..idx : ~Usable(k)
<1>1. CASE selected = NONE_SELECTED /\ \A n \in 1..idx : ~Usable(n)
  BY <1>1
<1>2. CASE selected \in 0..(idx - 1) /\ selected + 1 \in Assigned(infos, request_voltage_)
  <2>1. selected # NONE_SELECTED
    <3>. DEFINE len == Len(data_objects)
    <3>1. len \in 1..7 /\ idx \in 0..len
      BY DEF TypeInv
    <3>. HIDE DEF len
    <3>2. selected \in Int /\ selected <= 6
      BY <1>2, <3>1
    <3>. QED
      BY <3>2 DEF NONE_SELECTED
  <2>2. selected + 1 \in 1..idx /\ Usable(selected + 1)
    BY <1>2 DEF TypeInv, Assigned, Usable
  <2>. QED
    BY <2>1, <2>2
<1>. QED
  BY <1>1, <1>2 DEF SeenInv

(* Every iteration of the loop, and the answer after it, keep the loop     *)
(* invariant.                                                              *)
LEMMA LoopInvStep == LoopInv /\ [SelectionNext]_selectionVars => LoopInv'
<1>. SUFFICES ASSUME TypeInv, SeenInv, SentInv, [SelectionNext]_selectionVars
              PROVE  LoopInv'
  BY DEF LoopInv
<1>. DEFINE A == Assigned(infos, request_voltage_)
<1>1. CASE Iterate
  <2>1. /\ idx < Len(data_objects) /\ idx' = idx + 1 /\ request' = request
        /\ data_objects' = data_objects /\ request_voltage_' = request_voltage_
    BY <1>1 DEF Iterate
  <2>2. infos' = infos /\ A' = A /\ request' = <<>> /\ \A n : Usable(n)' <=> Usable(n)
    BY <2>1 DEF infos, Usable, SentInv, TypeInv
  <2>3. /\ idx \in Nat /\ idx + 1 \in 1..Len(data_objects) /\ pwr_info = infos[idx + 1]
        /\ Len(infos) = Len(data_objects)
    BY <2>1, InfosType DEF TypeInv, pwr_info
  <2>4. idx + 1 \in A <=>
          /\ Usable(idx + 1)
          /\ Fits(pwr_info, request_voltage_) \/ \A k \in 1..idx : ~Usable(k)
    BY <2>3 DEF Assigned, Usable
  <2>5. TypeInv' /\ SentInv'
    <3>1. idx' \in 0..Len(data_objects)'
      BY <2>1, <2>3
    <3>2. TypeInv'
      BY <2>1, <3>1, SMTT(30) DEF TypeInv
    <3>. QED
      BY <2>2, <3>2 DEF SentInv
  <2>. HIDE DEF A
  <2>6. CASE idx + 1 \in A
    <3>1. selected' = idx /\ selected_info' = infos[idx + 1]
      BY <1>1, <2>3, <2>4, <2>6, NoneSelected, SMTT(30) DEF Iterate, Usable
    <3>2. /\ selected' \in 0..(idx' - 1) /\ (selected + 1)' \in A'
          /\ \A n \in A' : n <= idx' => n <= (selected + 1)'
          /\ selected_info' = infos'[(selected + 1)']
      BY <2>1, <2>2, <2>3, <2>6, <3>1, SMTT(30)
    <3>. QED
      BY <2>5, <3>2 DEF LoopInv, SeenInv, A
  <2>7. CASE idx + 1 \notin A
    <3>1. selected' = selected /\ selected_info' = selected_info
      BY <1>1, <2>3, <2>4, <2>7, NoneSelected, SMTT(30) DEF Iterate, Usable
    <3>2. CASE selected = NONE_SELECTED /\ \A n \in 1..idx : ~Usable(n)
      <4>1. \A n \in 1..(idx + 1) : ~Usable(n)
        BY <2>3, <2>4, <2>7, <3>2
      <4>2. selected' = NONE_SELECTED /\ \A n \in 1..idx' : ~Usable(n)'
        BY <2>1, <2>2, <3>1, <3>2, <4>1, SMTT(30)
      <4>. QED
        BY <2>5, <4>2 DEF LoopInv, SeenInv
    <3>3. CASE /\ selected \in 0..(idx - 1) /\ selected + 1 \in A
               /\ \A n \in A : n <= idx => n <= selected + 1
               /\ selected_info = infos[selected + 1]
      <4>1. \A n \in A : n \in Nat
        BY DEF A, Assigned
      <4>2. \A n \in A : n <= idx + 1 => n <= selected + 1
        BY <2>3, <2>7, <3>3, <4>1, SMTT(30)
      <4>3. selected' \in 0..(idx' - 1)
        BY <2>1, <2>3, <3>1, <3>3
      <4>. QED
        BY <2>1, <2>2, <2>5, <3>1, <3>3, <4>2, <4>3, SMTT(30) DEF LoopInv, SeenInv, A
    <3>. QED
      BY <3>2, <3>3, SMTT(30) DEF SeenInv, A
  <2>. QED
    BY <2>6, <2>7
<1>2. CASE Respond
  <2>1. UNCHANGED <<data_objects, request_voltage_, idx, selected, selected_info>>
    BY <1>2, SMTT(30) DEF Respond
  <2>2. TypeInv' /\ SeenInv'
    BY <2>1, Zenon DEF TypeInv, SeenInv, infos, Usable
  <2>3. SentInv'
    BY <1>2 DEF Respond, SentInv
  <2>. QED
    BY <2>2, <2>3, SMTT(30) DEF LoopInv
<1>3. CASE UNCHANGED selectionVars
  BY <1>3, Zenon DEF selectionVars, LoopInv, TypeInv, SeenInv, SentInv, infos, Usable
<1>. QED
  BY <1>1, <1>2, <1>3 DEF SelectionNext

(* Once the loop is done, selected is what the closed form says.           *)
LEMMA LoopOutcome ==
  ASSUME LoopInv, idx = Len(data_objects)
  PROVE  selected = SelectPdo(infos, request_voltage_)
<1>. DEFINE A == Assigned(infos, request_voltage_)
<1>1. Len(infos) = Len(data_objects) /\ Len(infos) \in Nat
  BY InfosType DEF LoopInv, TypeInv
<1>2. CASE selected = NONE_SELECTED
  <2>1. A = {}
    BY <1>1, <1>2, SMTT(30) DEF LoopInv, TypeInv, SeenInv, Assigned, Usable, NONE_SELECTED
  <2>. QED
    BY <1>1, <1>2, <2>1, SelectPdoFacts
<1>3. CASE selected # NONE_SELECTED
  <2>1. /\ selected \in Nat /\ selected + 1 \in A
        /\ \A n \in A : n <= selected + 1
    BY <1>1, <1>3 DEF LoopInv, TypeInv, SeenInv, Assigned
  <2>2. /\ SelectPdo(infos, request_voltage_) \in Int
        /\ SelectPdo(infos, request_voltage_) + 1 \in A
        /\ selected + 1 <= SelectPdo(infos, request_voltage_) + 1
    BY <1>1, <2>1, SelectPdoFacts
  <2>3. SelectPdo(infos, request_voltage_) + 1 <= selected + 1
    BY <2>1, <2>2
  <2>. QED
    BY <2>1, <2>2, <2>3
<1>. QED
  BY <1>2, <1>3

(* The loop invariant of respond_to_src_cap_msg_: what selected_info holds *)
(* for the offers seen so far, at every iteration.                         *)
THEOREM LoopInvariant == SelectionSpec => []LoopInv
<1>. QED
  BY LoopInvInit, LoopInvStep, PTL DEF SelectionSpec

(* For every list of offers and every voltage, the loop selects the offer  *)
(* the closed form SelectPdo names.                                        *)
THEOREM LoopIsCorrect == SelectionSpec => []LoopComputesSelectPdo
<1>1. LoopInv => LoopComputesSelectPdo
  <2>. SUFFICES ASSUME LoopInv
                PROVE  LoopComputesSelectPdo
    OBVIOUS
  <2>1. idx = Len(data_objects) => selected = SelectPdo(infos, request_voltage_)
    BY LoopOutcome
  <2>2. ASSUME request # <<>>
        PROVE  request[1].contract = RequestedContract(infos, request_voltage_)
    <3>1. CASE selected = NONE_SELECTED
      BY <2>1, <2>2, <3>1, SMTT(30) DEF LoopInv, SentInv, RequestedContract
    <3>2. CASE selected # NONE_SELECTED
      BY <2>1, <2>2, <3>2, SMTT(30) DEF LoopInv, SeenInv, SentInv, RequestedContract
    <3>. QED
      BY <3>1, <3>2, SMTT(30)
  <2>. QED
    BY <2>1, <2>2 DEF LoopComputesSelectPdo
<1>. QED
  BY <1>1, LoopInvariant, PTL

(* The device never asks for more than the configured voltage when the     *)
(* source has a usable offer within it.                                    *)
THEOREM VoltageIsRespected == SelectionSpec => []VoltageRespected
<1>1. LoopInv => VoltageRespected
  <2>. SUFFICES ASSUME LoopInv, request # <<>>,
                       NEW n \in 1..Len(data_objects),
                       Usable(n), Fits(infos[n], request_voltage_)
                PROVE  Fits(request[1].contract, request_voltage_)
    BY DEF VoltageRespected
  <2>. DEFINE A == Assigned(infos, request_voltage_)
  <2>1. Len(infos) = Len(data_objects) /\ idx = Len(data_objects)
    BY InfosType DEF LoopInv, TypeInv, SentInv
  <2>2. n \in A
    BY <2>1 DEF Assigned, Usable
  <2>3. selected # NONE_SELECTED
    BY <2>1, NoneSelected, SMTT(30) DEF LoopInv
  <2>4. /\ selected + 1 \in A /\ selected_info = infos[selected + 1]
        /\ n <= selected + 1 /\ request[1].contract = selected_info
        /\ selected \in Nat
    BY <2>1, <2>2, <2>3, SMTT(30) DEF LoopInv, SeenInv, SentInv
  <2>5. CASE Fits(infos[selected + 1], request_voltage_)
    BY <2>4, <2>5
  <2>6. CASE \A k \in 1..selected : infos[k].type = AUGMENTED_PDO
    <3>1. n \notin 1..selected
      BY <2>6 DEF Usable
    <3>2. n = selected + 1
      BY <2>4, <3>1, <2>1, SMTT(30) DEF LoopInv, TypeInv
    <3>. QED
      BY <2>4, <3>2
  <2>. QED
    BY <2>4, <2>5, <2>6, SMTT(30) DEF Assigned
<1>. QED
  BY <1>1, LoopInvariant, PTL

(* The request names an offer of the source by a position the wire format  *)
(* can carry, a usable one whenever there is one, and asks for no more     *)
(* than that offer has.                                                    *)
THEOREM RequestIsValid == SelectionSpec => []RequestNamesAnOffer
<1>1. LoopInv => RequestNamesAnOffer
  <2>. SUFFICES ASSUME LoopInv, request # <<>>
                PROVE  /\ request[1].object.pos \in 1..Len(data_objects)
                       /\ (\E n \in 1..Len(data_objects) : Usable(n)) =>
                            /\ Usable(request[1].object.pos)
                            /\ \/ request[1].object.max_op <= infos[request[1].object.pos].max_i
                               \/ request[1].object.max_op <= infos[request[1].object.pos].max_p
    BY DEF RequestNamesAnOffer
  <2>1. idx = Len(data_objects) /\ Len(data_objects) \in 1..7
    BY DEF LoopInv, TypeInv, SentInv
  <2>2. CASE selected = NONE_SELECTED
    <3>1. \A n \in 1..Len(data_objects) : ~Usable(n)
      BY <2>1, <2>2, NoneSelected, SMTT(30) DEF LoopInv
    <3>2. request[1].object.pos = 1
      BY <2>2, SMTT(30) DEF LoopInv, SentInv, create_fallback_request_message, RequestObject
    <3>. QED
      BY <2>1, <3>1, <3>2
  <2>3. CASE selected # NONE_SELECTED
    <3>. DEFINE pos == selected + 1
                op  == IF selected_info.max_i # 0 THEN selected_info.max_i ELSE selected_info.max_p
    <3>1. /\ selected \in 0..(Len(data_objects) - 1)
          /\ pos \in Assigned(infos, request_voltage_) /\ selected_info = infos[pos]
          /\ request[1].object = build_source_cap_response(selected_info, pos)
      BY <2>1, <2>3 DEF LoopInv, SeenInv, SentInv
    <3>2. pos \in 1..Len(data_objects) /\ pos \in 1..7 /\ pos % 8 = pos
      BY <2>1, <3>1, SMTT(30)
    <3>3. selected_info \in Contracts /\ Usable(pos)
      BY <3>1, <3>2, InfosType DEF LoopInv, TypeInv, Assigned, Usable
    <3>4. request[1].object.pos = pos /\ request[1].object.max_op = op % 1024
      BY <3>1, <3>2, <3>3, SMTT(30) DEF build_source_cap_response, RequestObject, Usable
    <3>5. op \in Nat
      BY <3>3 DEF Contracts
    <3>6. op % 1024 <= op
      <4>. HIDE DEF op
      <4>. QED
        BY <3>5, SMTT(30)
    <3>7. op = infos[pos].max_i \/ op = infos[pos].max_p
      BY <3>1
    <3>. QED
      BY <3>2, <3>3, <3>4, <3>6, <3>7, SMTT(30)
  <2>. QED
    BY <2>2, <2>3, SMTT(30)
<1>. QED
  BY <1>1, LoopInvariant, PTL

-----------------------------------------------------------------------------
(* The frame count of the output callback.                                 *)

(* Quotient and remainder of a positive divisor, as the callback uses them.*)
LEMMA Division ==
  ASSUME NEW a \in Nat, NEW b \in Nat \ {0}
  PROVE  /\ a % b \in 0..(b - 1)
         /\ a \div b \in Nat
         /\ (a \div b) * b + (a % b) = a
  OBVIOUS

(* The two steps of the distribution that the solver is told explicitly.   *)
LEMMA Distribution ==
  ASSUME NEW a \in Nat, NEW b \in Nat, NEW c \in Nat
  PROVE  (a + b) * c = a * c + b * c
  OBVIOUS

(* The product of a report does not leave its 32 bits.                     *)
LEMMA ProductFits ==
  ASSUME FramesTypeOK, NEW n \in 0..MaxFrames
  PROVE  /\ n * rate \in Nat
         /\ Numerator(n) = n * rate + callback_remainder_
         /\ Numerator(n) \in Nat
<1>1. rate \in Nat /\ n \in Nat /\ callback_remainder_ \in Nat /\ Uint32Range \in Nat \ {0}
  BY RatesAssumption DEF FramesTypeOK
<1>2. n * rate \in Nat
  BY <1>1
<1>3. n * rate < Uint32Range
  BY RatesAssumption DEF FramesTypeOK
<1>4. \A x \in Nat : x < Uint32Range => x % Uint32Range = x
  BY <1>1
<1>5. (n * rate) % Uint32Range = n * rate
  BY <1>2, <1>3, <1>4
<1>6. QED
  BY <1>1, <1>2, <1>5 DEF Numerator

(* A report keeps the types and the account.                               *)
LEMMA CallbackKeepsAccount ==
  ASSUME FramesTypeOK, FramesAccountedFor, NEW n \in 0..MaxFrames, AudioOutputCallback(n)
  PROVE  FramesTypeOK' /\ FramesAccountedFor'
<1>1. /\ rate \in Nat /\ n \in Nat /\ TargetRate \in Nat \ {0}
      /\ callback_remainder_ \in Nat /\ played \in Nat /\ reported \in Nat
  BY RatesAssumption DEF FramesTypeOK
<1>2. played' = played + n /\ rate' = rate
  BY DEF AudioOutputCallback
<1>3. played' * rate = played * rate + n * rate
  BY <1>1, <1>2, Distribution
<1>4. CASE rate = TargetRate
  <2>1. reported' = reported + n /\ callback_remainder_' = callback_remainder_
    BY <1>4 DEF AudioOutputCallback
  <2>2. reported' * TargetRate = reported * TargetRate + n * TargetRate
    BY <1>1, <2>1, Distribution
  <2>3. FramesTypeOK'
    BY <1>1, <1>2, <2>1 DEF FramesTypeOK
  <2>4. FramesAccountedFor'
    BY <1>1, <1>2, <1>3, <1>4, <2>1, <2>2, SMTT(30) DEF FramesAccountedFor
  <2>5. QED
    BY <2>3, <2>4
<1>5. CASE rate # TargetRate
  <2> DEFINE num == Numerator(n)
             q   == num \div TargetRate
             r   == num % TargetRate
  <2>1. num = n * rate + callback_remainder_ /\ num \in Nat /\ n * rate \in Nat
    BY ProductFits, SMTT(30)
  <2>2. r \in 0..(TargetRate - 1) /\ q \in Nat /\ q * TargetRate + r = num
    BY <1>1, <2>1, Division, Zenon
  <2>3. reported' = reported + q /\ callback_remainder_' = r
    BY <1>5 DEF AudioOutputCallback
  <2> HIDE DEF num, q, r
  <2>4. reported' * TargetRate = reported * TargetRate + q * TargetRate
    BY <1>1, <2>2, <2>3, Distribution
  <2>5. FramesTypeOK'
    BY <1>1, <1>2, <2>2, <2>3 DEF FramesTypeOK
  <2>6. /\ reported * TargetRate \in Nat /\ q * TargetRate \in Nat /\ r \in Nat
        /\ played * rate \in Nat
    BY <1>1, <2>2
  <2>7. FramesAccountedFor'
    <3>1. reported * TargetRate + callback_remainder_ = played * rate
      BY DEF FramesAccountedFor
    <3>2. reported' * TargetRate + callback_remainder_' = played' * rate'
      BY <1>1, <1>2, <1>3, <2>1, <2>2, <2>3, <2>4, <2>6, <3>1, SMTT(30)
    <3>3. QED
      BY <3>2 DEF FramesAccountedFor
  <2>8. QED
    BY <2>5, <2>7
<1>6. QED
  BY <1>4, <1>5

(* What setup() leaves behind and every step keep both: no frame is lost   *)
(* by the division, for all rates, all streams and all reports.            *)
THEOREM FramesNotLost == FramesSpec => [](FramesTypeOK /\ FramesAccountedFor)
<1>1. FramesInit => FramesTypeOK /\ FramesAccountedFor
  BY RatesAssumption DEF FramesInit, FramesTypeOK, FramesAccountedFor
<1>2. FramesTypeOK /\ FramesAccountedFor /\ [FramesNext]_frameVars => (FramesTypeOK /\ FramesAccountedFor)'
  <2> SUFFICES ASSUME FramesTypeOK, FramesAccountedFor, [FramesNext]_frameVars
               PROVE  FramesTypeOK' /\ FramesAccountedFor'
    OBVIOUS
  <2>1. CASE NewStream
    <3>1. /\ TargetRate \in Nat \ {0} /\ rate' \in Nat
          /\ callback_remainder_' = 0 /\ played' = 0 /\ reported' = 0
      BY <2>1, RatesAssumption DEF NewStream, FramesTypeOK
    <3>2. FramesTypeOK'
      BY <2>1, <3>1 DEF NewStream, FramesTypeOK
    <3>3. \A x \in Nat : 0 * x = 0
      OBVIOUS
    <3>4. FramesAccountedFor'
      <4>1. /\ reported' * TargetRate = 0 /\ played' * rate' = 0
            /\ callback_remainder_' = 0
        BY <3>1, <3>3, Zenon
      <4>2. reported' * TargetRate + callback_remainder_' = played' * rate'
        BY <4>1
      <4>3. QED
        BY <4>2 DEF FramesAccountedFor
    <3>5. QED
      BY <3>2, <3>4
  <2>2. ASSUME NEW n \in 0..MaxFrames, AudioOutputCallback(n)
        PROVE  FramesTypeOK' /\ FramesAccountedFor'
    BY <2>2, CallbackKeepsAccount
  <2>3. CASE UNCHANGED frameVars
    BY <2>3 DEF frameVars, FramesTypeOK, FramesAccountedFor
  <2>4. QED
    BY <2>1, <2>2, <2>3 DEF FramesNext
<1>3. QED
  BY <1>1, <1>2, PTL DEF FramesSpec

(* The frames reported to the media player are those played, to within one.*)
THEOREM ReportedWithinOneFrame == FramesSpec => []WithinOneFrame
<1>1. FramesTypeOK /\ FramesAccountedFor => WithinOneFrame
  <2> SUFFICES ASSUME FramesTypeOK, FramesAccountedFor PROVE WithinOneFrame
    OBVIOUS
  <2>1. /\ rate \in Nat /\ TargetRate \in Nat \ {0} /\ played \in Nat /\ reported \in Nat
    BY RatesAssumption DEF FramesTypeOK
  <2>2. reported * TargetRate \in Nat /\ played * rate \in Nat
    BY <2>1
  <2>3. QED
    BY <2>1, <2>2 DEF FramesTypeOK, FramesAccountedFor, WithinOneFrame
<1>2. QED
  BY <1>1, FramesNotLost, PTL

-----------------------------------------------------------------------------
(* ResamplerSpeaker.  StateMatchesTask is not inductive: that STATE_RUNNING*)
(* has a task depends on how a task ends.  Good says so: a task ends only  *)
(* when loop() has told it to, or with an error bit that the next loop()   *)
(* sees before or together with STATE_STOPPED, so that loop() is in        *)
(* STATE_STOPPING before it deletes the task.  loop() works on a record c, *)
(* and so do the lemmas.                                                   *)

Tasks == {"none", "begin", "run", "ending", "stopped"}

Outs == [state : States, paused : BOOLEAN, finishing : BOOLEAN, data : BOOLEAN]

Components == [state : States, bits : SUBSET ResamplingEventGroupBits, out : Outs, late : BOOLEAN,
               waiting : BOOLEAN, task : Tasks]

(* What holds of the bits and the task whatever the state is.              *)
BitsFit(c) ==
  /\ "TASK_COMMAND_STOP" \in c.bits => c.task # "none"
  /\ c.bits \intersect Errors # {} => c.task \in {"ending", "stopped"}
  /\ "STATE_STOPPED" \in c.bits <=> c.task = "stopped"

(* What the state adds.                                                    *)
TaskFits(c) ==
  /\ c.state = "STOPPED" => c.task = "none" /\ c.out.state = "STOPPED" /\ ~c.waiting
  /\ c.state = "STARTING" /\ ~c.waiting => c.task = "none"
  /\ requires_resampling_ /\ (c.state = "RUNNING" \/ (c.state = "STARTING" /\ c.waiting))
       => c.task # "none"
  /\ "TASK_COMMAND_STOP" \in c.bits => c.state = "STOPPING"
  /\ c.task \in {"ending", "stopped"} => c.state = "STOPPING" \/ c.bits \intersect Errors # {}

Good(c) == c \in Components /\ BitsFit(c) /\ TaskFits(c)

Inv == Good(Component) /\ client \in Commands \union {"ready"} /\ requires_resampling_ \in BOOLEAN

-----------------------------------------------------------------------------
(* The operators of loop(), one by one.                                    *)

(* The output speaker's commands keep its type.                            *)
LEMMA OutTypes ==
  ASSUME NEW o \in Outs
  PROVE  /\ OutStart(o) \in Outs /\ OutStop(o) \in Outs /\ OutFinish(o) \in Outs /\ Stopped(o) \in Outs
         /\ OutFinish(o).state = o.state /\ (o.state = "STOPPED" => OutStop(o).state = "STOPPED")
BY Zenon DEF Outs, States, OutStart, OutStop, OutFinish, Stopped

(* Whatever the state was, it may become STATE_STOPPING.                   *)
LEMMA StoppingIsGood ==
  ASSUME NEW c \in Components, BitsFit(c)
  PROVE  Good(enter_stopping_state_(c)) /\ enter_stopping_state_(c).state = "STOPPING"
<1> DEFINE d == enter_stopping_state_(c)
<1>1. c.out \in Outs /\ OutStop(c.out) \in Outs
  BY OutTypes DEF Components
<1>2. /\ d \in Components /\ d.state = "STOPPING" /\ d.task = c.task
      /\ d.bits = IF c.task # "none" THEN c.bits \union {"TASK_COMMAND_STOP"} ELSE c.bits
  BY <1>1, Zenon DEF enter_stopping_state_, Components, ResamplingEventGroupBits, States
<1>3. BitsFit(d)
  BY <1>2, SMTT(30) DEF BitsFit, Errors
<1>4. TaskFits(d)
  BY <1>2 DEF TaskFits
<1> QED
  BY <1>2, <1>3, <1>4 DEF Good

(* Each command leaves a good component good.                              *)
LEMMA CommandsAreGood ==
  ASSUME NEW c \in Components, Good(c)
  PROVE  Good(CommandStop(c)) /\ Good(CommandFinish(c)) /\ Good(CommandStart(c))
<1>1. ASSUME NEW K \in SUBSET Commands
      PROVE  /\ [c EXCEPT !.bits = @ \ K] \in Components /\ BitsFit([c EXCEPT !.bits = @ \ K])
             /\ (c.bits \ K) \intersect Errors = c.bits \intersect Errors
             /\ "TASK_COMMAND_STOP" \in c.bits \ K <=> "TASK_COMMAND_STOP" \in c.bits
  BY <1>1 DEF Good, BitsFit, Components, Commands, Errors
<1>2. ASSUME NEW K \in SUBSET Commands
      PROVE  Good([c EXCEPT !.bits = @ \ K])
  BY <1>1, SMTT(30) DEF Good, TaskFits, Components
<1>3. Good(CommandStop(c))
  <2>1. CASE c.state \in {"RUNNING", "STARTING"}
    <3> DEFINE d == [c EXCEPT !.bits = @ \ Commands]
               e == [c EXCEPT !.bits = @ \ Commands, !.waiting = FALSE]
    <3>1. d \in Components /\ BitsFit(d)
      BY <1>1
    <3>2. e \in Components /\ e.bits = d.bits /\ e.task = d.task
      BY <3>1, Zenon DEF Components
    <3>3. BitsFit(e)
      BY <3>1, <3>2 DEF BitsFit
    <3> QED
      BY <2>1, <3>2, <3>3, StoppingIsGood DEF CommandStop
  <2>2. CASE c.state = "STOPPED"
    BY <2>2, <1>2 DEF CommandStop
  <2>3. CASE c.state = "STOPPING"
    BY <2>3 DEF CommandStop
  <2> QED
    BY <2>1, <2>2, <2>3 DEF Components, States
<1>4. Good(CommandFinish(c))
  <2>1. CASE c.state = "RUNNING"
    <3> DEFINE d == [c EXCEPT !.bits = @ \ {"COMMAND_FINISH"}]
               e == [c EXCEPT !.bits = @ \ {"COMMAND_FINISH"}, !.out = OutFinish(@)]
    <3>1. Good(d)
      BY <1>2, Zenon DEF Commands
    <3>2. c.out \in Outs /\ OutFinish(c.out) \in Outs
      BY OutTypes DEF Components
    <3>3. /\ e \in Components /\ e.bits = d.bits /\ e.task = d.task /\ e.state = d.state
          /\ e.waiting = d.waiting /\ e.state = "RUNNING"
      BY <2>1, <3>1, <3>2, Zenon DEF Components, Good
    <3>4. BitsFit(e) /\ TaskFits(e)
      BY <3>1, <3>3 DEF Good, BitsFit, TaskFits
    <3> QED
      BY <2>1, <3>3, <3>4 DEF CommandFinish, Good
  <2>2. CASE c.state = "STOPPED"
    BY <2>2, <1>2, Zenon DEF CommandFinish, Commands
  <2>3. CASE c.state \in {"STARTING", "STOPPING"}
    BY <2>3 DEF CommandFinish
  <2> QED
    BY <2>1, <2>2, <2>3 DEF Components, States
<1>5. Good(CommandStart(c))
  <2>1. CASE c.state = "STOPPED"
    <3> DEFINE d == [c EXCEPT !.bits = @ \ {"COMMAND_START"}]
               e == [c EXCEPT !.bits = @ \ {"COMMAND_START"}, !.state = "STARTING"]
    <3>1. Good(d) /\ d.state = "STOPPED"
      BY <2>1, <1>2, Zenon DEF Commands, Components
    <3>2. /\ e \in Components /\ e.bits = d.bits /\ e.task = d.task /\ e.state = "STARTING"
          /\ e.waiting = d.waiting
      BY <3>1, Zenon DEF Components, Good, States
    <3>3. e.task = "none" /\ ~e.waiting
      BY <3>1, <3>2 DEF Good, TaskFits
    <3>4. BitsFit(e)
      BY <3>1, <3>2 DEF Good, BitsFit
    <3>5. TaskFits(e)
      BY <3>2, <3>3, <3>4 DEF BitsFit, TaskFits
    <3> QED
      BY <2>1, <3>2, <3>4, <3>5 DEF CommandStart, Good
  <2>2. CASE c.state = "RUNNING"
    BY <2>2, <1>2, Zenon DEF CommandStart, Commands
  <2>3. CASE c.state \in {"STARTING", "STOPPING"}
    BY <2>3, SMTT(30) DEF CommandStart
  <2> QED
    BY <2>1, <2>2, <2>3 DEF Components, States
<1> QED
  BY <1>3, <1>4, <1>5

(* After the errors and the end of the task were seen, a task that ends    *)
(* does so in STATE_STOPPING.                                              *)
LEMMA SeenIsGood ==
  ASSUME Good(Component)
  PROVE  /\ Good(TaskSeen(ErrorsSeen(Component)))
         /\ TaskSeen(ErrorsSeen(Component)).bits \intersect Errors = {}
<1> DEFINE c == Component
           d == ErrorsSeen(c)
           e == TaskSeen(d)
<1>1. c \in Components /\ BitsFit(c) /\ c.bits = bits
  BY SMTT(30) DEF Good, Component
<1>2. Good(d) /\ d.bits \intersect Errors = {}
  <2>1. CASE c.bits \intersect Errors = {}
    BY <2>1 DEF ErrorsSeen
  <2>2. CASE c.bits \intersect Errors # {}
    <3> DEFINE b == [c EXCEPT !.bits = @ \ Errors]
    <3>1. /\ b \in Components /\ b.bits = c.bits \ Errors /\ b.task = c.task
      BY <1>1 DEF Components
    <3>2. BitsFit(b)
      BY <1>1, <3>1 DEF BitsFit, Errors
    <3>3. Good(enter_stopping_state_(b))
      BY <3>1, <3>2, StoppingIsGood
    <3>4. enter_stopping_state_(b).bits \intersect Errors = {}
      BY <3>1, SMTT(30) DEF enter_stopping_state_, Errors, Components
    <3> QED
      BY <2>2, <3>3, <3>4 DEF ErrorsSeen
  <2> QED
    BY <2>1, <2>2
<1>3. "STATE_STOPPED" \in bits <=> "STATE_STOPPED" \in d.bits
  <2>1. d.task = c.task
    BY <1>1 DEF ErrorsSeen, enter_stopping_state_, Components
  <2> QED
    BY <2>1, <1>1, <1>2 DEF Good, BitsFit
<1>4. CASE "STATE_STOPPED" \notin bits
  BY <1>4, <1>2, SMTT(30) DEF TaskSeen
<1>5. CASE "STATE_STOPPED" \in bits
  <2>1. d \in Components /\ d.task = "stopped" /\ d.state = "STOPPING"
    BY <1>5, <1>2, <1>3 DEF Good, BitsFit, TaskFits
  <2>2. /\ e \in Components /\ e.state = "STOPPING" /\ e.task = "none" /\ e.bits = {}
    BY <1>5, <2>1, Zenon DEF TaskSeen, Components, Tasks
  <2> QED
    BY <2>2, SMTT(30) DEF Good, BitsFit, TaskFits
<1> QED
  BY <1>4, <1>5, SMTT(30)

-----------------------------------------------------------------------------
(* The steps.                                                              *)

(* Assigning a good component to the variables leaves them good.           *)
LEMMA AssignedIsGood ==
  ASSUME NEW d \in Components, Assign(d), Good(d), UNCHANGED requires_resampling_
  PROVE  Good(Component)'
<1>1. Component' = d
  BY DEF Assign, Component, Components
<1> QED
  BY <1>1, SMTT(30) DEF Good, BitsFit, TaskFits

(* The first part of loop() keeps the invariant.                           *)
LEMMA CommandsStep ==
  ASSUME Inv, LoopCommands
  PROVE  Inv'
<1> DEFINE c == Component
<1>1. c \in Components /\ Good(c) /\ UNCHANGED <<requires_resampling_, client>>
  BY DEF Inv, Good, LoopCommands
<1>2. PICK d \in {CommandStop(c), CommandFinish(c), CommandStart(c), c} : Assign(d)
  BY DEF LoopCommands
<1>3. Good(d) /\ d \in Components
  BY <1>1, <1>2, CommandsAreGood, SMTT(30) DEF Good
<1> QED
  BY <1>1, <1>2, <1>3, AssignedIsGood DEF Inv

(* STATE_STARTING.                                                         *)
LEMMA StartingIsGood ==
  ASSUME NEW c \in Components, Good(c), c.state = "STARTING", c.bits \intersect Errors = {},
         StartingStep(c), UNCHANGED requires_resampling_
  PROVE  Good(Component)'
<1>1. BitsFit(c) /\ TaskFits(c) /\ c.out \in Outs
  BY DEF Good, Components
<1>2. CASE c.waiting
  <2> DEFINE r == [c EXCEPT !.state = "RUNNING", !.waiting = FALSE]
             w == [c EXCEPT !.waiting = FALSE]
  <2>1. PICK d \in {r, enter_stopping_state_(w), c} : Assign(d)
    BY <1>2 DEF StartingStep
  <2>2. Good(r)
    <3>1. /\ r \in Components /\ r.bits = c.bits /\ r.task = c.task /\ r.state = "RUNNING"
      BY Zenon DEF Components, States
    <3> QED
      BY <1>1, <1>2, <3>1 DEF Good, BitsFit, TaskFits
  <2>3. Good(enter_stopping_state_(w))
    <3>1. w \in Components /\ w.bits = c.bits /\ w.task = c.task
      BY Zenon DEF Components
    <3>2. BitsFit(w)
      BY <1>1, <3>1 DEF BitsFit
    <3> QED
      BY <3>1, <3>2, StoppingIsGood
  <2> QED
    BY <2>1, <2>2, <2>3, AssignedIsGood DEF Good
<1>3. CASE ~c.waiting
  <2>1. c.task = "none"
    BY <1>1, <1>3, SMTT(30) DEF TaskFits
  <2>2. OutStart(c.out) \in Outs
    BY <1>1, OutTypes
  <2>3. CASE Assign([start_(c) EXCEPT !.waiting = TRUE, !.late = FALSE])
    <3> DEFINE d == [start_(c) EXCEPT !.waiting = TRUE, !.late = FALSE]
    <3>1. /\ d \in Components /\ d.bits = c.bits /\ d.state = "STARTING" /\ d.waiting
          /\ d.task = IF requires_resampling_ THEN "begin" ELSE "none"
      BY <2>1, <2>2, Zenon DEF start_, Components, Tasks
    <3>2. BitsFit(d)
      BY <1>1, <2>1, <3>1 DEF BitsFit
    <3>3. TaskFits(d)
      BY <1>1, <2>1, <3>1 DEF BitsFit, TaskFits
    <3> QED
      BY <2>3, <3>1, <3>2, <3>3, AssignedIsGood DEF Good
  <2>4. CASE Assign(enter_stopping_state_([c EXCEPT !.out = OutStart(@)]))
    <3> DEFINE d == [c EXCEPT !.out = OutStart(@)]
    <3>1. d \in Components /\ d.bits = c.bits /\ d.task = c.task
      BY <2>2 DEF Components
    <3>2. BitsFit(d)
      BY <1>1, <3>1 DEF BitsFit
    <3>3. Good(enter_stopping_state_(d))
      BY <3>1, <3>2, StoppingIsGood, SMTT(30)
    <3> QED
      BY <2>4, <3>3, AssignedIsGood DEF Good
  <2> QED
    BY <1>3, <2>3, <2>4, SMTT(30) DEF StartingStep
<1> QED
  BY <1>2, <1>3

(* A pass through STATE_RUNNING leaves a good component good.              *)
LEMMA RunningIsGood ==
  ASSUME NEW c \in Components, Good(c)
  PROVE  Good(RunningStep(c))
BY StoppingIsGood, SMTT(30) DEF RunningStep, Good

(* So does a pass through STATE_STOPPING.                                  *)
LEMMA StoppedIsGood ==
  ASSUME NEW c \in Components, Good(c), c.state = "STOPPING"
  PROVE  Good(StoppingStep(c))
<1> DEFINE o == IF c.out.paused \/ c.late THEN OutStop(c.out) ELSE c.out
           d == StoppingStep(c)
<1>1. c.out \in Outs /\ o \in Outs /\ BitsFit(c)
  BY OutTypes DEF Components, Good
<1>2. /\ d \in Components /\ d.bits = c.bits /\ d.task = c.task /\ d.out = o
      /\ \/ o.state = "STOPPED" /\ c.task = "none" /\ d.state = "STOPPED" /\ ~d.waiting
         \/ d.state = "STOPPING"
  BY <1>1, Zenon DEF StoppingStep, Components, States
<1>3. BitsFit(d)
  BY <1>1, <1>2, SMTT(30) DEF BitsFit
<1>4. TaskFits(d)
  BY <1>1, <1>2, SMTT(30) DEF BitsFit, TaskFits
<1> QED
  BY <1>2, <1>3, <1>4, SMTT(30) DEF Good

(* The second part of loop() keeps the invariant.                          *)
LEMMA StatesStep ==
  ASSUME Inv, LoopStates
  PROVE  Inv'
<1> DEFINE c == TaskSeen(ErrorsSeen(Component))
<1>1. Good(c) /\ c \in Components /\ c.bits \intersect Errors = {}
  BY SeenIsGood DEF Inv, Good
<1>2. UNCHANGED <<requires_resampling_, client>>
  BY SMTT(30) DEF LoopStates
<1>3. CASE c.state = "STARTING"
  <2>1. StartingStep(c)
    BY <1>3, SMTT(30) DEF LoopStates
  <2> QED
    BY <1>1, <1>2, <1>3, <2>1, StartingIsGood, SMTT(30) DEF Inv
<1>4. CASE c.state = "RUNNING"
  <2>1. Assign(RunningStep(c))
    BY <1>4, SMTT(30) DEF LoopStates
  <2> QED
    BY <1>1, <1>2, <2>1, RunningIsGood, AssignedIsGood, SMTT(30) DEF Inv, Good
<1>5. CASE c.state = "STOPPING"
  <2>1. Assign(StoppingStep(c))
    BY <1>5, SMTT(30) DEF LoopStates
  <2> QED
    BY <1>1, <1>2, <1>5, <2>1, StoppedIsGood, AssignedIsGood, Zenon DEF Inv, Good
<1>6. CASE c.state = "STOPPED"
  <2>1. Assign(c)
    BY <1>6 DEF LoopStates
  <2> QED
    BY <1>1, <1>2, <2>1, AssignedIsGood, Zenon DEF Inv
<1> QED
  BY <1>1, <1>3, <1>4, <1>5, <1>6, SMTT(30) DEF Components, States

(* Good of the variables, without the record.                              *)
Flat ==
  /\ state_ \in States /\ bits \subseteq ResamplingEventGroupBits /\ out \in Outs
  /\ late \in BOOLEAN /\ waiting_for_output_ \in BOOLEAN /\ task \in Tasks
  /\ "TASK_COMMAND_STOP" \in bits => task # "none" /\ state_ = "STOPPING"
  /\ bits \intersect Errors # {} => task \in {"ending", "stopped"}
  /\ "STATE_STOPPED" \in bits <=> task = "stopped"
  /\ state_ = "STOPPED" => task = "none" /\ out.state = "STOPPED" /\ ~waiting_for_output_
  /\ state_ = "STARTING" /\ ~waiting_for_output_ => task = "none"
  /\ requires_resampling_ /\ (state_ = "RUNNING" \/ (state_ = "STARTING" /\ waiting_for_output_))
       => task # "none"
  /\ task \in {"ending", "stopped"} => state_ = "STOPPING" \/ bits \intersect Errors # {}

(* The invariant, by variable instead of by component.                     *)
LEMMA FlatIsGood == (Good(Component) <=> Flat) /\ (Good(Component)' <=> Flat')
<1>1. Component \in Components <=> /\ state_ \in States /\ bits \subseteq ResamplingEventGroupBits
                                   /\ out \in Outs /\ late \in BOOLEAN
                                   /\ waiting_for_output_ \in BOOLEAN /\ task \in Tasks
  BY SMTT(30) DEF Component, Components
<1>2. (Component \in Components)' <=> (/\ state_ \in States /\ bits \subseteq ResamplingEventGroupBits
                                       /\ out \in Outs /\ late \in BOOLEAN
                                       /\ waiting_for_output_ \in BOOLEAN /\ task \in Tasks)'
  BY SMTT(30) DEF Component, Components
<1>3. /\ Component.state = state_ /\ Component.bits = bits /\ Component.out = out
      /\ Component.waiting = waiting_for_output_ /\ Component.task = task
  BY SMTT(30) DEF Component
<1>4. (/\ Component.state = state_ /\ Component.bits = bits /\ Component.out = out
       /\ Component.waiting = waiting_for_output_ /\ Component.task = task)'
  BY SMTT(30) DEF Component
<1>5. Good(Component) <=> Flat
  BY <1>1, <1>3, SMTT(30) DEF Good, BitsFit, TaskFits, Flat
<1>6. Good(Component)' <=> Flat'
  BY <1>2, <1>4, SMTT(30) DEF Good, BitsFit, TaskFits, Flat
<1> QED
  BY <1>5, <1>6, SMTT(30)

(* A step that leaves state, bits and task alone, and neither starts the   *)
(* output speaker nor ends its start.                                      *)
LEMMA FrameStep ==
  ASSUME Flat, UNCHANGED <<state_, waiting_for_output_, bits, task, requires_resampling_>>,
         late' \in BOOLEAN, out' \in Outs, out.state = "STOPPED" => out'.state = "STOPPED"
  PROVE  Flat'
BY DEF Flat

(* The output speaker keeps it ...                                         *)
LEMMA OutputStepInv ==
  ASSUME Flat, OutputStep
  PROVE  Flat'
<1>1. out \in Outs /\ out.state # "STOPPED" /\ Stopped(out) \in Outs
  BY OutTypes DEF Flat, OutputStep
<1>2. out' \in Outs
  <2>1. out' \in {[out EXCEPT !.state = "RUNNING"], Stopped(out), [out EXCEPT !.data = FALSE]}
    BY DEF OutputStep
  <2> QED
    BY <1>1, <2>1, Zenon DEF Outs, States
<1> QED
  BY <1>1, <1>2, FrameStep DEF OutputStep, Flat

(* ... and so do the clients.                                              *)
LEMMA ClientInv ==
  ASSUME Flat, client \in Commands \union {"ready"}, ClientStep \/ UserCommands \/ UserPauses
  PROVE  Flat' /\ client' \in Commands \union {"ready"}
<1>1. CASE CommandSent
  <2>1. /\ bits' = bits \union {client} /\ client \in Commands /\ client' = "ready"
        /\ UNCHANGED <<state_, waiting_for_output_, late, task, requires_resampling_, out>>
    BY <1>1, SMTT(30) DEF CommandSent, unchangedByClient
  <2>2. /\ bits' \subseteq ResamplingEventGroupBits /\ bits' \intersect Errors = bits \intersect Errors
        /\ "TASK_COMMAND_STOP" \in bits' <=> "TASK_COMMAND_STOP" \in bits
        /\ "STATE_STOPPED" \in bits' <=> "STATE_STOPPED" \in bits
    BY <2>1, SMTT(30) DEF Flat, Commands, Errors, ResamplingEventGroupBits
  <2> QED
    BY <2>1, <2>2, SMTT(30) DEF Flat
<1>2. CASE PlayStarts
  <2>1. /\ state_ = "STOPPED" /\ client' = "COMMAND_START"
        /\ UNCHANGED <<state_, waiting_for_output_, late, task, bits, out>>
    BY <1>2 DEF PlayStarts, Sends, unchangedByClient
  <2> QED
    BY <2>1, SMTT(30) DEF Flat, Commands
<1>3. CASE PlayWrites
  <2>1. /\ UNCHANGED <<state_, waiting_for_output_, late, task, bits, requires_resampling_, client>>
        /\ out' \in {out, [out EXCEPT !.data = TRUE]}
    BY <1>3 DEF PlayWrites, unchangedByClient
  <2>2. out \in Outs
    BY DEF Flat
  <2>3. out' \in Outs /\ out'.state = out.state
    BY <2>1, <2>2, Zenon DEF Outs
  <2> QED
    BY <2>1, <2>3, FrameStep DEF Flat
<1>4. CASE UserCommands
  <2>1. /\ UNCHANGED <<state_, waiting_for_output_, late, task, bits, requires_resampling_, out>>
        /\ client' \in Commands
    BY <1>4 DEF UserCommands, Sends, Commands, unchangedByClient
  <2> QED
    BY <2>1, FrameStep, SMTT(30) DEF Flat
<1>5. CASE UserPauses
  <2>1. /\ UNCHANGED <<state_, waiting_for_output_, late, task, bits, requires_resampling_, client>>
        /\ out' = [out EXCEPT !.paused = ~@]
    BY <1>5 DEF UserPauses, unchangedByClient
  <2>2. out \in Outs
    BY DEF Flat
  <2>3. out' \in Outs /\ out'.state = out.state
    BY <2>1, <2>2, Zenon DEF Outs
  <2> QED
    BY <2>1, <2>3, FrameStep DEF Flat
<1> QED
  BY <1>1, <1>2, <1>3, <1>4, <1>5, SMTT(30) DEF ClientStep

(* The task ends in STATE_STOPPING or with an error.                       *)
LEMMA TaskInv ==
  ASSUME Flat, TaskStep
  PROVE  Flat'
<1>1. UNCHANGED <<state_, waiting_for_output_, late, requires_resampling_>>
  BY DEF TaskStep, TaskBegins, TaskRuns, TaskEnds, unchangedByTask
<1>2. state_ # "STOPPED" /\ out \in Outs /\ OutStart(out) \in Outs
  BY OutTypes, SMTT(30) DEF Flat, TaskStep, TaskBegins, TaskRuns, TaskEnds
<1>3. CASE task = "begin" /\ task' = "run" /\ UNCHANGED <<bits, out>>
  BY <1>1, <1>3, SMTT(30) DEF Flat, Tasks
<1>4. CASE /\ task \in {"begin", "run"} /\ task' = "ending" /\ UNCHANGED out
           /\ \E e \in Errors : bits' = bits \union {e}
  <2>1. PICK e \in Errors : bits' = bits \union {e}
    BY <1>4, SMTT(30)
  <2>2. /\ bits' \subseteq ResamplingEventGroupBits /\ bits' \intersect Errors # {}
        /\ "TASK_COMMAND_STOP" \in bits' <=> "TASK_COMMAND_STOP" \in bits
        /\ "STATE_STOPPED" \in bits' <=> "STATE_STOPPED" \in bits
    BY <2>1, SMTT(30) DEF Flat, Errors, ResamplingEventGroupBits
  <2> QED
    BY <1>1, <1>2, <1>4, <2>2, SMTT(30) DEF Flat, Tasks
<1>5. CASE task = "run" /\ task' = "ending" /\ "TASK_COMMAND_STOP" \in bits /\ UNCHANGED <<bits, out>>
  BY <1>1, <1>2, <1>5 DEF Flat, Tasks
<1>6. CASE UNCHANGED <<task, bits>> /\ out' \in {OutStart(out), [out EXCEPT !.data = TRUE]}
  <2>1. out' \in Outs
    BY <1>2, <1>6, Zenon DEF Outs
  <2> QED
    BY <1>1, <1>2, <1>6, <2>1 DEF Flat
<1>7. CASE /\ task = "ending" /\ task' = "stopped" /\ UNCHANGED out
           /\ bits' = bits \union {"STATE_STOPPED"}
  <2>1. /\ bits' \subseteq ResamplingEventGroupBits /\ bits' \intersect Errors = bits \intersect Errors
        /\ "TASK_COMMAND_STOP" \in bits' <=> "TASK_COMMAND_STOP" \in bits
        /\ "STATE_STOPPED" \in bits'
    BY <1>7 DEF Flat, Errors, ResamplingEventGroupBits
  <2> QED
    BY <1>1, <1>2, <1>7, <2>1, SMTT(30) DEF Flat, Tasks
<1>8. CASE TaskBegins
  BY <1>3, <1>4, <1>8 DEF TaskBegins, Errors
<1>9. CASE TaskRuns
  BY <1>4, <1>5, <1>6, <1>9, SMTT(30) DEF TaskRuns, Errors
<1>10. CASE TaskEnds
  BY <1>7, <1>10, SMTT(30) DEF TaskEnds
<1> QED
  BY <1>8, <1>9, <1>10 DEF TaskStep

-----------------------------------------------------------------------------
(* It holds at the start ...                                               *)
LEMMA InvInit == SpeakerInit => Inv
<1> SUFFICES ASSUME SpeakerInit PROVE Inv
  OBVIOUS
<1>1. Flat
  BY Zenon DEF SpeakerInit, Flat, States, Outs, Tasks, ResamplingEventGroupBits
<1> QED
  BY <1>1, FlatIsGood, ResamplerAssumption DEF SpeakerInit, Inv

(* ... and in every step.                                                  *)
LEMMA InvStep == Inv /\ [SpeakerNext]_speakerVars => Inv'
<1> SUFFICES ASSUME Inv, [SpeakerNext]_speakerVars PROVE Inv'
  OBVIOUS
<1>1. Flat /\ client \in Commands \union {"ready"} /\ requires_resampling_ \in BOOLEAN
  BY FlatIsGood DEF Inv
<1>2. requires_resampling_' \in BOOLEAN
  <2>1. CASE PlayStarts
    BY <2>1, <1>1, ResamplerAssumption, SMTT(30) DEF PlayStarts
  <2>2. CASE ~PlayStarts
    <3>1. UNCHANGED requires_resampling_
      BY <2>2, Zenon DEF SpeakerNext, speakerVars, ClientStep, CommandSent, PlayWrites, UserCommands, UserPauses, LoopCommands,
                  LoopStates, Timeout, TaskStep, TaskBegins, TaskRuns, TaskEnds, OutputStep, unchangedByTask
    <3> QED
      BY <1>1, <3>1
  <2> QED
    BY <2>1, <2>2, SMTT(30)
<1>3. CASE LoopCommands
  BY <1>3, CommandsStep
<1>4. CASE LoopStates
  BY <1>4, StatesStep
<1>5. CASE ClientStep \/ UserCommands \/ UserPauses
  BY <1>1, <1>2, <1>5, ClientInv, FlatIsGood, SMTT(30) DEF Inv
<1>6. CASE TaskStep
  <2>1. UNCHANGED client
    BY <1>6, SMTT(30) DEF TaskStep, TaskBegins, TaskRuns, TaskEnds, unchangedByTask
  <2> QED
    BY <1>1, <1>2, <1>6, <2>1, TaskInv, FlatIsGood, SMTT(30) DEF Inv
<1>7. CASE OutputStep
  <2>1. UNCHANGED client
    BY <1>7, SMTT(30) DEF OutputStep
  <2> QED
    BY <1>1, <1>2, <1>7, <2>1, OutputStepInv, FlatIsGood, SMTT(30) DEF Inv
<1>8. CASE Timeout
  <2>1. /\ UNCHANGED <<state_, waiting_for_output_, bits, task, requires_resampling_, out, client>>
        /\ late' = TRUE /\ out' \in Outs
    BY <1>1, <1>8, SMTT(30) DEF Timeout, Flat
  <2> QED
    BY <1>1, <1>2, <2>1, FrameStep, FlatIsGood, SMTT(30) DEF Inv
<1>9. CASE UNCHANGED speakerVars
  <2>1. UNCHANGED <<state_, waiting_for_output_, bits, task, requires_resampling_, out, client, late>>
    BY <1>9, SMTT(30) DEF speakerVars
  <2>2. late' \in BOOLEAN /\ out' \in Outs
    BY <1>1, <2>1 DEF Flat
  <2> QED
    BY <1>1, <1>2, <2>1, <2>2, FrameStep, FlatIsGood, SMTT(30) DEF Inv
<1> QED
  BY <1>3, <1>4, <1>5, <1>6, <1>7, <1>8, <1>9, SMTT(30) DEF SpeakerNext

(* However commands, errors of the task and the end of the output speaker  *)
(* fall between the two halves of loop(): STATE_STOPPED means that the task*)
(* is deleted and the output speaker stopped, STATE_RUNNING has its task,  *)
(* and no stop of the task outlives it.                                    *)
THEOREM StateAlwaysMatchesTask == SpeakerSpec => []StateMatchesTask
<1>1. Inv => StateMatchesTask
  BY FlatIsGood DEF Inv, Flat, StateMatchesTask
<1> QED
  BY InvInit, InvStep, <1>1, PTL DEF SpeakerSpec

-----------------------------------------------------------------------------
(* The device's automations, for any number of inputs and of starts that   *)
(* wait: what they leave alone (the three frames), and from it the three   *)
(* invariants.                                                             *)

(* The steps that touch a DAC, the jack or the published state.            *)
DacStep ==
  \/ \E state \in MediaStates \union {"ANNOUNCING"} : shown' = state /\ OnStateDacs(state)
  \/ UNCHANGED shown /\ (OnStateDacs(shown) \/ LineOutPressed \/ LineOutReleased \/ Interval \/ ActivateTas2780)
  \/ UNCHANGED shown /\ \E target \in {"tas2780", "pcm5122"} : SwitchOutput(target)
  \/ UNCHANGED <<shown, dacVars>>

(* Ending the ringing leaves the DACs alone.                               *)
LEMMA RingOffFrame == turn_off_ringing => UNCHANGED <<shown, dacVars>>
  BY SMTT(30) DEF turn_off_ringing, stop_announcement, playerVars

(* So does aborting the assistant.                                         *)
LEMMA AbortFrame == Abort => UNCHANGED <<shown, dacVars>>
  <1>1. timer_ringing /\ turn_off_ringing => UNCHANGED <<shown, dacVars>>
    BY RingOffFrame, SMTT(30)
  <1> QED BY <1>1 DEF Abort, va_stop, stop_announcement, playerVars

(* Every step treats the DACs as DacStep says.                             *)
LEMMA DacFrame == [Next]_vars => DacStep
  <1> SUFFICES ASSUME [Next]_vars PROVE DacStep
    OBVIOUS
  <1> USE DEF playerVars
  <1>1. CASE PlayerLoop
    BY <1>1 DEF PlayerLoop, OnState, DacStep
  <1>2. CASE VolumeChanges
    BY <1>2, SMTT(30) DEF VolumeChanges, OnState, DacStep
  <1>3. CASE PlayerSoundEnds \/ MediaChanges
    BY <1>3, SMTT(30) DEF PlayerSoundEnds, SoundEnds, MediaChanges, MediaCommand, DacStep
  <1>4. CASE TimerFinished
    BY <1>4 DEF TimerFinished, play_sound, DacStep
  <1>5. CASE RingTimeout
    BY <1>5, RingOffFrame, SMTT(30) DEF RingTimeout, DacStep
  <1>6. CASE WakeWord
    BY <1>6, AbortFrame, SMTT(30) DEF WakeWord, SoundThenStart, play_sound, DacStep
  <1>7. CASE ActionButton
    BY <1>7, AbortFrame, SMTT(30) DEF ActionButton, SoundThenStart, play_sound, MediaCommand, DacStep
  <1>8. CASE DelayedStart \/ OtherPress
    BY <1>8, SMTT(30) DEF DelayedStart, OtherPress, play_sound, DacStep
  <1>9. CASE RunStarts \/ Listening \/ Reply
    BY <1>9, SMTT(30) DEF RunStarts, Listening, Reply, DacStep
  <1>10. CASE Speaks \/ Spoken \/ VaStopped
    BY <1>10, SMTT(30) DEF Speaks, play_sound, Spoken, VaStopped, DacStep
  <1>11. CASE \E code \in ErrorCodes : RunFails(code)
    BY <1>11, SMTT(30) DEF RunFails, play_sound, DacStep
  <1>12. CASE RunEnds \/ EndWaited \/ ErrorDelayEnds
    BY <1>12, SMTT(30) DEF RunEnds, EndWaited, ErrorDelayEnds, DacStep
  <1>13. CASE Disconnect \/ Connect \/ VaConnects
    BY <1>13, SMTT(30) DEF Disconnect, va_stop, stop_announcement, Connect, VaConnects, DacStep
  <1>14. CASE EnableStopWord \/ DisableStopWord
    BY <1>14, SMTT(30) DEF EnableStopWord, DisableStopWord, DacStep
  <1>15. CASE HardwareMute \/ (\E on \in BOOLEAN : SoftwareMute(on))
    BY <1>15, SMTT(30) DEF HardwareMute, SoftwareMute, play_sound, DacStep
  <1>16. CASE WarningOver \/ ErrorOver
    BY <1>16, SMTT(30) DEF WarningOver, ErrorOver, DacStep
  <1>17. CASE JackIn \/ JackOut
    BY <1>17, SMTT(30) DEF JackIn, JackOut, DacStep
  <1>18. CASE JackSound \/ JackShown
    BY <1>18, SMTT(30) DEF JackSound, JackShown, play_sound, DacStep
  <1>19. CASE OfDacs(Interval \/ ActivateTas2780)
    BY <1>19 DEF OfDacs, DacStep
  <1>20. CASE \E target \in {"tas2780", "pcm5122"} : OfDacs(SwitchOutput(target))
    BY <1>20, SMTT(30) DEF OfDacs, DacStep
  <1>21. CASE UNCHANGED vars
    BY <1>21, SMTT(30) DEF vars, DacStep
  <1> QED BY <1>1, <1>2, <1>3, <1>4, <1>5, <1>6, <1>7, <1>8, <1>9, <1>10, <1>11, <1>12, <1>13, <1>14,
             <1>15, <1>16, <1>17, <1>18, <1>19, <1>20, <1>21, SMTT(30) DEF Next

-----------------------------------------------------------------------------
DacInv == DacTypeOK /\ DacPowered

(* And DacStep keeps the invariant.                                        *)
LEMMA DacInvStep ==
  ASSUME DacInv, DacStep
  PROVE  DacInv'
  <1> USE DEF DacInv, DacTypeOK, DacPowered, DacInUse
  <1>1. CASE \E state \in MediaStates \union {"ANNOUNCING"} : shown' = state /\ OnStateDacs(state)
    <2>1. OnStateDacs(shown')
      BY <1>1
    <2>2. DacTypeOK'
      BY <2>1, Zenon DEF OnStateDacs
    <2>3. Audible(shown') /\ line_out_sensor => pcm5122_active'
      BY <2>1, Zenon DEF OnStateDacs
    <2>4. Audible(shown') /\ ~line_out_sensor => tas2780_active'
      BY <2>1, Zenon DEF OnStateDacs
    <2>5. line_out_sensor' = line_out_sensor
      BY <2>1 DEF OnStateDacs
    <2> QED BY <2>2, <2>3, <2>4, <2>5, SMTT(30) DEF Audible
  <1>2. CASE UNCHANGED shown /\ OnStateDacs(shown)
    BY <1>2, Zenon DEF OnStateDacs
  <1>3. CASE UNCHANGED shown /\ (LineOutPressed \/ LineOutReleased)
    BY <1>3, Zenon DEF LineOutPressed, LineOutReleased
  <1>4. CASE UNCHANGED shown /\ Interval
    <2>1. DacTypeOK'
      BY <1>4, Zenon DEF Interval
    <2>2. ~Audible(shown')
      BY <1>4 DEF Interval
    <2> QED BY <2>1, <2>2 DEF Audible
  <1>7. CASE UNCHANGED shown /\ ActivateTas2780
    BY <1>7, Zenon DEF ActivateTas2780
  <1>5. CASE UNCHANGED shown /\ \E target \in {"tas2780", "pcm5122"} : SwitchOutput(target)
    BY <1>5, SMTT(30) DEF SwitchOutput
  <1>6. CASE UNCHANGED <<shown, dacVars>>
    BY <1>6 DEF dacVars
  <1> QED BY <1>1, <1>2, <1>3, <1>4, <1>5, <1>6, <1>7, SMTT(30) DEF DacStep

(* Whatever the jack, the interval, the contract, the API and the player do*)
(* in whatever order, nothing is played into a DAC that is powered down,   *)
(* but for the moment after the jack was pulled.                           *)
THEOREM DacAlwaysPowered == Spec => []DacPowered
  <1>1. Init => DacInv
    BY Zenon DEF Init, PlayerInit, DacInit, DacInv, DacTypeOK, DacPowered, Audible
  <1>2. DacInv /\ [Next]_vars => DacInv'
    BY DacFrame, DacInvStep
  <1>3. DacInv => DacPowered
    BY SMTT(30) DEF DacInv
  <1> QED BY <1>1, <1>2, <1>3, PTL DEF Spec

-----------------------------------------------------------------------------
(* The steps that touch the timer's switch or the stop word.               *)
RingStep ==
  \/ TimerFinished \/ turn_off_ringing \/ Reply \/ EnableStopWord \/ DisableStopWord
  \/ UNCHANGED ringVars

(* Every step treats the ringing as RingStep says.                         *)
LEMMA RingFrame == [Next]_vars => RingStep
  <1> SUFFICES ASSUME [Next]_vars PROVE RingStep
    OBVIOUS
  <1>1. CASE PlayerLoop \/ VolumeChanges
    BY <1>1 DEF PlayerLoop, VolumeChanges, RingStep
  <1>3. CASE PlayerSoundEnds \/ MediaChanges
    BY <1>3 DEF PlayerSoundEnds, MediaChanges, RingStep
  <1>4. CASE TimerFinished \/ RingTimeout
    BY <1>4 DEF RingTimeout, RingStep
  <1>6. CASE WakeWord
    BY <1>6, Zenon DEF WakeWord, Abort, SoundThenStart, RingStep
  <1>7. CASE ActionButton
    BY <1>7, Zenon DEF ActionButton, Abort, SoundThenStart, RingStep
  <1>8. CASE DelayedStart \/ OtherPress
    BY <1>8, Zenon DEF DelayedStart, OtherPress, RingStep
  <1>9. CASE RunStarts \/ Listening \/ Reply
    BY <1>9, SMTT(30) DEF RunStarts, Listening, RingStep
  <1>10. CASE Speaks \/ Spoken \/ VaStopped
    BY <1>10, Zenon DEF Speaks, Spoken, VaStopped, RingStep
  <1>11. CASE \E code \in ErrorCodes : RunFails(code)
    BY <1>11 DEF RunFails, RingStep
  <1>12. CASE RunEnds \/ EndWaited \/ ErrorDelayEnds
    BY <1>12, SMTT(30) DEF RunEnds, EndWaited, ErrorDelayEnds, RingStep
  <1>13. CASE Disconnect \/ Connect \/ VaConnects
    BY <1>13 DEF Disconnect, Connect, VaConnects, RingStep
  <1>14. CASE EnableStopWord \/ DisableStopWord
    BY <1>14 DEF RingStep
  <1>15. CASE HardwareMute \/ (\E on \in BOOLEAN : SoftwareMute(on))
    BY <1>15, Zenon DEF HardwareMute, SoftwareMute, RingStep
  <1>16. CASE WarningOver \/ ErrorOver
    BY <1>16, SMTT(30) DEF WarningOver, ErrorOver, RingStep
  <1>17. CASE JackIn \/ JackOut
    BY <1>17, SMTT(30) DEF JackIn, JackOut, RingStep
  <1>18. CASE JackSound \/ JackShown
    BY <1>18, Zenon DEF JackSound, JackShown, RingStep
  <1>19. CASE \/ OfDacs(Interval \/ ActivateTas2780)
              \/ \E target \in {"tas2780", "pcm5122"} : OfDacs(SwitchOutput(target))
    BY <1>19 DEF OfDacs, RingStep
  <1>21. CASE UNCHANGED vars
    BY <1>21, SMTT(30) DEF vars, RingStep
  <1> QED BY <1>1, <1>3, <1>4, <1>6, <1>7, <1>8, <1>9, <1>10, <1>11, <1>12, <1>13, <1>14,
             <1>15, <1>16, <1>17, <1>18, <1>19, <1>21, SMTT(30) DEF Next

RingInv == timer_ringing \in BOOLEAN /\ stop_enabled \in BOOLEAN /\ ring_timeout \in BOOLEAN /\ RingStops

(* And RingStep keeps the invariant.                                       *)
LEMMA RingInvStep ==
  ASSUME RingInv, RingStep
  PROVE  RingInv'
  <1> USE DEF RingInv, RingStops
  <1>1. CASE TimerFinished
    BY <1>1 DEF TimerFinished
  <1>2. CASE turn_off_ringing
    BY <1>2, Zenon DEF turn_off_ringing
  <1>3. CASE Reply
    BY <1>3 DEF Reply
  <1>4. CASE EnableStopWord
    BY <1>4, Zenon DEF EnableStopWord
  <1>5. CASE DisableStopWord
    BY <1>5 DEF DisableStopWord
  <1>6. CASE UNCHANGED ringVars
    BY <1>6 DEF ringVars
  <1> QED BY <1>1, <1>2, <1>3, <1>4, <1>5, <1>6, SMTT(30) DEF RingStep

(* However rings and replies overlap, a ring can be stopped by voice and   *)
(* has its timeout, and the stop word is on only while one of them needs it*)
(* or waits to turn it off.                                                *)
THEOREM RingAlwaysStops == Spec => []RingStops
  <1>1. Init => RingInv
    BY Zenon DEF Init, RingInv, RingStops
  <1>2. RingInv /\ [Next]_vars => RingInv'
    BY RingFrame, RingInvStep
  <1>3. RingInv => RingStops
    BY SMTT(30) DEF RingInv
  <1> QED BY <1>1, <1>2, <1>3, PTL DEF Spec

-----------------------------------------------------------------------------
(* Every step either refreshes the LEDs or changes nothing that they show. *)
Shows == <<connected, on_press, on_release, warning, timer_ringing, voice_assistant_phase, master_mute_switch>>

LedStep ==
  \/ UNCHANGED ledVars /\ Effect' = Effect
  \/ control_leds(Effect') \/ WarningEnds(Effect') \/ ErrorEnds(Effect')

(* A step that leaves Shows alone leaves the effect of the ring alone.     *)
LEMMA EffectKept == UNCHANGED Shows => Effect' = Effect
  <1> SUFFICES ASSUME UNCHANGED Shows PROVE Effect' = Effect
    OBVIOUS
  <1>1. UNCHANGED <<connected, on_press, on_release, warning, timer_ringing, voice_assistant_phase>>
    BY DEF Shows
  <1>2. master_mute_switch' = master_mute_switch
    BY DEF Shows
  <1>3. PhaseEffect' = PhaseEffect
    BY <1>2, SMTT(30) DEF PhaseEffect
  <1> QED BY <1>1, <1>3, SMTT(30) DEF Effect

(* A step that leaves the ring and Shows alone is one of LedStep.          *)
LEMMA LedKept == UNCHANGED <<ledVars, Shows>> => LedStep
  BY EffectKept DEF LedStep

(* So is a call of control_leds ...                                        *)
LEMMA Refreshed == RefreshLeds => LedStep
  BY DEF RefreshLeds, LedStep

(* ... and aborting the assistant.                                         *)
LEMMA AbortLed == Abort => LedStep
  <1> SUFFICES ASSUME Abort PROVE LedStep
    OBVIOUS
  <1>1. CASE turn_off_ringing
    BY <1>1, Refreshed, SMTT(30) DEF turn_off_ringing
  <1>2. CASE UNCHANGED <<ledVars, ringVars, connected, endVars, jackVars, muteVars>>
    BY <1>2, LedKept, SMTT(30) DEF ledVars, ringVars, endVars, jackVars, muteVars, Shows
  <1> QED BY <1>1, <1>2, SMTT(30) DEF Abort, vaVars

(* Every step treats the ring as LedStep says.                             *)
LEMMA LedFrame == [Next]_vars => LedStep
  <1> SUFFICES ASSUME [Next]_vars PROVE LedStep
    OBVIOUS
  <1>k. UNCHANGED <<ledVars, ringVars, connected, endVars, jackVars, muteVars>> => LedStep
    BY LedKept, SMTT(30) DEF ledVars, ringVars, endVars, jackVars, muteVars, Shows
  <1>1. CASE PlayerLoop
    BY <1>1, <1>k, SMTT(30) DEF PlayerLoop, vaVars
  <1>2. CASE VolumeChanges \/ TimerFinished \/ Listening \/ Reply
    BY <1>2, Refreshed, Zenon DEF VolumeChanges, TimerFinished, Listening, Reply
  <1>3. CASE PlayerSoundEnds \/ MediaChanges
    BY <1>3, <1>k DEF PlayerSoundEnds, MediaChanges, vaVars
  <1>5. CASE RingTimeout
    BY <1>5, Refreshed, SMTT(30) DEF RingTimeout, turn_off_ringing
  <1>6. CASE WakeWord
    BY <1>6, <1>k, AbortLed, Zenon DEF WakeWord, SoundThenStart
  <1>7. CASE ActionButton
    BY <1>7, <1>k, AbortLed, Zenon DEF ActionButton, SoundThenStart, vaVars
  <1>8. CASE DelayedStart \/ OtherPress
    BY <1>8, <1>k, Zenon DEF DelayedStart, OtherPress, vaVars
  <1>9. CASE RunStarts \/ Speaks \/ Spoken \/ VaStopped
    BY <1>9, <1>k, Zenon DEF RunStarts, Speaks, Spoken, VaStopped
  <1>11. CASE \E code \in ErrorCodes : RunFails(code)
    <2>1. PICK code \in ErrorCodes : RunFails(code)
      BY <1>11, SMTT(30)
    <2>2. CASE code = "stt-no-text-recognized"
      <3>1. /\ voice_assistant_phase' = voice_assistant_phase /\ connected' = connected
            /\ UNCHANGED <<ledVars, ringVars, jackVars, muteVars>>
        BY <2>1, <2>2, SMTT(30) DEF RunFails
      <3>2. UNCHANGED <<ledVars, Shows>>
        BY <3>1, SMTT(30) DEF ledVars, ringVars, jackVars, muteVars, Shows
      <3> QED BY <3>2, LedKept, SMTT(30)
    <2>3. CASE code # "stt-no-text-recognized"
      BY <2>1, <2>3, Refreshed, SMTT(30) DEF RunFails
    <2> QED BY <2>2, <2>3, SMTT(30)
  <1>12. CASE RunEnds
    BY <1>12, LedKept DEF RunEnds, ledVars, ringVars, jackVars, muteVars, Shows
  <1>13. CASE EndWaited
    <2>1. CASE voice_assistant_phase = "error"
      BY <1>13, <2>1, LedKept, SMTT(30) DEF EndWaited, ledVars, ringVars, vaVars, jackVars, muteVars, Shows
    <2>2. CASE voice_assistant_phase # "error"
      BY <1>13, <2>2, Refreshed, SMTT(30) DEF EndWaited
    <2> QED BY <2>1, <2>2, SMTT(30)
  <1>14. CASE ErrorDelayEnds \/ Disconnect \/ Connect \/ VaConnects
    BY <1>14, Refreshed, SMTT(30) DEF ErrorDelayEnds, Disconnect, Connect, VaConnects
  <1>15. CASE EnableStopWord \/ DisableStopWord
    BY <1>15, LedKept DEF EnableStopWord, DisableStopWord, ledVars, vaVars, endVars, jackVars, muteVars, Shows
  <1>16. CASE HardwareMute
    <2>1. CASE master_mute_switch' = master_mute_switch
      BY <1>16, <2>1, LedKept, SMTT(30) DEF HardwareMute, ledVars, ringVars, vaVars, endVars, jackVars, Shows
    <2>2. CASE master_mute_switch' # master_mute_switch
      BY <1>16, <2>2, Refreshed, SMTT(30) DEF HardwareMute
    <2> QED BY <2>1, <2>2, SMTT(30)
  <1>17. CASE \E on \in BOOLEAN : SoftwareMute(on)
    <2>1. PICK on \in BOOLEAN : SoftwareMute(on)
      BY <1>17, SMTT(30)
    <2>2. CASE ~on /\ btn_left
      BY <2>1, <2>2, SMTT(30) DEF SoftwareMute, LedStep
    <2>3. CASE ~(~on /\ btn_left) /\ master_mute_switch' = master_mute_switch
      BY <2>1, <2>3, LedKept, SMTT(30) DEF SoftwareMute, ledVars, ringVars, vaVars, endVars, jackVars, Shows
    <2>4. CASE ~(~on /\ btn_left) /\ master_mute_switch' # master_mute_switch
      BY <2>1, <2>4, Refreshed, SMTT(30) DEF SoftwareMute
    <2> QED BY <2>2, <2>3, <2>4, SMTT(30)
  <1>18. CASE WarningOver \/ ErrorOver
    BY <1>18, SMTT(30) DEF WarningOver, ErrorOver, LedStep
  <1>19. CASE JackIn \/ JackOut \/ JackShown
    BY <1>19, Refreshed, SMTT(30) DEF JackIn, JackOut, JackShown
  <1>20. CASE JackSound
    <2>1. /\ (on_press' # "off") = (on_press # "off") /\ (on_release' # "off") = (on_release # "off")
          /\ UNCHANGED <<ledVars, ringVars, vaVars, endVars, muteVars>>
      BY <1>20, SMTT(30) DEF JackSound
    <2>2. Effect' = Effect
      BY <2>1, Zenon DEF ledVars, ringVars, vaVars, endVars, muteVars, Effect, PhaseEffect
    <2> QED BY <2>1, <2>2, SMTT(30) DEF LedStep
  <1>21. CASE \/ OfDacs(Interval \/ ActivateTas2780)
              \/ \E target \in {"tas2780", "pcm5122"} : OfDacs(SwitchOutput(target))
    BY <1>21, <1>k, SMTT(30) DEF OfDacs, vaVars
  <1>22. CASE UNCHANGED vars
    BY <1>22, <1>k, SMTT(30) DEF vars, vaVars
  <1> QED BY <1>1, <1>2, <1>3, <1>5, <1>6, <1>7, <1>8, <1>9, <1>11, <1>12, <1>13, <1>14,
             <1>15, <1>16, <1>17, <1>18, <1>19, <1>20, <1>21, <1>22, SMTT(30) DEF Next

(* And LedStep keeps the invariant.                                        *)
LEMMA LedInvStep ==
  ASSUME LedShowsState, LedStep
  PROVE  LedShowsState'
  <1>1. CASE UNCHANGED ledVars /\ Effect' = Effect
    BY <1>1, Zenon DEF ledVars, LedShowsState
  <1>2. CASE control_leds(Effect')
    BY <1>2, Zenon DEF control_leds, LedShowsState
  <1>3. CASE WarningEnds(Effect')
    BY <1>3, Zenon DEF WarningEnds, LedShowsState
  <1>4. CASE ErrorEnds(Effect')
    BY <1>4, Zenon DEF ErrorEnds, LedShowsState
  <1> QED BY <1>1, <1>2, <1>3, <1>4 DEF LedStep

(* No automation changes what the LED ring should show without refreshing  *)
(* it.                                                                     *)
THEOREM LedAlwaysShowsState == Spec => []LedShowsState
  <1>1. Init => LedShowsState
    <2> SUFFICES ASSUME Init PROVE LedShowsState
      OBVIOUS
    <2>1. led = "Off" /\ warning = FALSE
      BY Zenon DEF Init, LedInit
    <2>2. connected = "va" /\ on_press = "off" /\ on_release = "off" /\ timer_ringing = FALSE
      BY Zenon DEF Init
    <2>3. voice_assistant_phase = "idle" /\ master_mute_switch = FALSE
      BY Zenon DEF Init
    <2>4. PhaseEffect[voice_assistant_phase] = "Off"
      BY <2>3, SMTT(30) DEF PhaseEffect
    <2>5. Effect = "Off"
      BY <2>1, <2>2, <2>4, SMTT(30) DEF Effect
    <2> QED BY <2>1, <2>5, Zenon DEF LedShowsState
  <1>2. LedShowsState /\ [Next]_vars => LedShowsState'
    BY LedFrame, LedInvStep
  <1> QED BY <1>1, <1>2, PTL DEF Spec
=============================================================================
