------------------------- MODULE ReorderBufferFifo -------------------------
(***************************************************************************)
(* What a ReorderBuffer of `Capacity` entries and retire width `Width`     *)
(* promises, stated over the whole history of retirements: every          *)
(* retirement happens at the earliest cycle that is no earlier than the    *)
(* one requested and than the previous retirement, and that has fewer     *)
(* than Width retirements; an insertion may happen once the entry          *)
(* `Capacity` retirements back has retired.                                *)
(***************************************************************************)
EXTENDS Naturals, Sequences, FiniteSets, FiniteSetsExt

CONSTANTS Capacity, Width, Requests, MaxRetires

VARIABLE retired   \* the retire cycles, oldest first

LastRetire == IF retired = <<>> THEN 0 ELSE retired[Len(retired)]

RetiresAt(cy) == Cardinality({i \in DOMAIN retired : retired[i] = cy})

(* The earliest admissible cycle for a retirement requested at c; the     *)
(* cycle after the later of c and LastRetire is always admissible.         *)
EarliestRetire(c) ==
  LET from == IF c > LastRetire THEN c ELSE LastRetire
  IN Min({cy \in {from, from + 1} : RetiresAt(cy) < Width})

AllocCycle ==
  IF Len(retired) >= Capacity THEN retired[Len(retired) - Capacity + 1] ELSE 0

Init == retired = <<>>

Retire(c) ==
  /\ Len(retired) < MaxRetires
  /\ retired' = Append(retired, EarliestRetire(c))

Spec == Init /\ [][\E c \in Requests : Retire(c)]_retired
=============================================================================
