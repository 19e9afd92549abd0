----------------------------- MODULE AuditChain -----------------------------
(***************************************************************************)
(* The hash chain of the audit trail.  A row keeps the hash of the row     *)
(* before it and the hash of its own content and that link.  SHA-256 is    *)
(* taken to be injective: the hash is the sequence of the contents hashed  *)
(* so far.                                                                 *)
(***************************************************************************)
EXTENDS Integers, Sequences

SeedHash == <<>>

ComputeHash(content, prev) == Append(prev, content)

AuditRow(content, prev) ==
  [content |-> content, prev |-> prev, hash |-> ComputeHash(content, prev)]

(* Mutant: ORDER BY id without DESC.                                       *)
GetFirstHash(trail) == IF trail = <<>> THEN SeedHash ELSE trail[1].hash

GetLastHash(trail) ==
  IF trail = <<>> THEN SeedHash ELSE trail[Len(trail)].hash

Link(trail, i) == IF i = 1 THEN SeedHash ELSE trail[i - 1].hash

Linked(trail, i) == trail[i].prev = Link(trail, i)

RowVerifies(trail, i) ==
  Linked(trail, i) /\ trail[i].hash = ComputeHash(trail[i].content, trail[i].prev)

VerifyAuditChain(trail) == \A i \in DOMAIN trail : RowVerifies(trail, i)

(* What a row said when it was written, whatever it says now.              *)
WrittenAs(row) == row.hash[Len(row.hash)]
=============================================================================
