------------------------------ MODULE FakeAddr ------------------------------
(***************************************************************************)
(* The addresses of the Fake-IP pool: the geometry NewIPPoolWithConfig     *)
(* derives from a base address and a size, the Level 1 hash that gives a   *)
(* real address its natural Fake-IP, and the linear probing that           *)
(* GetFakeIPsForReals falls back to when that address is leased.           *)
(*                                                                         *)
(* An address is an IPKey: its family and its value.  IPv4 addresses are   *)
(* whole 32-bit words; of an IPv6 address only the low word is kept, the   *)
(* only one the allocator computes with.  Words wrap at WordSize (2^32)    *)
(* and the last octet of an IPv4 address at Octet (256).  What fnv1aBytes  *)
(* returns for a real address is left open: a hash is any word.            *)
(***************************************************************************)
EXTENDS Integers

CONSTANTS
  WordSize,   \* number of values of a uint32
  Octet,      \* number of values of the last octet of an IPv4 address
  MaxProbes   \* the cap of 1024 on probing attempts

ASSUME FakeAddrAssumption ==
  /\ WordSize \in Nat \ {0}
  /\ Octet \in Nat \ {0, 1, 2}
  /\ MaxProbes \in Nat \ {0}

IPKey == [isIPv6 : BOOLEAN, val : Nat]

Key(isIPv6, val) == [isIPv6 |-> isIPv6, val |-> val]

\* The order of bytes.Compare on To16(): an IPv4 address is ::ffff:a.b.c.d,
\* below every address an IPv6 pool can hold.
KeyLeq(a, b) ==
  \/ ~a.isIPv6 /\ b.isIPv6
  \/ a.isIPv6 = b.isIPv6 /\ a.val <= b.val

Word(n) == n % WordSize

Least(S) == {n \in S : \A m \in S : n <= m}

-----------------------------------------------------------------------------
(* Geometry *)

\* 2^ceil(log2(size)), the number of addresses the advertised CIDR covers.
BlockSize(size) ==
  CHOOSE b \in Least({p \in {2^k : k \in 0 .. size} : p >= size}) : TRUE

\* The first address of the advertised CIDR block around an address.
BlockOf(addr, size) == addr - (addr % BlockSize(size))

\* A pool: the family, the first address and the number of addresses.  An
\* IPv4 start of 0 (an unparsable base, or one that masks to 0.0.0.0) is
\* replaced by the built-in 198.18.0.0, which is not masked again.
Geometry(isIPv6, base, size, builtin) ==
  LET start == BlockOf(base, size)
  IN  [isIPv6 |-> isIPv6,
       start  |-> IF ~isIPv6 /\ start = 0 THEN builtin ELSE start,
       size   |-> size]

\* isInSubnet: membership of the CIDR that GetPoolNet or GetPoolNet6
\* advertises.
InSubnet(g, k) ==
  /\ k.isIPv6 = g.isIPv6
  /\ BlockOf(k.val, g.size) = BlockOf(g.start, g.size)

-----------------------------------------------------------------------------
(* Allocation *)

\* An IPv4 network or broadcast address of a /24.
Reserved(g, val) == ~g.isIPv6 /\ val % Octet \in {0, Octet - 1}

\* Mutant of ComputeLevel1Hash: reserved addresses are handed out.
ComputeLevel1HashUnadjusted(g, h) ==
  Key(g.isIPv6, Word(g.start + (h % g.size)))

\* The natural Fake-IP of a real address with hash h.
ComputeLevel1Hash(g, h) ==
  LET val == Word(g.start + (h % g.size))
  IN  Key(g.isIPv6,
          IF ~Reserved(g, val) THEN val
          ELSE IF val % Octet = 0 THEN Word(val + 1) ELSE Word(val - 1))

\* The address tried by an attempt of the probing loop.
Candidate(g, h, attempt) ==
  LET naturalOffset == Word(ComputeLevel1Hash(g, h).val - g.start)
  IN  Key(g.isIPv6, Word(g.start + (Word(naturalOffset + attempt) % g.size)))

\* Mutant of Attempts: the last address is never tried.
AttemptsShort(g) == 0 .. (IF g.size > MaxProbes THEN MaxProbes ELSE g.size) - 2

Attempts(g) == 0 .. (IF g.size > MaxProbes THEN MaxProbes ELSE g.size) - 1

\* The attempts that end the loop: not a reserved address and not leased.
Hits(g, h, leased) ==
  {a \in Attempts(g) : /\ ~Reserved(g, Candidate(g, h, a).val)
                       /\ Candidate(g, h, a) \notin leased}

\* finalFake, as a set: {} when the pool is exhausted, else a singleton.
FinalFake(g, h, leased) ==
  LET natural == ComputeLevel1Hash(g, h)
  IN  IF natural \notin leased THEN {natural}
      ELSE {Candidate(g, h, a) : a \in Least(Hits(g, h, leased))}

=============================================================================
