--------------------------- MODULE RecordPolicy ----------------------------
(***************************************************************************)
(* The sizes of the TLS Application Data records RecordConn.Write cuts its *)
(* argument into: RecordPolicy.Normalize, chunkSize, chunkSizeWithMax and  *)
(* outboundChunkSize of internal/faketls.  A random choice is the set of   *)
(* its outcomes.                                                           *)
(***************************************************************************)
EXTENDS Integers

CONSTANTS
    MaxRecordPayload,               \* maxRecordPayload, 16384
    DefaultMinChunk, DefaultMaxChunk,   \* 512 and 4096
    DrsInitialChunk,                \* 1369
    DrsRampRecords, DrsRampBytes    \* 8 records, 128 KB

ASSUME RecordSizesAssumption ==
    /\ MaxRecordPayload \in Nat \ {0} /\ DefaultMinChunk \in Nat \ {0}
    /\ DefaultMaxChunk \in Nat \ {0} /\ DrsInitialChunk \in Nat \ {0}
    /\ DrsRampRecords \in Nat /\ DrsRampBytes \in Nat

AtMost(n, limit) == IF n > limit THEN limit ELSE n

\* Whatever the configuration file says.
Policy == [min : Int, max : Int, drs : BOOLEAN, split : BOOLEAN]

\* Mutant: the lower limit is not brought under the upper one.
NormalizeKeepsMin(p) ==
    [p EXCEPT !.min = IF @ <= 0 THEN DefaultMinChunk ELSE @,
              !.max = AtMost(IF @ <= 0 THEN DefaultMaxChunk ELSE @, MaxRecordPayload)]

Normalize(p) ==
    LET min == IF p.min <= 0 THEN DefaultMinChunk ELSE p.min
        max == AtMost(IF p.max <= 0 THEN DefaultMaxChunk ELSE p.max, MaxRecordPayload)
    IN [p EXCEPT !.min = AtMost(min, max), !.max = max]

\* size := MinChunk + randInt(span), cut to what remains and to a record.
chunkSize(p, remaining) ==
    IF remaining <= p.min THEN {remaining}
    ELSE { AtMost(AtMost(size, remaining), MaxRecordPayload) : size \in p.min..p.max }

chunkSizeWithMax(p, remaining, maxChunk) ==
    IF remaining <= p.min THEN {remaining}
    ELSE { AtMost(size, maxChunk) : size \in chunkSize(p, remaining) }

\* The first records of a connection are small, with dynamic record sizing.
Ramp(p, records, bytes) == p.drs /\ records < DrsRampRecords /\ bytes < DrsRampBytes

outboundChunkSize(p, records, bytes, remaining) ==
    IF remaining <= p.min THEN {remaining}
    ELSE chunkSizeWithMax(p, remaining,
             IF Ramp(p, records, bytes) THEN AtMost(p.max, DrsInitialChunk) ELSE p.max)
=============================================================================
