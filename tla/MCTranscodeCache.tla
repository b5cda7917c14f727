-------------------------- MODULE MCTranscodeCache --------------------------
\* A small instance of TranscodeCache: a variant that fits into the cache (k1), and
\* one that does not (k2), but makes room for itself before that is known.
EXTENDS TranscodeCache, TLC

CONSTANTS k1, k2

MCSizeOf == [k \in Keys |-> IF k = k1 THEN 1 ELSE 2]

\* What the dashboard shows is written, and never read by a request or a property.
WithoutDashboard == <<disk, flights, operation, victim, req>>
=============================================================================
