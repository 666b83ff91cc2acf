------------------------------- MODULE MCRtc -------------------------------
(* Instances of Rtc for TLC. *)
EXTENDS Rtc

\* Every power of two up to the clock's limits, their neighbours, and what is
\* refused.
EdgeFreqs == {1, 2, 3, 4, 7, 8, 9, 511, 512, 513, 1023, 1024, 1025, 2047, 2048}
PowerFreqs == {1, 2, 4, 8, 16, 32, 64, 128, 256, 512, 1024, 2048}

\* The conversion of rtc_write (rtc.c 79-98) gives the frequency promised.
ASSUME RatesExact ==
    \A f \in EdgeFreqs \cup PowerFreqs : Hertz(RateNibble(f)) = Promised(f)

=============================================================================
