---------------------------- MODULE PacketNumber ----------------------------
(***************************************************************************)
(* Packet numbers on the wire: how many bytes lsquic's sender spends on    *)
(* one (lsquic_send_ctl.c, lsquic_parse_ietf_v1.c) and how its receiver    *)
(* makes a full number of them again (lsquic_enc_sess_ietf.c).             *)
(***************************************************************************)
EXTENDS Integers

Word == 256 * 256 * 256 * 256 * 256 * 256 * 256 * 256    \* 2^64
PacknoBits == 0..3                                       \* enum packno_bits

\* epoch_delta: the numbers that bits + 1 bytes can tell apart.
EpochDelta(bits) ==
  CASE bits = 0 -> 256
    [] bits = 1 -> 256 * 256
    [] bits = 2 -> 256 * 256 * 256
    [] bits = 3 -> 256 * 256 * 256 * 256

\* The sender's distance to what the peer may still lack, times four.
spread(packno, least_unacked, n_in_flight) ==
  4 * (IF n_in_flight > packno - least_unacked
       THEN n_in_flight ELSE packno - least_unacked)

\* sc_max_packno_bits is PACKNO_BITS_3 once the version is known, so the
\* caller's cap takes nothing away.
ietf_v1_calc_packno_bits(packno, least_unacked, n_in_flight) ==
  LET d == spread(packno, least_unacked, n_in_flight)
  IN  CASE d < 256                            -> 0
        [] d >= 256 /\ d < 256 * 256          -> 1
        [] d >= 256 * 256 /\ d < 256 * 256 * 256 -> 2
        [] d >= 256 * 256 * 256               -> 3

\* The low bytes of the number, as the header carries them.
on_wire(packno, bits) == packno % EpochDelta(bits)

distance(a, b) == IF a < b THEN b - a ELSE a - b

\* A candidate below zero wraps as an unsigned word; its distance is taken
\* after the cast to int64_t, as if it had not.
as_packno(candidate) == IF candidate < 0 THEN candidate + Word ELSE candidate

decode_packno(max_packno, packno, epoch_delta) ==
  LET same  == (max_packno - (max_packno % epoch_delta)) + packno
      below == same - epoch_delta
      above == same + epoch_delta
      min   == IF distance(same, max_packno) < distance(below, max_packno)
               THEN same ELSE below
  IN  as_packno(IF distance(above, max_packno) < distance(min, max_packno)
                THEN above ELSE min)

=============================================================================
