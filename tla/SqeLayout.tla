------------------------------ MODULE SqeLayout ------------------------------
(***************************************************************************)
(* Where the fields of io_uring_sqe lie.  The structure is 64 bytes of     *)
(* named fields, most of them unions: off, addr2 and cmd_op are the same   *)
(* bytes, and which of them a request means depends on its opcode.  A      *)
(* builder that picks the wrong member of the right union, or the right    *)
(* member twice, compiles.                                                 *)
(***************************************************************************)
EXTENDS Naturals

\* A field: its first byte and how many bytes it has.
At(offset, width) == [offset |-> offset, width |-> width]

BytesOf(field) == field.offset .. (field.offset + field.width - 1)

SqeFields ==
    [opcode |-> At(0, 1), flags |-> At(1, 1), ioprio |-> At(2, 2), fd |-> At(4, 4),
     len |-> At(24, 4), user_data |-> At(32, 8), personality |-> At(42, 2)]

\* __bindgen_anon_1: the second 64-bit argument, or the command of a uring_cmd
Anon1 == [off |-> At(8, 8), addr2 |-> At(8, 8), cmd_op |-> At(8, 4)]

\* __bindgen_anon_2: the first 64-bit argument
Anon2 == [addr |-> At(16, 8), splice_off_in |-> At(16, 8),
          level |-> At(16, 4), optname |-> At(20, 4)]

\* __bindgen_anon_3: one 32-bit word, named once for every operation that has flags
Anon3 == [op_flags |-> At(28, 4)]

Anon4 == [buf_index |-> At(40, 2), buf_group |-> At(40, 2)]

Anon5 == [splice_fd_in |-> At(44, 4), file_index |-> At(44, 4),
          zcrx_ifq_idx |-> At(44, 4), optlen |-> At(44, 4), addr_len |-> At(44, 2)]

Anon6 == [addr3 |-> At(48, 8), optval |-> At(48, 8), cmd |-> At(48, 16)]

\* The second half of an Entry128, [u8; 64].
Upper == [cmd_upper |-> At(64, 64)]

Fields ==
    [f \in (DOMAIN SqeFields) \cup (DOMAIN Anon1) \cup (DOMAIN Anon2) \cup (DOMAIN Anon3)
           \cup (DOMAIN Anon4) \cup (DOMAIN Anon5) \cup (DOMAIN Anon6) \cup (DOMAIN Upper) |->
        CASE f \in DOMAIN SqeFields -> SqeFields[f]
          [] f \in DOMAIN Anon1 -> Anon1[f]
          [] f \in DOMAIN Anon2 -> Anon2[f]
          [] f \in DOMAIN Anon3 -> Anon3[f]
          [] f \in DOMAIN Anon4 -> Anon4[f]
          [] f \in DOMAIN Anon5 -> Anon5[f]
          [] f \in DOMAIN Anon6 -> Anon6[f]
          [] f \in DOMAIN Upper -> Upper[f]]

EntryBytes    == 0 .. 63
Entry128Bytes == 0 .. 127
=============================================================================
