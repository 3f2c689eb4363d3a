------------------------------- MODULE Decode -------------------------------
(***************************************************************************)
(* The tables of instructions of the processors against the bytes that     *)
(* their execution fetches.  dc and disassemble step through the program   *)
(* with the length of the table, and `next' puts its breakpoint that far   *)
(* behind a call; the processor goes by what it fetches.                   *)
(*                                                                         *)
(* A session looks at one instruction (any code of any page), then does    *)
(* `next'.  `at' is where dc comes to, `pc' where the instruction ends or, *)
(* for a call, the return address it pushes, and `stop' where `next' ends: *)
(* "behind" the instruction, "inside" the callee or "lost", if the program *)
(* runs past the breakpoint.  A call is an instruction that pushes the     *)
(* address to return to and goes elsewhere.                                *)
(***************************************************************************)
EXTENDS Integers, FiniteSets

VARIABLE dec

Unknown == <<1, " ">>       \* the end of every table
Octal(c) == <<c \div 64, (c \div 8) % 8, c % 8>>
Col(c) == c % 16
Row(c) == c \div 16
-----------------------------------------------------------------------------
(* <<length, branch>> of a code of the MCS51, codes 00-7f and 80-ff        *)
disass_51(c) ==
  CASE c \in {\h22, \h32, \h73} -> <<1, "_">>
    [] Col(c) = 1 -> <<2, IF Row(c) % 2 = 0 THEN "A" ELSE "a">>
    [] c \in {\h40, \h50, \h60, \h70} -> <<2, "r">>
    [] c \in {\h05, \h15, \h24, \h25, \h34, \h35, \h42, \h44, \h45, \h52, \h54, \h55, \h62,
              \h64, \h65, \h72, \h74} \cup \h76 .. \h7f -> <<2, " ">>
    [] c \in {\h43, \h53, \h63, \h75} -> <<3, " ">>
    [] c = \h02 -> <<3, "L">>
    [] c = \h12 -> <<3, "l">>
    [] c \in {\h10, \h20, \h30} -> <<3, "R">>
    [] OTHER -> <<1, " ">>
disass_51_80(c) ==
  CASE c = \ha5 -> <<1, "_">>
    [] Col(c) = 1 -> <<2, IF Row(c) % 2 = 0 THEN "A" ELSE "a">>
    [] c \in \hd8 .. \hdf -> <<2, "r">>
    [] c = \h80 -> <<2, "s">>
    [] c \in \h86 .. \h8f \cup \ha6 .. \haf
             \cup {\h82, \h92, \h94, \h95, \ha0, \ha2, \hb0, \hb2, \hc0, \hc2, \hc5, \hd0, \hd2,
                   \he5, \hf5} -> <<2, " ">>
    [] c \in {\h85, \h90} -> <<3, " ">>
    [] c \in \hb4 .. \hbf \cup {\hd5} -> <<3, "R">>
    [] OTHER -> <<1, " ">>

(* What exec_inst fetches of a code.  Columns 6 to f have registers, 4 and *)
(* 5 a byte or a direct address.                                           *)
exec_51(c) ==
  LET direct == IF Col(c) = 5 THEN 1 ELSE 0
      data == IF Col(c) < 6 THEN 1 ELSE 0
  IN CASE Row(c) \in {0, 1} /\ Col(c) >= 4 -> 1 + direct            \* INC, DEC
       [] Row(c) \in {2, 3, 4, 5, 6, 9} /\ Col(c) >= 4 -> 1 + data  \* arithmetic, logic
       [] Row(c) = 7 /\ Col(c) >= 4 -> 2 + direct                   \* MOV x,#data
       [] Row(c) = 8 /\ Col(c) >= 5 -> 2 + direct                   \* MOV addr,x
       [] c = \h84 \/ c = \ha4 \/ c = \ha5 -> 1                     \* DIV, MUL, unknown
       [] Row(c) = \ha /\ Col(c) >= 6 -> 2                          \* MOV x,addr
       [] Row(c) = \hb /\ Col(c) >= 4 -> 3                          \* CJNE
       [] Row(c) \in {\hc, \he, \hf} /\ Col(c) >= 4 -> 1 + direct   \* XCH, MOV
       [] Row(c) = \hd /\ Col(c) >= 4 ->                            \* DA, DJNZ, XCHD
            IF Col(c) = 5 THEN 3 ELSE IF Col(c) >= 8 THEN 2 ELSE 1
       [] Col(c) = 1 -> 2                                           \* AJMP, ACALL
       [] Col(c) = 0 -> IF c = 0 \/ c \in {\he0, \hf0} THEN 1
                        ELSE IF Row(c) \in {1, 2, 3, 9} THEN 3 ELSE 2
       [] Col(c) = 2 -> IF Row(c) \in {2, 3, \he, \hf} THEN 1 ELSE IF Row(c) < 2 THEN 3 ELSE 2
       [] OTHER -> IF Row(c) \in {4, 5, 6} THEN 3 ELSE 1            \* column 3
calls_51(c) == (Col(c) = 1 /\ Row(c) % 2 = 1) \/ c = \h12
-----------------------------------------------------------------------------
(* The Z80: the main table up to 7f and behind it, the pages.  An entry    *)
(* that is missing has no branch.                                          *)
disass_z80(c) ==
  CASE c \in {\h01, \h11, \h19, \h21, \h22, \h2a, \h31, \h32, \h3a} -> <<3, " ">>
    [] c \in {\h10, \h18, \h20, \h28, \h30, \h38} -> <<2, "R">>
    [] c \in {\h06, \h0e, \h16, \h1e, \h26, \h2e, \h36, \h3e} -> <<2, " ">>
    [] OTHER -> <<1, " ">>
disass_z80_80(c) ==
  CASE c = \hfa -> <<3, " ">>
    [] c \in {\hc2, \hc3, \hca, \hd2, \hda, \he2, \hea, \hf2} -> <<3, "A">>
    [] c \in {\hc4, \hcc, \hcd, \hd4, \hdc, \he4, \hec, \hf4, \hfc} -> <<3, "l">>
    [] c = \he9 -> <<1, "A">>
    [] c \in {\hc6, \hce, \hd3, \hd6, \hdb, \hde, \he6, \hee, \hf6, \hfe} -> <<2, " ">>
    [] OTHER -> <<1, " ">>
disass_z80_ed(c) ==
  IF \/ c \in {0} \cup \h40 .. \h4b \cup {\h4d, \h4f} \cup \h50 .. \h53 \cup \h56 .. \h5b
     \/ c \in \h5e .. \h63 \cup \h67 .. \h6b \cup \h6f .. \h73 \cup \h78 .. \h7b
     \/ c \in \ha0 .. \ha3 \cup \ha8 .. \hab \cup \hb0 .. \hb3 \cup \hb8 .. \hbb
  THEN <<2, " ">> ELSE Unknown
\* Seeded fault: the length without the escape.
Fault_disass_z80_cb(c) == <<1, " ">>

disass_z80_cb(c) == <<2, " ">>
\* the page dd; fd has the same entries
HalfCodes ==
  {\h24, \h25, \h2c, \h2d} \cup \h60 .. \h64 \cup \h67 .. \h6d \cup {\h6f}
  \cup {8 * y + z : y \in {8, 9, 10, 11, 15} \cup 16 .. 23, z \in {4, 5}}
IndexCodes ==
  {\h34, \h35} \cup {8 * y + 6 : y \in 8 .. 13 \cup 15 .. 23} \cup \h70 .. \h75 \cup {\h77}
disass_z80_dd(c) ==
  CASE c \in {\h21, \h22, \h2a, \h36} -> <<4, " ">>
    [] c \in IndexCodes \cup {\h26, \h2e} -> <<3, " ">>
    [] c \in HalfCodes \cup {\h09, \h19, \h23, \h29, \h2b, \h39, \hcb, \he1, \he3, \he5, \he9,
                             \hf9} -> <<2, " ">>
    [] OTHER -> Unknown
disass_z80_fd(c) == disass_z80_dd(c)
\* Most of BIT with a register is missing from the pages ddcb and fdcb.
disass_z80_ddcb(c) == IF c \in \h47 .. \h7f /\ c % 8 # 6 THEN Unknown ELSE <<4, " ">>
disass_z80_fdcb(c) == disass_z80_ddcb(c)

\* What the functions of exec_inst fetch.  IN and OUT fetch no operand.
exec_z80(c) ==
  LET o == Octal(c)
  IN CASE o[1] = 0 ->
            CASE o[3] = 0 -> IF o[2] >= 2 THEN 2 ELSE 1
              [] o[3] = 1 -> IF o[2] % 2 = 0 THEN 3 ELSE 1
              [] o[3] = 2 -> IF o[2] < 4 THEN 1 ELSE 3
              [] o[3] = 6 -> 2
              [] OTHER -> 1
       [] o[1] \in {1, 2} -> 1
       [] o[1] = 3 ->
            CASE o[3] \in {2, 4} -> 3
              [] o[3] = 3 -> IF o[2] = 0 THEN 3 ELSE 1
              [] o[3] = 5 -> IF o[2] = 1 THEN 3 ELSE 1
              [] o[3] = 6 -> 2
              [] OTHER -> 1
\* LD (nn),rr and LD rr,(nn) fetch the address.
exec_z80_ed(c) == IF Octal(c)[1] = 1 /\ Octal(c)[3] = 3 THEN 4 ELSE 2
exec_z80_dd(c) ==
  IF c \in {\h21, \h22, \h2a, \h36} THEN 4
  ELSE IF c \in IndexCodes \cup {\h26, \h2e} THEN 3 ELSE 2
\* RST 8 is an escape to the simulator: it neither pushes nor jumps.
RstCodes == {\hc7, \hd7, \hdf, \he7, \hef, \hf7, \hff}
calls_z80(c) == c = \hcd \/ (Octal(c)[1] = 3 /\ Octal(c)[3] = 4) \/ c \in RstCodes
-----------------------------------------------------------------------------
(* The HC08: the main table up to 7f and behind it, and the page 9e        *)
disass_hc08(c) ==
  CASE c \in {\h32, \h3e} -> Unknown
    [] Row(c) = 0 \/ c \in {\h31, \h3b, \h41, \h51, \h61} -> <<3, "R">>
    [] Row(c) = 2 \/ c \in {\h4b, \h5b, \h6b, \h71, \h7b} -> <<2, "R">>
    [] c \in {\h45, \h4e, \h5e, \h65, \h6e} -> <<3, " ">>
    [] c = \h62 -> <<1, " ">>
    [] Row(c) \in {1, 3, 6} \/ c \in {\h55, \h75, \h7e} -> <<2, " ">>
    [] OTHER -> <<1, " ">>
disass_hc08_80(c) ==
  CASE c \in {\h82, \h8d, \h96, \hac} -> Unknown
    [] c \in \h90 .. \h93 \cup {\had} -> <<2, "R">>
    [] c \in {\hbc, \hbd} -> <<2, "A">>
    [] c \in {\hcc, \hcd} -> <<3, "A">>
    [] Row(c) \in {\ha, \hb, \he} -> <<2, " ">>
    [] Row(c) \in {\hc, \hd} -> <<3, " ">>
    [] OTHER -> <<1, " ">>
Page9e == {\h60, \h63, \h64} \cup \h66 .. \h6a \cup {\h6c, \h6d, \h6f} \cup \he0 .. \heb
          \cup {\hee, \hef}
disass_hc08_9e(c) ==
  CASE c \in Page9e -> <<3, " ">>
    [] c = \h6b -> <<3, "R">>
    [] c \in \hd0 .. \hdb \cup {\hde, \hdf} -> <<4, " ">>
    [] c = \h61 -> <<4, "R">>
    [] OTHER -> Unknown

\* The operands that fetchea, fetch1 and fetch2 take, by the row of the code.
EaBytes(c) ==
  CASE Row(c) \in {3, 6, \ha, \hb, \he} -> 1 [] Row(c) \in {\hc, \hd} -> 2 [] OTHER -> 0
exec_hc08(c) ==
  CASE c \in {\h32, \h3e, \h42, \h52, \h62, \h72} -> 1             \* invalid; MUL, DIV, NSA, DAA
    [] c \in {\h2e, \h2f} -> 1                                     \* BIL, BIH halt
    [] Row(c) = 0 -> 3
    [] Row(c) \in {1, 2} -> 2
    [] Row(c) \in 3 .. 7 /\ Col(c) = 1 ->                          \* CBEQ
         2 + (IF Row(c) \in {4, 5} THEN 1 ELSE EaBytes(c))
    [] Row(c) \in 3 .. 7 /\ Col(c) = 11 -> 2 + EaBytes(c)          \* DBNZ
    [] c \in {\h45, \h65, \h4e, \h6e} -> 3
    [] c \in {\h35, \h55, \h75, \h5e, \h7e} -> 2
    [] c \in \h90 .. \h93 -> 2
    [] c = \hac -> 1
    [] OTHER -> 1 + EaBytes(c)
\* behind 9e every address is an offset to SP of one byte (60, e0) or two (d0)
exec_hc08_9e(c) ==
  2 + (IF Row(c) = \hd THEN 2 ELSE 1) + (IF c \in {\h61, \h6b} THEN 1 ELSE 0)
\* BSR, JSR and SWI
calls_hc08(c) == c \in {\h83, \had} \/ (Row(c) >= \hb /\ Col(c) = \hd)
-----------------------------------------------------------------------------
(* The AVR, in words of program memory: the codes around the instructions  *)
(* of two words, and every call                                            *)
AvrCodes == \h9000 .. \h901f \cup \h9200 .. \h921f \cup \h9400 .. \h95ff \cup \hd000 .. \hdfff
PageAvr(c) == 512 * (c \div 512)       \* with Col, the bits of c & fe0f
disass_avr(c) ==
  CASE PageAvr(c) \in {\h9000, \h9200} /\ Col(c) = 0 -> <<2, " ">>
    [] PageAvr(c) = \h9400 /\ Col(c) \in {\hc, \hd} -> <<2, " ">>
    [] PageAvr(c) = \h9400 /\ Col(c) \in {\he, \hf} -> <<2, "l">>
    [] OTHER -> <<1, " ">>
exec_avr(c) ==
  IF PageAvr(c) \in {\h9000, \h9200} /\ Col(c) = 0 THEN 2             \* LDS, STS
  ELSE IF PageAvr(c) = \h9400 /\ Col(c) >= \hc THEN 2 ELSE 1          \* JMP, CALL
ICALL == {\h9509 + 16 * n : n \in 0 .. 15} \ {\h9519}     \* 9519 is EICALL, not done
RCALL == \hd000 .. \hdfff
calls_avr(c) == (PageAvr(c) = \h9400 /\ Col(c) >= \he) \/ c \in ICALL \cup RCALL
-----------------------------------------------------------------------------
(* The XA: two bytes of code; a mnemonic of two operands has the same      *)
(* number in the row of its register forms and behind the data forms of    *)
(* row 9 (ADD 0, ADDC 1, SUB 2, SUBB 3, CMP 4, AND 5, OR 6, XOR 7, MOV 8). *)
XaMnemonic(c) == IF c \div 4096 = 9 THEN c % 16 ELSE c \div 4096
XaForm(c) == (c \div 256) % 8
XaWide(c) == (c \div 2048) % 2
XaBit3(c) == (c \div 8) % 2
XaIsData(c) == c \div 4096 = 9 /\ c % 16 <= 8 /\ (XaForm(c) = 1 \/ (c \div 128) % 2 = 0)
XaIsTwo(c) == XaForm(c) \in 1 .. 6 /\ (c \div 4096 <= 8 \/ XaIsData(c))
\* the lengths of the 23 forms of a mnemonic: register, [R], [R+], [R+off8],
\* [R+off16] and direct with a register, then with data
XaTwo(c) ==
  IF c \div 4096 = 9 THEN <<3, 3, 3, 4, 5, 4>>[XaForm(c)] + XaWide(c)
  ELSE <<2, 2, 2, 3, 4, 3>>[XaForm(c)]

\* The entries up to CMP and its neighbours, without those that are not done
disass_xa(c) ==
  LET h == c \div 256
      n == c % 256
  IN CASE XaIsTwo(c) /\ XaMnemonic(c) \in {0, 1, 4, 5} -> <<XaTwo(c), " ">>
       [] h = 8 /\ n \in \h40 .. \h43 \cup \h50 .. \h53 -> <<3, " ">>            \* ANL
       [] h \in {\hd1, \hd9, \hdd, \hd2, \hda, \hde} -> <<2, " ">>                  \* ASL, ASR
       [] h \in \hf0 .. \hfe -> <<2, " ">>                                     \* Bcc
       [] h = \hc5 -> <<3, "a">>
       [] h = \hc6 /\ n < 8 -> <<2, "a">>
       [] h \in {\he2, \hea} /\ XaBit3(c) = 0 -> <<4, " ">>                     \* CJNE
       [] h \in {\he3, \heb} /\ (n % 16 = 0 \/ (n % 16 = 8 /\ n < 128)) -> <<4 + XaWide(c), " ">>
       [] h = 8 /\ n \in 0 .. 3 -> <<3, " ">>                                  \* CLR
       [] OTHER -> Unknown
\* The entries behind them
disass_xa_djnz(c) ==
  LET h == c \div 256
      n == c % 256
  IN CASE XaIsTwo(c) /\ XaMnemonic(c) \in {2, 3, 6, 7, 8} -> <<XaTwo(c), " ">>
       [] h \in {\h87, \h8f} /\ n % 16 = 8 -> <<3, " ">>                        \* DJNZ
       [] h \in {\he2, \hea} /\ n \in 8 .. 15 -> <<4, " ">>
       [] h = \h97 /\ n \in \h80 .. \h83 \cup \ha0 .. \ha3 \cup \hc0 .. \hc3 -> <<4, " ">>
       [] h = \hd5 -> <<3, " ">>                                              \* JMP
       [] h = \hd6 /\ n \in {\h46, \h80, \h90} \cup \h60 .. \h67 \cup \h70 .. \h77 -> <<2, " ">>
       [] h \in {\hec, \hee} -> <<2, " ">>                                    \* JZ, JNZ
       [] h \in {\h40, \h48} /\ n < 128 /\ XaBit3(c) = 0 -> <<3, " ">>           \* LEA
       [] h \in {\h97, \h9f} /\ n < 128 /\ XaBit3(c) = 0 -> <<4, " ">>           \* MOV dir,dir
       [] h = 8 /\ n \in \h20 .. \h23 \cup \h30 .. \h33 -> <<3, " ">>            \* MOV of C
       [] h \in {\h80, \h88} /\ XaBit3(c) = 0 -> <<2, " ">>                     \* MOVC
       [] h \in {\h90, \h98} /\ n % 16 \in {9, 15} -> <<2, " ">>                \* SEXT, MOV of USP
       [] c = \h904e -> <<2, " ">>
       [] h = 0 -> <<1, " ">>
       [] h \in {\h87, \h8f} /\ n < 64 /\ XaBit3(c) = 0 -> <<3, " ">>            \* POP, PUSH
       [] h % 8 = 7 /\ h < 128 -> <<2, " ">>
       [] h = 8 /\ n \in \h10 .. \h13 -> <<3, " ">>                            \* SETB
       [] OTHER -> Unknown
XaEntry(c) == IF disass_xa(c) # Unknown THEN disass_xa(c) ELSE disass_xa_djnz(c)
XaCodes == {c \in 1 .. 65535 : c \div 256 > 0 /\ XaEntry(c) # Unknown} \cup {0}

\* The forms that no case of their function handles fetch no operand.
XaNoCase(c) ==
  \/ c \div 256 \in {\he3, \heb}
  \/ c \div 256 \in {\h97, \h9f} /\ c % 256 < 128
  \/ c \in \h0820 .. \h0823 \cup \h0830 .. \h0833
\* CJNE of a word: the macro get_word_direct evaluates the fetch of its address twice.
XaTwice(c) == c \div 256 = \hea /\ XaBit3(c) = 0
\* What inst_gen fetches: the offset or the address, and the data.
exec_xa_gen(c) ==
  2 + (CASE XaForm(c) \in {4, 6} -> 1 [] XaForm(c) = 5 -> 2 [] OTHER -> 0)
    + (IF c \div 4096 = 9 THEN 1 + XaWide(c) ELSE 0)
exec_xa(c) ==
  LET h == c \div 256
      n == c % 256
  IN CASE XaIsTwo(c) -> exec_xa_gen(c)
       [] XaNoCase(c) -> 2
       [] h = 0 -> 1
       [] h \in {8, \hc5, \hd5, \h40} -> 3
       [] XaTwice(c) -> 5
       [] h \in {\he2, \hea, \h97, \h48} -> 4
       [] h \in {\h87, \h8f} -> 3
       [] OTHER -> 2
calls_xa(c) == c \div 256 \in {\hc5, \hc6}
-----------------------------------------------------------------------------
Pages ==
  {"51", "z80", "z80_cb", "z80_ed", "z80_dd", "z80_fd", "z80_ddcb", "z80_fdcb", "hc08",
   "hc08_9e", "avr", "xa"}
\* The codes of a page that are instructions: the escapes lead to others.
Codes(page) ==
  CASE page = "z80" -> 0 .. 255 \ {\hcb, \hdd, \hed, \hfd}
    [] page = "z80_ed" -> {c \in 0 .. 255 : disass_z80_ed(c) # Unknown}
    [] page \in {"z80_dd", "z80_fd"} -> {c \in 0 .. 255 : disass_z80_dd(c) # Unknown} \ {\hcb}
    [] page \in {"z80_ddcb", "z80_fdcb"} -> {c \in 0 .. 255 : c \in \h40 .. \h7f => c % 8 = 6}
    [] page = "hc08" -> 0 .. 255 \ {\h9e, \h82, \h8d}
    [] page = "hc08_9e" -> {c \in 0 .. 255 : disass_hc08_9e(c) # Unknown}
    [] page = "avr" -> AvrCodes
    [] page = "xa" -> XaCodes
    [] OTHER -> 0 .. 255

\* get_disasm_info of the Z80 and the HC08, inst_length and inst_branch of cl_uc
get_disasm_info(page, c) ==
  CASE page = "51" -> IF c < 128 THEN disass_51(c) ELSE disass_51_80(c)
    [] page = "z80" -> IF c < 128 THEN disass_z80(c) ELSE disass_z80_80(c)
    [] page = "z80_cb" -> disass_z80_cb(c)
    [] page = "z80_ed" -> disass_z80_ed(c)
    [] page = "z80_dd" -> disass_z80_dd(c)
    [] page = "z80_fd" -> disass_z80_fd(c)
    [] page = "z80_ddcb" -> disass_z80_ddcb(c)
    [] page = "z80_fdcb" -> disass_z80_fdcb(c)
    [] page = "hc08" -> IF c < 128 THEN disass_hc08(c) ELSE disass_hc08_80(c)
    [] page = "hc08_9e" -> disass_hc08_9e(c)
    [] page = "avr" -> disass_avr(c)
    [] page = "xa" -> XaEntry(c)

Executed(page, c) ==
  CASE page = "51" -> exec_51(c)
    [] page = "z80" -> exec_z80(c)
    [] page = "z80_cb" -> 2
    [] page = "z80_ed" -> exec_z80_ed(c)
    [] page \in {"z80_dd", "z80_fd"} -> exec_z80_dd(c)
    [] page \in {"z80_ddcb", "z80_fdcb"} -> 4
    [] page = "hc08" -> exec_hc08(c)
    [] page = "hc08_9e" -> exec_hc08_9e(c)
    [] page = "avr" -> exec_avr(c)
    [] page = "xa" -> exec_xa(c)
Calls(page, c) ==
  CASE page = "51" -> calls_51(c)
    [] page = "z80" -> calls_z80(c)
    [] page = "hc08" -> calls_hc08(c)
    [] page = "avr" -> calls_avr(c)
    [] page = "xa" -> calls_xa(c)
    [] OTHER -> FALSE
\* RST pushes PC + 2 as a CALL does, but has no operand to leave out.
ReturnsTo(page, c) ==
  IF page = "z80" /\ c \in RstCodes THEN Executed(page, c) + 2 ELSE Executed(page, c)
-----------------------------------------------------------------------------
DecodeInit == dec = [page |-> "51", code |-> 0, at |-> 0, pc |-> 0, stop |-> "none"]

\* dc: the next line begins behind the length of the table.
dc_cmd ==
  /\ dec.stop = "none" /\ dec.at = 0
  /\ \E page \in Pages : \E c \in Codes(page) :
       dec' = [dec EXCEPT !.page = page, !.code = c, !.at = get_disasm_info(page, c)[1]]

\* next: with a breakpoint behind a call, else one instruction.
next_cmd ==
  /\ dec.stop = "none" /\ dec.at > 0
  /\ LET over == get_disasm_info(dec.page, dec.code)[2] \in {"a", "l"}
         end == ReturnsTo(dec.page, dec.code)
     IN dec' = [dec EXCEPT !.pc = end,
                           !.stop = IF ~Calls(dec.page, dec.code) THEN "behind"
                                    ELSE IF ~over THEN "inside"
                                    ELSE IF dec.at = end THEN "behind" ELSE "lost"]

DecodeNext == dc_cmd \/ next_cmd
DecodeSpec == DecodeInit /\ [][DecodeNext]_dec
-----------------------------------------------------------------------------
\* The codes whose length is wrong in a table.
WrongLengths ==
  {<<"z80", \h19>>, <<"z80", \hd3>>, <<"z80", \hdb>>, <<"hc08", \h2e>>, <<"hc08", \h2f>>,
   <<"hc08", \h5e>>, <<"hc08", \h6b>>, <<"hc08_9e", \h6b>>}
  \cup {<<"z80_ed", c>> : c \in {\h43, \h4b, \h53, \h5b, \h63, \h6b, \h73, \h7b}}
  \cup {<<"xa", c>> : c \in {d \in XaCodes : \/ XaNoCase(d) \/ XaTwice(d) \/ d \div 256 = \h48}}
\* The calls that return two bytes behind their end
WrongReturns == {<<"z80", c>> : c \in RstCodes}
\* The calls that no table marks: RST, every call of the HC08, RCALL, ICALL
UnmarkedCalls ==
  {<<"z80", c>> : c \in RstCodes}
  \cup {<<"hc08", c>> : c \in {\h83, \had, \hbd, \hcd, \hdd, \hed, \hfd}}
  \cup {<<"avr", c>> : c \in RCALL \cup ICALL}

(* The disassembler stays in step with the processor: the line behind an   *)
(* instruction begins where the processor fetches next, or where its       *)
(* callee returns to, at every code of every table but the few above; and  *)
(* `next' on a call ends behind it, never inside the callee (but for the   *)
(* calls above) and never lost at a breakpoint inside or beyond the        *)
(* instruction.                                                            *)
DecodeInStep ==
  LET it == <<dec.page, dec.code>>
  IN dec.stop # "none" =>
       /\ dec.at # dec.pc <=> it \in WrongLengths \cup WrongReturns
       /\ dec.stop # "lost"
       /\ dec.stop = "inside" <=> it \in UnmarkedCalls
=============================================================================
