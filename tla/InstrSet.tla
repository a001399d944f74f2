------------------------------- MODULE InstrSet -------------------------------
(***************************************************************************)
(* The two instruction sets of RackVM, as three parts of the repository    *)
(* each write them down: the enumeration of the interpreters' opcodes      *)
(* (src/vm/opcodes.h), the assembler's tables of operands and sizes        *)
(* (src/assembler/encoder.cpp), and the interpreters, which take operands  *)
(* from where they expect them and step over as many bytes as they expect  *)
(* (src/vm/register_impl.h, src/vm/stack_impl.h). Nothing but a program    *)
(* that runs compares the three.                                           *)
(*                                                                         *)
(* A mnemonic is a pair of a name and a suffix, <<"ADD", ".F64">>.         *)
(***************************************************************************)
EXTENDS Integers, Sequences, SequencesExt

Sized == <<"", ".64">>
Typed == <<"", ".64", ".F", ".F64">>

Variants(names, suffixes) ==
    FlattenSeq([i \in DOMAIN names |->
                  [j \in DOMAIN suffixes |-> <<names[i], suffixes[j]>>]])
Single(names) == Variants(names, <<"">>)

Total(widths) == FoldLeft(LAMBDA n, w: n + w, 0, widths)

----------------------------------------------------------------------------
(* The opcodes of the interpreters: mnemonics in the enumeration's order,  *)
(* the first is number 0.                                                  *)

Shared == Single(<<"NOP", "EXIT", "JMP", "CALL">>)
          \o Variants(<<"RET">>, <<"", ".32", ".64">>) \o Single(<<"SCALL", "SARG">>)

Conversions ==
    Single(<<"ITOL", "ITOF", "ITOD", "ITOS", "LTOI", "LTOF", "LTOD", "LTOS",
             "FTOI", "FTOL", "FTOD", "FTOS", "DTOI", "DTOL", "DTOF", "DTOS",
             "STOI", "STOL", "STOF", "STOD">>)

Comparing == <<"CPEQ", "CPNQ", "CPGT", "CPLT", "CPGQ", "CPLQ">>
Branching == Single(<<"CPSTR", "CPCHR", "BRZ", "BRNZ", "BRIZ", "BRINZ", "JMPI">>)

RegisterOpcodes ==
    Shared
    \o Variants(<<"MOV", "LDI", "STM", "STMI", "LDM", "LDMI", "LDL", "LDA",
                  "STL", "STA", "MOVS", "POP", "PUSH">>, Sized)
    \o Variants(<<"ADD", "ADDI", "SUB", "SUBI", "MUL", "MULI", "DIV", "DIVI">>, Typed)
    \o Variants(<<"INV">>, Sized) \o Variants(<<"NEG">>, Typed)
    \o Variants(<<"BOR", "BORI", "BXOR", "BXORI", "BAND", "BANDI">>, Sized)
    \o Single(<<"OR", "ORI", "AND", "ANDI">>)
    \o Variants(<<"CPZ", "CPI">>, Sized)
    \o Variants(Comparing, Typed) \o Branching
    \o Conversions
    \o Single(<<"NEW", "NEWI", "DEL", "RESZ", "RESZI", "SIZE", "STR", "STRCPY",
                "STRCAT", "STRCMB">>)

StackOpcodes ==
    Shared
    \o Variants(<<"LDI", "STM", "STMI", "LDM", "LDMI", "LDL", "LDA", "STL", "STA">>, Sized)
    \o Variants(<<"ADD", "SUB", "MUL", "DIV">>, Typed)
    \o Variants(<<"INV">>, Sized) \o Variants(<<"NEG">>, Typed)
    \o Variants(<<"BOR", "BXOR", "BAND">>, Sized)
    \o Single(<<"OR", "AND">>)
    \o Variants(<<"CPZ">>, Sized)
    \o Variants(Comparing, Typed) \o Branching
    \o Conversions
    \o Single(<<"NEW", "DEL", "RESZ", "SIZE", "STR", "STRCPY", "STRCAT", "STRCMB">>)

Modes == {"register", "stack"}

Opcodes   == [register |-> RegisterOpcodes, stack |-> StackOpcodes]
Mnemonics == [register |-> ToSet(RegisterOpcodes), stack |-> ToSet(StackOpcodes)]

\* What the interpreter of this mode takes an opcode for.
Meant(mode, opcode) == Opcodes[mode][opcode + 1]
Number(mode, mn) ==
    (CHOOSE n \in DOMAIN Opcodes[mode] : Opcodes[mode][n] = mn) - 1

----------------------------------------------------------------------------
(* The assembler: the widths of the fields the operands of an instruction  *)
(* are packed into, and how many bytes of it are written.                  *)

Imm(mn) == IF mn[2] \in {".64", ".F64"} THEN 8 ELSE 4

SharedFields(mn) ==
    CASE mn[1] \in {"JMP", "CALL"}          -> <<4>>
      [] mn[1] \in {"RET", "SCALL", "SARG"} -> <<1>>
      [] OTHER                              -> <<>>

RegisterFields(mn) ==
    CASE mn[1] \in {"BRZ", "BRNZ"} -> <<4>>
      [] mn[1] = "PUSH"            -> <<Imm(mn)>>
      [] mn[1] \in {"MOVS", "POP", "INV", "NEG", "CPZ", "BRIZ", "BRINZ", "JMPI", "DEL"}
                                   -> <<1>>
      [] mn[1] \in {"LDI", "CPI", "ORI", "ANDI", "NEWI", "RESZI", "STR"}
                                   -> <<1, Imm(mn)>>
      [] mn[1] \in {"STMI", "LDMI", "STRCPY", "STRCAT", "STOI", "STOF"}
                                   -> <<1, 1, 4>>
      [] mn[1] \in {"STOL", "STOD"} -> <<1, 1, 8>>
      [] mn[1] \in {"ADDI", "SUBI", "MULI", "DIVI", "BORI", "BXORI", "BANDI"}
                                   -> <<1, 1, Imm(mn)>>
      [] mn[1] \in {"ADD", "SUB", "MUL", "DIV", "BOR", "BXOR", "BAND", "FTOS",
                    "DTOS", "STRCMB"}
                                   -> <<1, 1, 1>>
      [] OTHER                     -> <<1, 1>>

StackFields(mn) ==
    CASE mn[1] \in {"LDI", "STMI", "LDMI"} -> <<Imm(mn)>>
      [] mn[1] \in {"LDL", "LDA", "STL", "STA", "FTOS", "DTOS"} -> <<1>>
      [] mn[1] \in {"BRZ", "BRNZ", "STOI", "STOF", "STR", "STRCPY", "STRCAT"} -> <<4>>
      [] mn[1] \in {"STOL", "STOD"} -> <<8>>
      [] OTHER -> <<>>

RegisterBytes(mn) ==
    CASE mn[1] \in {"MOVS", "POP", "INV", "NEG", "CPZ", "BRIZ", "BRINZ", "JMPI", "DEL"}
                                    -> 2
      [] mn[1] \in {"ADD", "SUB", "MUL", "DIV", "BOR", "BXOR", "BAND", "FTOS",
                    "DTOS", "STRCMB"}
                                    -> 4
      [] mn[1] \in {"BRZ", "BRNZ"} \/ mn = <<"PUSH", "">> -> 5
      [] mn[1] \in {"ORI", "ANDI", "NEWI", "RESZI", "STR"} -> 6
      [] mn[1] \in {"LDI", "CPI"}   -> IF Imm(mn) = 8 THEN 10 ELSE 6
      [] mn = <<"PUSH", ".64">>     -> 9
      [] mn[1] \in {"STMI", "LDMI", "STRCPY", "STRCAT", "STOI", "STOF"} -> 7
      [] mn[1] \in {"STOL", "STOD"} -> 11
      [] mn[1] \in {"ADDI", "SUBI", "MULI", "DIVI", "BORI", "BXORI", "BANDI"}
                                    -> IF Imm(mn) = 8 THEN 11 ELSE 7
      [] OTHER                      -> 3

StackBytes(mn) ==
    CASE mn[1] = "LDI" -> IF Imm(mn) = 8 THEN 9 ELSE 5
      [] mn[1] \in {"STMI", "LDMI", "BRZ", "BRNZ", "STOI", "STOF", "STR",
                    "STRCPY", "STRCAT"} -> 5
      [] mn[1] \in {"LDL", "LDA", "STL", "STA", "FTOS", "DTOS"} -> 2
      [] mn[1] \in {"STOL", "STOD"} -> 9
      [] OTHER -> 1

SharedBytes(mn) ==
    CASE mn[1] \in {"NOP", "EXIT"} -> 1
      [] mn[1] \in {"JMP", "CALL"} -> 5
      [] OTHER                     -> 2

Fields(mode, mn) ==
    IF mn \in ToSet(Shared) THEN SharedFields(mn)
    ELSE IF mode = "register" THEN RegisterFields(mn) ELSE StackFields(mn)

ByteSize(mode, mn) ==
    IF mn \in ToSet(Shared) THEN SharedBytes(mn)
    ELSE IF mode = "register" THEN RegisterBytes(mn) ELSE StackBytes(mn)

\* The opcode written: STA and STA.64 are loaded with the functions of STL.
Encoded(mode, mn) ==
    IF mode = "register" /\ mn[1] = "STA" THEN Number(mode, <<"STL", mn[2]>>)
    ELSE Number(mode, mn)

----------------------------------------------------------------------------
(* The interpreters: the widths of the operands they read, which lie one   *)
(* behind the other after the opcode, and how far they go on.              *)

SharedReads(mn) ==
    CASE mn[1] \in {"JMP", "CALL"}          -> <<4>>
      [] mn[1] \in {"RET", "SCALL", "SARG"} -> <<1>>
      [] OTHER                              -> <<>>

RLoadReads(mn) ==
    CASE mn[1] = "LDI"            -> <<1, Imm(mn)>>
      [] mn[1] \in {"STMI", "LDMI"} -> <<1, 1, 4>>
      [] mn[1] \in {"MOVS", "POP"} -> <<1>>
      [] mn[1] = "PUSH"           -> <<Imm(mn)>>
      [] OTHER                    -> <<1, 1>>

RArithmeticReads(mn) ==
    IF mn[1] \in {"ADDI", "SUBI", "MULI", "DIVI"} THEN <<1, 1, Imm(mn)>>
    ELSE <<1, 1, 1>>

RBitReads(mn) ==
    CASE mn[1] \in {"INV", "NEG"}               -> <<1>>
      [] mn[1] \in {"BORI", "BXORI", "BANDI"}   -> <<1, 1, Imm(mn)>>
      [] OTHER                                  -> <<1, 1, 1>>

RCompareReads(mn) ==
    CASE mn[1] \in {"ORI", "ANDI", "CPI"}          -> <<1, Imm(mn)>>
      [] mn[1] \in {"BRZ", "BRNZ"}                 -> <<4>>
      [] mn[1] \in {"CPZ", "BRIZ", "BRINZ", "JMPI"} -> <<1>>
      [] OTHER                                     -> <<1, 1>>

RConvertReads(mn) ==
    CASE mn[1] \in {"FTOS", "DTOS"} -> <<1, 1, 1>>
      [] mn[1] \in {"STOI", "STOF"} -> <<1, 1, 4>>
      [] mn[1] \in {"STOL", "STOD"} -> <<1, 1, 8>>
      [] OTHER                      -> <<1, 1>>

ROtherReads(mn) ==
    CASE mn[1] = "DEL"                       -> <<1>>
      [] mn[1] \in {"NEWI", "RESZI", "STR"}  -> <<1, 4>>
      [] mn[1] \in {"STRCPY", "STRCAT"}      -> <<1, 1, 4>>
      [] mn[1] = "STRCMB"                    -> <<1, 1, 1>>
      [] OTHER                               -> <<1, 1>>

SLoadReads(mn) ==
    CASE mn[1] = "LDI"              -> <<Imm(mn)>>
      [] mn[1] \in {"STMI", "LDMI"} -> <<4>>
      [] mn[1] \in {"STM", "LDM"}   -> <<>>
      [] OTHER                      -> <<1>>

SConvertReads(mn) ==
    CASE mn[1] \in {"FTOS", "DTOS"} -> <<1>>
      [] mn[1] \in {"STOI", "STOF"} -> <<4>>
      [] mn[1] \in {"STOL", "STOD"} -> <<8>>
      [] OTHER                      -> <<>>

SOtherReads(mn) == IF mn[1] \in {"STR", "STRCPY", "STRCAT", "BRZ", "BRNZ"} THEN <<4>>
                   ELSE <<>>

\* The section of the interpreter loop an opcode is in: the enumeration marks
\* where each begins.
Within(mode, mn, first, last) == Number(mode, mn) \in first .. last

Reads(mode, mn) ==
    IF Within(mode, mn, 0, 8) THEN SharedReads(mn)
    ELSE IF mode = "register" THEN
        CASE Within(mode, mn, 9, 34)    -> RLoadReads(mn)
          [] Within(mode, mn, 35, 66)   -> RArithmeticReads(mn)
          [] Within(mode, mn, 67, 84)   -> RBitReads(mn)
          [] Within(mode, mn, 85, 123)  -> RCompareReads(mn)
          [] Within(mode, mn, 124, 143) -> RConvertReads(mn)
          [] OTHER                      -> ROtherReads(mn)
    ELSE
        CASE Within(mode, mn, 9, 26)   -> SLoadReads(mn)
          [] Within(mode, mn, 90, 109) -> SConvertReads(mn)
          [] OTHER                     -> SOtherReads(mn)

\* How far the register interpreter steps over these instructions is not what
\* they read.
OddSteps(mn) ==
    CASE mn[1] \in {"BORI", "BXORI", "BANDI"} -> 4
      [] mn[1] \in {"BRIZ", "BRINZ"}          -> 5
      [] mn = <<"CPI", ".64">>                -> 6

Odd == {<<b, s>> : b \in {"BORI", "BXORI", "BANDI"}, s \in {"", ".64"}}
       \cup {<<"BRIZ", "">>, <<"BRINZ", "">>, <<"CPI", ".64">>}

Step(mode, mn) == IF mode = "register" /\ mn \in Odd THEN OddSteps(mn)
                  ELSE 1 + Total(Reads(mode, mn))

\* Operand k arrives: it is read where it was put, and no wider.
Arrives(mode, mn, k) ==
    LET put  == Fields(mode, mn)
        read == Reads(mode, Meant(mode, Encoded(mode, mn)))
        from == 1 + Total(SubSeq(read, 1, k - 1))
    IN  /\ k \in DOMAIN read /\ k \in DOMAIN put
        /\ from = 1 + Total(SubSeq(put, 1, k - 1))
        /\ read[k] <= put[k] /\ from + read[k] <= ByteSize(mode, mn)
=============================================================================
