------------------------------- MODULE OpCode -------------------------------
(***************************************************************************)
(* The instruction set of the Violang virtual machine, with the numeric    *)
(* encodings of src/bytecode/OpCode.h.  The numbers matter: a jump into    *)
(* the middle of an instruction makes an operand byte act as an opcode.    *)
(***************************************************************************)
EXTENDS Integers

OP_HALT         == 0
OP_CONST        == 1
OP_ADD          == 2
OP_SUB          == 3
OP_MUL          == 4
OP_DIV          == 5
OP_COMPARE      == 6
OP_JMP_IF_FALSE == 7
OP_JMP          == 8
OP_GET_GLOBAL   == 9
OP_SET_GLOBAL   == 10
OP_POP          == 11
OP_GET_LOCAL    == 12
OP_SET_LOCAL    == 13
OP_SCOPE_EXIT   == 14
OP_CALL         == 15
OP_RETURN       == 16

Opcodes == OP_HALT .. OP_RETURN

\* Arithmetic instructions: two operands, no operand byte.
MathOps == {OP_ADD, OP_SUB, OP_MUL, OP_DIV}

\* Instructions that are one byte long, and those followed by a 16-bit address.
SimpleOps == MathOps \cup {OP_HALT, OP_POP, OP_RETURN}
JumpOps   == {OP_JMP, OP_JMP_IF_FALSE}

\* The bytes an instruction occupies, its opcode included.
InstrLen(op) == IF op \in SimpleOps THEN 1
                ELSE IF op \in JumpOps THEN 3 ELSE 2

(***************************************************************************)
(* Widths.  emit() takes a uint8_t and getOffset() returns a uint16_t, so  *)
(* operands and addresses are reduced modulo these; patchJumpAddress()     *)
(* splits an address in a high and a low byte and READ_SHORT() joins them. *)
(***************************************************************************)
BYTE  == 256
SHORT == 65536

\* Mutated form of Byte: the operand is kept in seven bits.
SevenBits(n)  == n % 128

Byte(n)       == n % BYTE
HighByte(n)   == (n % SHORT) \div BYTE
LowByte(n)    == n % BYTE
Word(hi, lo)  == hi * BYTE + lo
=============================================================================
