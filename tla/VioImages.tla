----------------------------- MODULE VioImages -----------------------------
(***************************************************************************)
(* Bytecode as the compiler leaves it, for model-checking the machine by   *)
(* itself: the programs of VioPrograms, in the bytes the disassembler      *)
(* shows, with the literal n of each as a parameter.                       *)
(***************************************************************************)
EXTENDS OpCode, Global

Object(name, arity, constants, code) ==
  [CodeObject(name, arity) EXCEPT !.constants = constants, !.code = code]

\* The image of a program that declares these globals.
Image(names, objects) ==
  [codeObjects |-> objects,
   globals |-> InitialGlobals
               \o [i \in DOMAIN names |-> GlobalVar(names[i], NUMBER(0))]]

FactorialImage(n) ==
  Image(<<"factorial">>,
    <<Object("main", 0, <<CODE(2), FUNCTION(2), NUMBER(n)>>,
             <<1, 1, 10, 2, 11, 9, 2, 1, 2, 15, 1, 0>>),
      Object("factorial", 1, <<NUMBER(1)>>,
             <<12, 1, 1, 0, 6, 2, 7, 0, 14, 1, 0, 8, 0, 26, 12, 1, 12, 0,
               1, 0, 12, 1, 3, 15, 1, 4, 14, 2, 16>>)>>)

LocalsImage(n) ==
  Image(<<"f">>,
    <<Object("main", 0,
             <<CODE(2), FUNCTION(2), NUMBER(7), NUMBER(n), NUMBER(1), NUMBER(2)>>,
             <<1, 1, 10, 2, 11, 1, 2, 9, 2, 1, 3, 9, 2, 1, 4, 1, 5, 15, 2,
               15, 2, 2, 0>>),
      Object("f", 2, <<NUMBER(2)>>,
             <<12, 1, 12, 2, 2, 13, 3, 12, 3, 1, 0, 4, 13, 4, 12, 2, 13, 5,
               12, 4, 12, 5, 2, 13, 3, 14, 2, 11, 12, 1, 12, 3, 3, 14, 4, 16>>)>>)

NativesImage(n) ==
  Image(<<"count", "sq", "r">>,
    <<Object("main", 0, <<NUMBER(0), CODE(2), FUNCTION(2), NUMBER(n)>>,
             <<1, 0, 10, 2, 11, 1, 2, 10, 3, 11, 9, 3, 1, 3, 15, 1, 9, 3,
               9, 1, 15, 1, 2, 10, 4, 11, 9, 4, 9, 2, 2, 0>>),
      Object("sq", 1, <<NUMBER(1)>>,
             <<9, 2, 1, 0, 2, 10, 2, 11, 9, 0, 12, 1, 15, 1, 14, 2, 16>>)>>)

EvenOddImage(n) ==
  LET half(name, answer, other) ==
        Object(name, 1, <<NUMBER(0), BOOLEAN_VALUE(answer), NUMBER(1)>>,
               <<12, 1, 1, 0, 6, 2, 7, 0, 14, 1, 1, 8, 0, 23, 9, other,
                 1, 2, 12, 1, 3, 15, 1, 14, 2, 16>>)
  IN Image(<<"odd", "even">>,
       <<Object("main", 0, <<NUMBER(0), CODE(2), FUNCTION(2), CODE(3),
                             FUNCTION(3), NUMBER(n)>>,
                <<1, 0, 10, 2, 11, 1, 2, 10, 3, 11, 1, 4, 10, 2, 11, 9, 3,
                  1, 5, 15, 1, 0>>),
         half("even", TRUE, 2), half("odd", FALSE, 3)>>)

HigherOrderImage(n) ==
  Image(<<"twice", "label", "h">>,
    <<Object("main", 0, <<CODE(2), FUNCTION(2), CODE(3), FUNCTION(3),
                          STRING_VALUE(<<n>>)>>,
             <<1, 1, 10, 2, 11, 1, 3, 10, 3, 11, 9, 3, 10, 4, 11, 9, 2, 9, 4,
               1, 4, 15, 2, 0>>),
      Object("twice", 2, <<>>, <<12, 1, 12, 1, 12, 2, 15, 1, 15, 1, 14, 3, 16>>),
      Object("label", 1, <<STRING_VALUE(<<2>>), STRING_VALUE(<<n>>), STRING_VALUE(<<>>)>>,
             <<12, 1, 1, 0, 6, 0, 7, 0, 17, 12, 1, 1, 1, 2, 8, 0, 19, 1, 2,
               14, 2, 16>>)>>)

EndlessImage(n) ==
  Image(<<"down">>,
    <<Object("main", 0, <<CODE(2), FUNCTION(2), NUMBER(0)>>,
             <<1, 1, 10, 2, 11, 9, 2, 1, 2, 15, 1, 0>>),
      Object("down", 1, <<NUMBER(n)>>,
             <<1, 0, 12, 0, 12, 1, 15, 1, 2, 14, 2, 16>>)>>)

(***************************************************************************)
(* Code that does not verify.                                              *)
(***************************************************************************)
\* The loop of the README, (var x n) (while (< x 3) (set x (+ x 1))): each turn
\* leaves a value, and it is left to the byte after OP_HALT.
LoopImage(n) ==
  Image(<<"x">>,
    <<Object("main", 0, <<NUMBER(n), NUMBER(3), NUMBER(1)>>,
             <<1, 0, 10, 2, 11, 9, 2, 1, 1, 6, 0, 7, 0, 25, 9, 2, 1, 2, 2,
               10, 2, 8, 0, 5, 0>>)>>)

(***************************************************************************)
(* An operator or a call whose first operand is a loop and whose second is *)
(* the literal k: the loop is left to the operand of the OP_CONST that     *)
(* follows it, so that k is executed as an opcode.  The literals 0 .. k    *)
(* before it give k its index.  Into(k, before, after) is the code, with   *)
(* what is compiled before the loop and after the literal.                 *)
(***************************************************************************)
Literals(k) == [i \in 1 .. k + 1 |-> NUMBER(i - 1)] \o <<BOOLEAN_VALUE(FALSE)>>

Into(k, before, after) ==
  LET pads == 3 * (k + 1)
      loop == pads + Len(before)
  IN [b \in 1 .. pads |-> CASE b % 3 = 1 -> OP_CONST
                             [] b % 3 = 2 -> b \div 3
                             [] b % 3 = 0 -> OP_POP]
     \o before \o <<1, k + 1, 7, 0, loop + 11, 1, 0, 8, 0, loop, 1, k>> \o after

SkippingImage(k, before, after) ==
  Image(<<>>, <<Object("main", 0, Literals(k), Into(k, before, after) \o <<0>>)>>)

\* The same in a function g, in (+ 1 (+ 1 (g 2))).
SkippingCallee(k, before, after) ==
  Image(<<"g">>,
    <<Object("main", 0, <<CODE(2), FUNCTION(2), NUMBER(1), NUMBER(2)>>,
             <<1, 1, 10, 2, 11, 1, 2, 1, 2, 9, 2, 1, 3, 15, 1, 2, 2, 0>>),
      Object("g", 1, Literals(k), Into(k, before, after) \o <<14, 2, 16>>)>>)

\* (def f (a) (if (< a 2) 7 (begin 1 a))) (f n): the block and the function
\* both drop the function and its argument.
TwiceExitedImage(n) ==
  Image(<<"f">>,
    <<Object("main", 0, <<CODE(2), FUNCTION(2), NUMBER(n)>>,
             <<1, 1, 10, 2, 11, 9, 2, 1, 2, 15, 1, 0>>),
      Object("f", 1, <<NUMBER(2), NUMBER(7), NUMBER(1)>>,
             <<12, 1, 1, 0, 6, 0, 7, 0, 14, 1, 1, 8, 0, 21, 1, 2, 11, 12, 1,
               14, 2, 14, 2, 16>>)>>)

\* (def g (a ..) a) called with one argument too few or too many.
MisfitImage(arity, args) ==
  Image(<<"g">>,
    <<Object("main", 0, <<CODE(2), FUNCTION(2), NUMBER(1), NUMBER(2)>>,
             <<1, 1, 10, 2, 11, 9, 2, 1, 2>> \o (IF args = 2 THEN <<1, 3>> ELSE <<>>)
             \o <<15, args, 0>>),
      Object("g", arity, <<>>, <<12, arity, 14, arity + 1, 16>>)>>)

(***************************************************************************)
(* Main programs without functions.  Their literals are put into one pool; *)
(* Valueless is (if false 1), which leaves no value.                       *)
(***************************************************************************)
MainImage(code) ==
  Image(<<"q">>, <<Object("main", 0, <<BOOLEAN_VALUE(FALSE), NUMBER(1), NUMBER(2),
                                       STRING_VALUE(<<1>>), BOOLEAN_VALUE(TRUE)>>, code)>>)

Valueless == <<1, 0, 7, 0, 10, 1, 1, 8, 0, 10>>

\* What precedes it, and what uses the value that is not there: +, <, if, var
\* of a global, of a local, an expression of a block; the program is empty.
WithoutValues ==
  {<<0>>, <<1, 1, 11, 0>>, <<1, 1, 11, 1, 2, 13, 0, 14, 1, 0>>}
  \cup {Valueless \o use :
          use \in {<<0>>, <<11, 1, 2, 0>>, <<1, 2, 2, 0>>, <<1, 2, 6, 0, 0>>,
                   <<7, 0, 18, 1, 1, 8, 0, 20, 1, 2, 0>>, <<10, 2, 0>>,
                   <<13, 0, 1, 2, 14, 1, 0>>}}

\* (+ 1 "a"), (< true true), (+ 2 (<= 1 "a")), (if c 1 2) of a string and of a
\* number, calls of a number, of native-square with a string and with nothing.
Mistyped ==
  {<<1, 1, 1, 3, 2, 0>>, <<1, 4, 1, 4, 6, 0, 0>>, <<1, 2, 1, 1, 1, 3, 6, 4, 2, 0>>,
   <<9, 1, 1, 1, 15, 1, 0>>, <<9, 0, 1, 3, 15, 1, 0>>, <<9, 0, 15, 0, 0>>}
  \cup {<<1, c, 7, 0, 10, 1, 1, 8, 0, 12, 1, 2, 0>> : c \in {1, 3}}

\* Sums nested so deep that the operands fill the eight slots of the run: the
\* last slot is taken by native-square and its argument, or by a literal.
Filling ==
  {<<1, 1, 1, 1, 1, 1, 1, 1, 1, 1, 1, 1>> \o top \o <<2, 2, 2, 2, 2, 2, 0>> :
     top \in {<<9, 0, 1, 2, 15, 1>>, <<1, 1, 1, 1, 1, 1, 2, 2>>}}
=============================================================================
