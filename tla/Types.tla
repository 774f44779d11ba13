-------------------------------- MODULE Types --------------------------------
(***************************************************************************)
(* osal-rs-build: the Rust types that stand for TickType_t, UBaseType_t,   *)
(* BaseType_t and StackType_t of the kernel.                               *)
(*                                                                         *)
(* The generator asks a C program for their sizes, which gcc compiles on   *)
(* the machine that builds.  The program knows nothing of the kernel: it   *)
(* prints the sizes of a 32-bit port.  Without gcc the generator takes the *)
(* same sizes itself.                                                      *)
(***************************************************************************)
EXTENDS Integers

CONSTANT ByteValues  \* the number of values of a byte

ASSUME TypesAssumption == ByteValues \in Nat \ {0, 1}

\* What the query program prints.
Printed == [TICK_TYPE_SIZE |-> 4, UBASE_TYPE_SIZE |-> 4, BASE_TYPE_SIZE |-> 4,
            BASE_TYPE_SIGNED |-> 1, STACK_TYPE_SIZE |-> 4]

\* Mutant: the sizes taken without gcc are those of a 16-bit port.
QueryTypeSizes_Default(compiles) ==
  IF compiles
  THEN [tick |-> Printed.TICK_TYPE_SIZE, ubase |-> Printed.UBASE_TYPE_SIZE,
        base |-> Printed.BASE_TYPE_SIZE, signed |-> Printed.BASE_TYPE_SIGNED = 1,
        stack |-> Printed.STACK_TYPE_SIZE]
  ELSE [tick |-> 2, ubase |-> 2, base |-> 2, signed |-> TRUE, stack |-> 2]

\* query_type_sizes(): `compiles` says that gcc compiles the program.
QueryTypeSizes(compiles) ==
  IF compiles
  THEN [tick |-> Printed.TICK_TYPE_SIZE, ubase |-> Printed.UBASE_TYPE_SIZE,
        base |-> Printed.BASE_TYPE_SIZE, signed |-> Printed.BASE_TYPE_SIGNED = 1,
        stack |-> Printed.STACK_TYPE_SIZE]
  ELSE [tick |-> 4, ubase |-> 4, base |-> 4, signed |-> TRUE, stack |-> 4]

\* size_to_type(): a size no integer type has is taken for 4.
SizeToType(size, signed) ==
  [bytes |-> IF size \in {1, 2, 4, 8} THEN size ELSE 4, signed |-> signed]

\* generate_types().
GenerateTypes(compiles) ==
  LET sizes == QueryTypeSizes(compiles)
  IN  [TickType  |-> SizeToType(sizes.tick, FALSE),
       UBaseType |-> SizeToType(sizes.ubase, FALSE),
       BaseType  |-> SizeToType(sizes.base, sizes.signed),
       StackType |-> SizeToType(sizes.stack, TRUE)]

\* The number of values of a generated type.
ValuesOf(type) == ByteValues ^ type.bytes

=============================================================================
