------------------------------- MODULE Message -------------------------------
(***************************************************************************)
(* Transaction messages (svmtest/transaction.go): the compilation of       *)
(* instructions into account keys, a header and indices, and what the      *)
(* runtime reads back from it (external).  An instruction is a record      *)
(* [program, metas], a meta a record [key, signer, writable].              *)
(***************************************************************************)
EXTENDS Naturals, Sequences, SequencesExt, FiniteSetsExt

\* The sdk's constructors of metas.
Writable(key, signer) == [key |-> key, signer |-> signer, writable |-> TRUE]
Readonly(key, signer) == [key |-> key, signer |-> signer, writable |-> FALSE]

\* What the message asks for, in the order it is merged: the fee payer first,
\* then the accounts of each instruction and its program.
Merged(payer, instructions) ==
  <<Writable(payer, TRUE)>> \o
  FlattenSeq([i \in 1..Len(instructions) |->
                Append(instructions[i].metas, Readonly(instructions[i].program, FALSE))])

\* Privileges of duplicate metas are unioned.
Privilege(asked, key) ==
  LET of == SelectSeq(asked, LAMBDA m : m.key = key)
  IN [signer |-> \E i \in 1..Len(of) : of[i].signer,
      writable |-> \E i \in 1..Len(of) : of[i].writable]

PrivilegeClass(privilege) ==
  CASE privilege.signer /\ privilege.writable -> 0
    [] privilege.signer /\ ~privilege.writable -> 1
    [] ~privilege.signer /\ privilege.writable -> 2
    [] OTHER -> 3

Class(asked, key) == PrivilegeClass(Privilege(asked, key))

\* The keys by class, and within a class in the order they were met.
Sorted(asked, met) ==
  <<met[1]>> \o
  FlattenSeq([c \in 1..4 |-> SelectSeq(Tail(met), LAMBDA k : Class(asked, k) = c - 1)])

AccountKeys(asked) ==
  Sorted(asked, FoldLeft(LAMBDA keys, m : IF Contains(keys, m.key) THEN keys
                                          ELSE Append(keys, m.key), <<>>, asked))

MaxKeys == 256
MaxHeader == 255

Compiled(asked, keys, instructions) ==
  LET in(classes) == Quantify(1..Len(keys), LAMBDA i : Class(asked, keys[i]) \in classes)
      index(key) == CHOOSE i \in 1..Len(keys) : keys[i] = key
  IN [keys |-> keys,
      required |-> in({0, 1}), readonlySigned |-> in({1}), readonlyUnsigned |-> in({3}),
      instructions |->
        [i \in 1..Len(instructions) |->
           [program |-> index(instructions[i].program),
            accounts |-> [j \in 1..Len(instructions[i].metas) |-> index(instructions[i].metas[j].key)]]]]

CompileTransactionMessage(payer, instructions) ==
  Compiled(Merged(payer, instructions), AccountKeys(Merged(payer, instructions)), instructions)

ValidHeader(message) ==
  /\ Len(message.keys) <= MaxKeys
  /\ message.required <= MaxHeader
  /\ message.readonlySigned <= MaxHeader
  /\ message.readonlyUnsigned <= MaxHeader

\* PartialSignTransaction: a signature or an empty slot for each required key.
PartialSign(message, signers) ==
  [i \in 1..message.required |-> message.keys[i] \in signers]

\* The runtime: the privileges of the key at an index, from the header alone.
IsSigner(message, i) == i <= message.required
IsWritable(message, i) ==
  \/ i <= message.required - message.readonlySigned
  \/ i > message.required /\ i <= Len(message.keys) - message.readonlyUnsigned

\* The privileges a program finds in its accounts.
Received(message) ==
  [signers |-> {message.keys[i] : i \in {i \in 1..Len(message.keys) : IsSigner(message, i)}},
   writable |-> {message.keys[i] : i \in {i \in 1..Len(message.keys) : IsWritable(message, i)}}]

-----------------------------------------------------------------------------
\* A message says what was asked of it: the payer is its first key, a key is
\* listed once, the header gives every key the union of the privileges asked
\* for it and the indices of an instruction lead back to its keys ("The fee
\* payer is always the first writable signer.  Privileges requested by
\* duplicate metas are unioned before canonical account ordering",
\* transaction.go:76-77).
Says(message, given, asked, instructions) ==
  /\ message.keys[1] = asked[1].key
  /\ IsInjective(message.keys)
  /\ ValidHeader(message)
  /\ given.signers = {m.key : m \in {m \in Range(asked) : m.signer}}
  /\ given.writable = {m.key : m \in {m \in Range(asked) : m.writable}}
  /\ \A i \in 1..Len(instructions) :
       /\ message.keys[message.instructions[i].program] = instructions[i].program
       /\ \A j \in 1..Len(instructions[i].metas) :
            message.keys[message.instructions[i].accounts[j]] = instructions[i].metas[j].key

Faithful(message, payer, instructions) ==
  Says(message, Received(message), Merged(payer, instructions), instructions)
=============================================================================
