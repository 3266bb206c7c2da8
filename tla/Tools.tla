------------------------------- MODULE Tools -------------------------------
(* The command lines of the tools: what each refuses, the balance it asks    *)
(* of its payer, and its plan.  A command line c has the fields              *)
(*   tool, flags ("raw", "ui": the amounts given), raw, text, decimals, url, *)
(*   live (--allow-live), owner, metadata (a name, symbol or uri is given),  *)
(*   atomic, recipients (how many), liquidity (in fees; 0 is no --add-       *)
(*   raydium-liquidity), royalty (in basis points), name, and immutable: the *)
(*   associated token program of its cluster attaches ImmutableOwner, as     *)
(*   token2022-init says the deployed one always does and insists on, and as *)
(*   token2022-init-multisend takes it not to do.                            *)
EXTENDS ToolPlans

LiveWithoutLeave(c) == c.url # "loopback" /\ ~c.live

RawAmount(c) ==
  IF "ui" \in c.flags THEN ParseUIAmount(c.text, c.decimals).raw ELSE c.raw

\* Exactly one amount, that fits and is positive.
BadAmount(c) ==
  \/ Cardinality(c.flags) # 1
  \/ "ui" \in c.flags /\ ~ParseUIAmount(c.text, c.decimals).ok
  \/ RawAmount(c) = 0

-----------------------------------------------------------------------------
(* gospl-init and hellogo-init: a mint, a token account, the supply.         *)

GosplRefuses(c) == BadAmount(c) \/ LiveWithoutLeave(c)

GosplNeeds(c) == Rent + Rent + Reserve

VerifyMint(supply) == Check(Mint, Account("mint", "payer", supply))
VerifyToken(amount) == Check(Token, Account("token", "payer", amount))

GosplPlan(c) ==
  LET n == RawAmount(c)
  IN << Send("create_mint", 1, <<Create(Mint, Account("mint", "payer", 0))>>),
        VerifyMint(0),
        Send("create_account", 1, <<Create(Token, Account("token", "payer", 0))>>),
        VerifyToken(0),
        VerifyMint(0),
        Send("mint_to", 0, <<MintTo(Mint, Token, n)>>),
        VerifyMint(n),
        VerifyToken(n) >>

HelloGoRefuses(c) == GosplRefuses(c)
HelloGoNeeds(c) == GosplNeeds(c)
HelloGoPlan(c) == GosplPlan(c)

-----------------------------------------------------------------------------
(* erc1155-init: a collection, a token type, a balance, the supply.          *)

Erc1155Amount(c) == IF "raw" \in c.flags THEN c.raw ELSE 1

Erc1155Refuses(c) == Erc1155Amount(c) = 0 \/ LiveWithoutLeave(c)

\* A sum that is not guarded against overflow.
Erc1155Needs(c) == (Rent + Rent + Rent + Reserve) % U64

VerifyCollection(types) == Check(Collection, Account("collection", "payer", types))
VerifyTokenType(supply) == Check(TokenType, Account("type", "payer", supply))
VerifyBalance(amount) == Check(Token, Account("token", "payer", amount))

Erc1155Plan(c) ==
  LET n == Erc1155Amount(c)
  IN << Send("create_collection", 1, <<Create(Collection, Account("collection", "payer", 0))>>),
        VerifyCollection(0),
        Send("create_token_type", 1, <<Create(TokenType, Account("type", "payer", 0)), NextType>>),
        VerifyTokenType(0),
        VerifyCollection(1),
        Send("create_balance", 1, <<Create(Token, Account("token", "payer", 0))>>),
        VerifyBalance(0),
        Send("mint_to", 0, <<MintTo(TokenType, Token, n)>>),
        VerifyTokenType(n),
        VerifyBalance(n),
        VerifyCollection(1) >>

-----------------------------------------------------------------------------
(* token2022-init: in stages, or in one transaction.                         *)

Token2022Refuses(c) == BadAmount(c) \/ LiveWithoutLeave(c)

Token2022Needs(c) ==
  Rent + AssociatedRent + (IF c.metadata THEN MetadataFee ELSE 0) + Reserve

\* The associated token account, which the instruction may find in its place.
CreateAssociated(c) ==
  Ensure(Token, Account(IF c.immutable THEN "token+" ELSE "token", c.owner, 0))

VerifyToken2022Mint(supply) == Verify(Mint, Account("mint", "payer", supply))
\* An account without the extension is refused.
VerifyToken2022TokenAccount(c, amount) == Verify(Token, Account("token+", c.owner, amount))
VerifyMetaplexMetadata == Verify(Metadata, Describe.state)

Token2022Staged(c) ==
  LET n == RawAmount(c)
  IN << Send("create_mint", 1, <<Create(Mint, Account("mint", "payer", 0))>>),
        VerifyToken2022Mint(0) >>
     \o (IF c.metadata
         THEN << Send("create_metadata", 0, <<Describe>>), VerifyMetaplexMetadata >>
         ELSE <<>>)
     \o << Send("create_account", 0, <<CreateAssociated(c)>>),
           VerifyToken2022TokenAccount(c, 0),
           VerifyToken2022Mint(0),
           Send("mint_to", 0, <<MintTo(Mint, Token, n)>>),
           VerifyToken2022Mint(n),
           VerifyToken2022TokenAccount(c, n) >>

Token2022Atomic(c) ==
  LET n == RawAmount(c)
  IN << Send("atomic", 1,
             <<Create(Mint, Account("mint", "payer", 0))>>
             \o (IF c.metadata THEN <<Describe>> ELSE <<>>)
             \o <<CreateAssociated(c), MintTo(Mint, Token, n)>>),
        VerifyToken2022Mint(n) >>
     \o (IF c.metadata THEN <<VerifyMetaplexMetadata>> ELSE <<>>)
     \o << VerifyToken2022TokenAccount(c, n) >>

Token2022Plan(c) == IF c.atomic THEN Token2022Atomic(c) ELSE Token2022Staged(c)

-----------------------------------------------------------------------------
(* token2022-init-multisend: the supply is split between the recipients.     *)

MultisendRefuses(c) ==
  \/ BadAmount(c)
  \/ LiveWithoutLeave(c)
  \/ c.liquidity > 0 /\ c.url # "devnet"
  \/ c.recipients > 0 /\ c.owner # "payer"

MultisendNeedsSender(c) == Rent + Rent + Reserve + c.liquidity

MultisendNeeds(c) ==
  Rent + Rent + Reserve + c.liquidity + c.recipients * Rent

ShareRounded(i, total, count) == total \div count

\* The first recipient also gets what does not divide.
Share(i, total, count) == (total \div count) + (IF i = 1 THEN total % count ELSE 0)

\* The mint holds its own metadata.
MintWithMetadata(c, supply) ==
  Account(IF c.metadata THEN "mint+" ELSE "mint", "payer", supply)

VerifyMultisendMint(c, supply) == Verify(Mint, MintWithMetadata(c, supply))
\* An account of any other length than the bare 165 bytes is not decoded.
VerifyMultisendTokenAccount(account, owner, amount) ==
  Verify(account, Account("token", owner, amount))

CreateATA(i) ==
  SendNth("create_recipient", i, 1, <<Create(Recipient(i), Account("token", "recipient", 0))>>)

MultisendTo(i, share) ==
  << CreateATA(i), VerifyMultisendTokenAccount(Recipient(i), "recipient", 0) >>
  \o (IF share = 0 THEN <<>>
      ELSE << SendNth("transfer", i, 0, <<Transfer(Token, Recipient(i), share)>>),
              VerifyMultisendTokenAccount(Recipient(i), "recipient", share) >>)

Multisend(total, count) ==
  IF count = 0 THEN <<>>
  ELSE FoldLeft(LAMBDA steps, i : steps \o MultisendTo(i, Share(i, total, count)), <<>>,
                [i \in 1..count |-> i])
       \o << VerifyMultisendTokenAccount(Token, "payer",
               total - FoldLeft(LAMBDA sum, i : sum + Share(i, total, count), 0,
                                [i \in 1..count |-> i])) >>

MultisendPlan(c) ==
  LET n == RawAmount(c)
  IN << Send("create_mint", 1, <<Create(Mint, Account("mint", "payer", 0))>>),
        Verify(Mint, Account("mint", "payer", 0)) >>
     \o (IF c.metadata
         THEN << Send("initialize_metadata", 0, <<Extend>>), VerifyMultisendMint(c, 0) >>
         ELSE <<>>)
     \o << Send("create_account", 0, <<CreateAssociated(c)>>),
           VerifyMultisendTokenAccount(Token, c.owner, 0),
           VerifyMultisendMint(c, 0),
           Send("mint_to", 0, <<MintTo(Mint, Token, n)>>),
           VerifyMultisendMint(c, n),
           VerifyMultisendTokenAccount(Token, c.owner, n) >>
     \o Multisend(n, c.recipients)
     \o (IF c.liquidity > 0 THEN <<Probe>> ELSE <<>>)

-----------------------------------------------------------------------------
(* token2022-nft-init: one unit, then the mint's authority is given away.    *)

NftRefuses(c) == c.royalty > 10000 \/ LiveWithoutLeave(c)

\* The fee of Metaplex is another sum that is not guarded; those around it are.
NftNeeds(c) == Reserve + Rent + AssociatedRent + MetadataRent + (CreateFee % U64) + Rent

VerifyNftMint(authority, supply) == Verify(Mint, Account("mint", authority, supply))
\* Whatever its extensions, it must hold the rent of the longer account.
VerifyNftTokenAccount(c, amount) == Verify(Token, Account("token+", c.owner, amount))
VerifyNftMetadata == Verify(Metadata, Describe.state)
VerifyMasterEdition == Verify(Edition, Seal.state)

NftPlan(c) ==
  << Send("create_mint", 1, <<Create(Mint, Account("mint", "payer", 0))>>),
     VerifyNftMint("payer", 0),
     Send("create_account", 0, <<CreateAssociated(c)>>),
     VerifyNftTokenAccount(c, 0),
     Send("mint_to", 0, <<MintTo(Mint, Token, 1)>>),
     VerifyNftMint("payer", 1),
     VerifyNftTokenAccount(c, 1),
     Send("create_nft", 0, <<Seal>>),
     VerifyNftMint("edition", 1),
     VerifyNftMetadata,
     VerifyMasterEdition >>

-----------------------------------------------------------------------------
(* name-store: make the storage account if there is none, then write it.     *)

NameStoreRefuses(c) == c.name = 0 \/ LiveWithoutLeave(c)

NameStorePlan(c) ==
  << [op |-> "find", account |-> Storage, kinds |-> {"storage", "short"}],
     Send("create_storage", 1, <<Create(Storage, Account("storage", "payer", 0))>>),
     Send("write", 1, <<Record(c.name)>>),
     Show >>

(* LocalValidator.Invoke: one instruction of the preloaded program.          *)
InvokePlan == << Send("invoke", 0, <<Call>>) >>

-----------------------------------------------------------------------------
(* The tools by name.                                                        *)

Refuses(c) ==
  CASE c.tool = "gospl-init" -> GosplRefuses(c)
    [] c.tool = "hellogo-init" -> HelloGoRefuses(c)
    [] c.tool = "erc1155-init" -> Erc1155Refuses(c)
    [] c.tool = "token2022-init" -> Token2022Refuses(c)
    [] c.tool = "token2022-init-multisend" -> MultisendRefuses(c)
    [] c.tool = "token2022-nft-init" -> NftRefuses(c)
    [] c.tool = "name-store" -> NameStoreRefuses(c)
    [] OTHER -> FALSE

Needs(c) ==
  CASE c.tool = "gospl-init" -> GosplNeeds(c)
    [] c.tool = "hellogo-init" -> HelloGoNeeds(c)
    [] c.tool = "erc1155-init" -> Erc1155Needs(c)
    [] c.tool = "token2022-init" -> Token2022Needs(c)
    [] c.tool = "token2022-init-multisend" -> MultisendNeeds(c)
    [] c.tool = "token2022-nft-init" -> NftNeeds(c)
    [] OTHER -> 0

Plan(c) ==
  CASE c.tool = "gospl-init" -> GosplPlan(c)
    [] c.tool = "hellogo-init" -> HelloGoPlan(c)
    [] c.tool = "erc1155-init" -> Erc1155Plan(c)
    [] c.tool = "token2022-init" -> Token2022Plan(c)
    [] c.tool = "token2022-init-multisend" -> MultisendPlan(c)
    [] c.tool = "token2022-nft-init" -> NftPlan(c)
    [] c.tool = "name-store" -> NameStorePlan(c)
    [] OTHER -> InvokePlan

\* These check the balance of their payer before they send anything.
Budgeted == {"gospl-init", "hellogo-init", "erc1155-init", "token2022-init",
             "token2022-init-multisend", "token2022-nft-init"}

\* These write progress events as they go.
Reporting == {"gospl-init", "hellogo-init", "erc1155-init"}

\* The amount a command was asked to mint.
Wanted(c) ==
  CASE c.tool = "erc1155-init" -> Erc1155Amount(c)
    [] c.tool = "token2022-nft-init" -> 1
    [] OTHER -> RawAmount(c)

\* The account that counts what was minted.
Supply(c) == IF c.tool = "erc1155-init" THEN TokenType ELSE Mint
=============================================================================
