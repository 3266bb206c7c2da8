----------------------------- MODULE MCToolRun -----------------------------
(* The command lines of the instance: every tool with amounts that do and do *)
(* not divide between the recipients, and the lines each must refuse.        *)
EXTENDS ToolRun

Amount(whole, fraction) == [whole |-> whole, fraction |-> fraction]

Plain == [tool |-> "gospl-init", flags |-> {"raw"}, raw |-> 3, text |-> Amount(<<0>>, <<>>),
          decimals |-> 2, url |-> "loopback", live |-> FALSE, owner |-> "payer",
          metadata |-> FALSE, atomic |-> FALSE, recipients |-> 0, liquidity |-> 0,
          royalty |-> 0, name |-> 1, immutable |-> TRUE]

UI(c, whole, fraction) == [c EXCEPT !.flags = {"ui"}, !.text = Amount(whole, fraction)]

GosplLine == UI(Plain, <<1>>, <<2, 0>>)
HelloGoLine == [UI(Plain, <<0>>, <<0, 5>>) EXCEPT !.tool = "hellogo-init"]
Erc1155Line == [Plain EXCEPT !.tool = "erc1155-init"]
Token2022Line == [Plain EXCEPT !.tool = "token2022-init", !.owner = "other"]
MultisendLine == [Plain EXCEPT !.tool = "token2022-init-multisend", !.immutable = FALSE]
NftLine == [Plain EXCEPT !.tool = "token2022-nft-init", !.owner = "other"]
NameStoreLine == [Plain EXCEPT !.tool = "name-store"]
InvokeLine == [Plain EXCEPT !.tool = "invoke"]

Refused ==
  { [GosplLine EXCEPT !.flags = {}], [GosplLine EXCEPT !.flags = {"raw", "ui"}],
    [Plain EXCEPT !.raw = 0], UI(Plain, <<1>>, <<2, 0, 1>>), UI(Plain, <<9, 9>>, <<>>),
    [HelloGoLine EXCEPT !.url = "devnet"], [Erc1155Line EXCEPT !.raw = 0],
    [Token2022Line EXCEPT !.url = "devnet"], [NftLine EXCEPT !.royalty = 10001],
    [MultisendLine EXCEPT !.liquidity = 5, !.url = "other", !.live = TRUE],
    [MultisendLine EXCEPT !.recipients = 2, !.owner = "other"],
    [NameStoreLine EXCEPT !.name = 0] }

\* The multisend where the associated token program is the deployed one.
DeployedLine == [MultisendLine EXCEPT !.recipients = 5, !.metadata = TRUE, !.immutable = TRUE]

\* Five recipients, as many as the command has by default, with metadata, use
\* the whole reserve; two of the amounts leave a remainder or no share at all.
Lines ==
  Refused
  \cup { GosplLine, HelloGoLine, Erc1155Line, NftLine, NameStoreLine, InvokeLine,
         [Erc1155Line EXCEPT !.flags = {}], [NftLine EXCEPT !.url = "devnet", !.live = TRUE] }
  \cup { [Token2022Line EXCEPT !.metadata = m, !.atomic = a] : m, a \in BOOLEAN }
  \cup { [MultisendLine EXCEPT !.raw = n, !.recipients = 5, !.metadata = TRUE] : n \in {3, 7} }
  \cup { [MultisendLine EXCEPT !.url = "devnet", !.live = TRUE, !.liquidity = 5, !.recipients = 1],
         [MultisendLine EXCEPT !.metadata = TRUE, !.owner = "other"],
         [MultisendLine EXCEPT !.recipients = 6, !.metadata = TRUE],
         [Token2022Line EXCEPT !.immutable = FALSE], [NftLine EXCEPT !.immutable = FALSE] }
  \cup { DeployedLine, [DeployedLine EXCEPT !.recipients = 6, !.raw = 7] }
=============================================================================
