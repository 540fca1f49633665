---------------------------- MODULE MCIpLocator -----------------------------
(* Records and addresses of the IP locator for TLC; the indexes are those of MCIpSearch. *)
EXTENDS IpLocator, MCIpSearch

\* One base puts the texts right behind the header, one so that their offsets need a second
\* byte.
McBases == {8, 250}
McRecordTexts == {<<>>, <<65>>, <<66, 255, 67>>}
\* The next record starts with an address that ends in 1, or in 9.
McNext4 == {1, 9}

\* All texts of up to five parts, the parts legal, too large, padded with zeros, empty or no
\* number.
dot == 10
other == 11
McAddressParts == {<<>>, <<0>>, <<1, 5>>, <<1, 6>>, <<0, 0, 7>>, <<9, 9, 9>>, <<other>>}
Joined(n, parts) ==
  LET text[k \in 1..n] == IF k = 1 THEN parts[1] ELSE text[k - 1] \o <<dot>> \o parts[k]
  IN text[n]
McAddressTexts == UNION {{Joined(n, parts) : parts \in [1..n -> McAddressParts]} : n \in 1..5}
=============================================================================
