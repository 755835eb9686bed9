--------------------------- MODULE DriverAddress ---------------------------
(***************************************************************************)
(* address of src/driver/src/lib.rs: the Ethereum-style address of an     *)
(* uncompressed secp256k1 public key.  It drops the key's first byte (the *)
(* 0x04 tag), hashes the rest with Keccak-256, keeps the last 20 of the   *)
(* 32 digest bytes and writes them as "0x" and lowercase hex.              *)
(*                                                                         *)
(* Keccak-256 is a constant operator: the checks hold for any hash, so a  *)
(* model instantiates it with a small stand-in.  Strings are sequences of *)
(* one-character strings.  The state machine feeds address one key after  *)
(* another, so that TLC evaluates it on every key of a bounded set and    *)
(* compares it with a reference definition.                               *)
(***************************************************************************)
EXTENDS Naturals, Sequences

CONSTANTS
  Keys,           \* the public keys, as byte sequences, address is given
  Keccak256(_)    \* the digest: a sequence of 32 bytes

ASSUME \A pk \in Keys : Len(pk) >= 1

VARIABLES
  key,   \* the key of the current call
  out    \* the String address returned, or None before the call returns

avars == <<key, out>>

None == <<"none">>

HexDigits == <<"0", "1", "2", "3", "4", "5", "6", "7",
               "8", "9", "a", "b", "c", "d", "e", "f">>

RECURSIVE HexEncode(_)

(* hex::encode: two lowercase digits per byte, high nibble first. *)
HexEncode(bytes) ==
  IF bytes = <<>> THEN <<>>
  ELSE << HexDigits[Head(bytes) \div 16 + 1],
          HexDigits[(Head(bytes) % 16) + 1] >> \o HexEncode(Tail(bytes))

(* A slice off by one: digest[11..] keeps 21 bytes. *)
AddressOffByOne(public_key) ==
  <<"0", "x">> \o HexEncode(SubSeq(Keccak256(Tail(public_key)), 12, 32))

(* &public_key[1..], Keccak256::digest, &digest[12..] (bytes 13..32 of a *)
(* 1-based sequence) and format!("0x{}", hex::encode(..)).               *)
Address(public_key) ==
  <<"0", "x">> \o HexEncode(SubSeq(Keccak256(Tail(public_key)), 13, 32))

Init == key \in Keys /\ out = None

(* A call of address returns its String. *)
Call ==
  /\ out = None
  /\ out' = Address(key)
  /\ UNCHANGED key

(* The caller moves on to another key. *)
NextKey ==
  /\ out # None
  /\ key' \in Keys
  /\ out' = None

Next == Call \/ NextKey

Spec == Init /\ [][Next]_avars

(* The address as its definition states it, character by character: the *)
(* 42 characters "0x" then, for i in 0..39, digit i is the high (even i) *)
(* or low (odd i) nibble of digest byte 12 + i \div 2 (0-based) of the   *)
(* Keccak-256 of the key without its first byte.                         *)
RefAddress(public_key) ==
  LET digest == Keccak256([i \in 1..Len(public_key) - 1 |-> public_key[i + 1]])
      nibble(i) == LET b == digest[13 + i \div 2]
                   IN IF (i % 2) = 0 THEN b \div 16 ELSE b % 16
  IN [p \in 1..42 |-> CASE p = 1 -> "0"
                        [] p = 2 -> "x"
                        [] OTHER -> HexDigits[nibble(p - 3) + 1]]

(* Every address returned is exactly the reference address: the slice   *)
(* of the digest (the last 20 bytes), the nibble order and the digit     *)
(* alphabet of hex::encode, the "0x" prefix and the dropped tag byte.    *)
AddressMatchesReference == out # None => out = RefAddress(key)

=============================================================================
