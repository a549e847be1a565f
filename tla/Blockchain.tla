----------------------------- MODULE Blockchain -----------------------------
(***************************************************************************)
(* The chain of am-kernels/kernels/blockchain: blocks whose hashes are     *)
(* searched for, each with a pointer to the hash of the block before it.   *)
(* The hash function is any function: what it gives for an input is chosen *)
(* when it is first asked.  The chain is a local variable of main, so the  *)
(* hash of the first block, which nobody computes, is anything.            *)
(***************************************************************************)
EXTENDS Integers, FiniteSets

CONSTANTS LAST,      \* blocks that main adds
          MAXBLOCK,
          Hashes,    \* what the hash function gives
          Zeros,     \* those that begin with the zeros of the difficulty
          NONCES,    \* how far a search is followed
          Times      \* readings of the clock, in seconds

ChainAssumption == /\ {LAST, NONCES, MAXBLOCK} \subseteq Nat /\ LAST < MAXBLOCK
                   /\ Zeros \subseteq Hashes

VARIABLES vChain, nrBlock, mining, known

chainVars == <<vChain, nrBlock, mining, known>>

\* prev is the block that the pointer _sPrevHash is into.
Block(time, prev, nonce, hash) == [time |-> time, prev |-> prev, nonce |-> nonce, hash |-> hash]

Nobody == -1

\* What _CalculateHash prints for block k; the data is the block's own.  With
\* one digit for the index and the data in between the parts stay apart.
Input(chain, k) == <<k, chain[k].time, chain[k].nonce,
                     IF chain[k].prev = Nobody THEN Nobody ELSE chain[chain[k].prev].hash>>

Previous(k) == k - 1

\* AddBlock, up to the search.
AddBlock == /\ ~mining /\ nrBlock <= LAST /\ mining' = TRUE
            /\ \E t \in Times :
                  vChain' = [vChain EXCEPT ![nrBlock] =
                               Block(t, Previous(nrBlock), -1, vChain[nrBlock].hash)]
            /\ UNCHANGED <<nrBlock, known>>

\* The chain that is hashed.
Tried(chain, k) == chain

Found(h, old) == h \in Zeros

\* One pass of the loop of MineBlock.
MineBlock ==
    /\ mining
    /\ \E h \in Hashes :
          LET k     == nrBlock
              next  == [vChain EXCEPT ![k].nonce = @ + 1]
              input == Input(Tried(next, k), k)
          IN /\ next[k].nonce < NONCES
             /\ input \in DOMAIN known => h = known[input]
             /\ known' = [i \in DOMAIN known \cup {input} |-> IF i = input THEN h ELSE known[i]]
             /\ vChain' = [next EXCEPT ![k].hash = h]
             /\ IF Found(h, vChain[k].hash) THEN mining' = FALSE /\ nrBlock' = nrBlock + 1
                ELSE UNCHANGED <<mining, nrBlock>>

ChainInit == /\ \E garbage \in Hashes, t \in Times :
                   vChain = [k \in 0 .. MAXBLOCK - 1 |->
                               Block(t, Nobody, -1, IF k = 0 THEN garbage ELSE Nobody)]
             /\ nrBlock = 1 /\ mining = FALSE
             /\ known = [i \in {} |-> 0]

ChainNext == AddBlock \/ MineBlock

ChainSpec == ChainInit /\ [][ChainNext]_chainVars

----------------------------------------------------------------------------
\* Whatever is mined later, the hash of every block is still the one of its
\* contents and of the hash that its predecessor has now, and begins with the
\* zeros: the pointer is to a hash that no longer changes (Blockchain.cpp:17).
ChainHolds ==
    \A k \in 1 .. nrBlock - 1 :
       /\ vChain[k].hash \in Zeros
       /\ Input(vChain, k) \in DOMAIN known /\ known[Input(vChain, k)] = vChain[k].hash
       /\ vChain[k].prev = k - 1

\* What holds at every moment of the search: the blocks are blocks, and the one
\* that is searched has its pointer.
ChainTypes ==
    /\ nrBlock \in 1 .. LAST + 1
    /\ vChain \in [0 .. MAXBLOCK - 1 -> [time : Times, prev : Int, nonce : Int,
                                          hash : Hashes \cup {Nobody}]]
Searched == mining => nrBlock <= LAST /\ vChain[nrBlock].prev = nrBlock - 1
ChainInv == ChainTypes /\ Searched /\ ChainHolds
=============================================================================
