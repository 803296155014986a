-------------------------------- MODULE UtHash --------------------------------
(***************************************************************************)
(* The hash table of uthash.h, as far as poll.cpp uses it: HASH_FIND_INT,  *)
(* HASH_ADD_INT and HASH_DEL, as operators on a table h.  The table keeps  *)
(* every item in two doubly-linked lists, the one of its bucket and the    *)
(* one in the order of insertion ("app order"), and doubles the number of  *)
(* its buckets when a chain grows too long.                                *)
(*                                                                         *)
(* An item is named by its key; NULL ends every list.                      *)
(***************************************************************************)
EXTENDS Integers, Sequences, FiniteSets

CONSTANTS
  Keys,                       \* the keys that are used
  HASH_INITIAL_NUM_BUCKETS,   \* 32 in the code
  HASH_BKT_CAPACITY_THRESH    \* 10 in the code

NULL == 0

ASSUME UtHashAssumption ==
  /\ Keys \subseteq Int \ {NULL}
  /\ IsFiniteSet(Keys)
  /\ HASH_INITIAL_NUM_BUCKETS \in Nat \ {0}
  /\ HASH_BKT_CAPACITY_THRESH \in Nat \ {0}

(* What HASH_JEN makes of a key is not modelled: hashv may be any function. *)
HashFunctions == [Keys -> Nat]

NoBucket == [hh_head |-> NULL, count |-> 0, expand_mult |-> 0]

(* The links of an item, which calloc has cleared. *)
NoLinks == [k \in Keys |-> NULL]

(* UT_hash_table, with the handles of its items; no table while head is NULL. *)
NoTable(hashv) ==
  [hashv |-> hashv, head |-> NULL, tail |-> NULL, num_items |-> 0, num_buckets |-> 0,
   buckets |-> <<>>, ideal_chain_maxlen |-> 0, nonideal_items |-> 0,
   ineff_expands |-> 0, noexpand |-> FALSE,
   prev |-> NoLinks, next |-> NoLinks, hh_prev |-> NoLinks, hh_next |-> NoLinks]

(* item->link = value, where there is an item *)
Link(link, item, value) == IF item = NULL THEN link ELSE [link EXCEPT ![item] = value]

Follow(link, item) == IF item = NULL THEN NULL ELSE link[item]

(* What is found from first on; a list that never ends is cut where it repeats. *)
Chain(first, link) ==
  LET at[i \in 1 .. Cardinality(Keys) + 1] == IF i = 1 THEN first ELSE Follow(link, at[i - 1])
      length == Cardinality({i \in DOMAIN at : at[i] # NULL})
  IN  [i \in 1 .. length |-> at[i]]

(* HASH_TO_BKT: num_buckets is a power of two. *)
BucketOf(h, k) == h.hashv[k] % h.num_buckets

Items(chain) == {chain[i] : i \in DOMAIN chain}

BucketChain(h, b) == Chain(h.buckets[b].hh_head, h.hh_next)

(* HASH_FIND: the item with key k, or NULL. *)
HashFind(h, k) ==
  IF h.head # NULL /\ k \in Items(BucketChain(h, BucketOf(h, k))) THEN k ELSE NULL

-----------------------------------------------------------------------------
(* HASH_ADD. *)

HashMakeTable(h, k) ==
  [NoTable(h.hashv) EXCEPT !.head = k, !.tail = k,
     !.num_buckets = HASH_INITIAL_NUM_BUCKETS,
     !.buckets = [b \in 0 .. HASH_INITIAL_NUM_BUCKETS - 1 |-> NoBucket]]

HashAppendList(h, k) ==
  [h EXCEPT !.next = Link([@ EXCEPT ![k] = NULL], h.tail, k), !.prev[k] = h.tail, !.tail = k]

(* An item becomes the head of its bucket's chain. *)
Push(h, k) ==
  LET b == BucketOf(h, k)
      bkt == h.buckets[b]
      first == bkt.hh_head
  IN  [h EXCEPT !.buckets[b] = [hh_head |-> k, count |-> bkt.count + 1, expand_mult |-> bkt.expand_mult],
                !.hh_next[k] = first,
                !.hh_prev = Link([@ EXCEPT ![k] = NULL], first, k)]

(* An item is moved to its new bucket, where it counts as one too many or not. *)
Rehash(h, k) ==
  LET moved == Push(h, k)
      b == BucketOf(h, k)
      bkt == moved.buckets[b]
      nonideal == bkt.count > h.ideal_chain_maxlen
      overused == nonideal /\ bkt.count > bkt.expand_mult * h.ideal_chain_maxlen
  IN  [moved EXCEPT !.nonideal_items = IF nonideal THEN @ + 1 ELSE @,
                    !.buckets[b].expand_mult = IF overused THEN @ + 1 ELSE @]

RehashChain(h, chain) ==
  LET after[i \in 0 .. Len(chain)] == IF i = 0 THEN h ELSE Rehash(after[i - 1], chain[i])
  IN  after[Len(chain)]

(* The number of buckets is doubled, and the items are moved, bucket by bucket. *)
HashExpandBuckets(h) ==
  LET n == 2 * h.num_buckets
      empty == [h EXCEPT !.num_buckets = n,
                         !.buckets = [b \in 0 .. n - 1 |-> NoBucket],
                         !.ideal_chain_maxlen = h.num_items \div n + (IF h.num_items % n # 0 THEN 1 ELSE 0),
                         !.nonideal_items = 0]
      after[b \in 0 .. h.num_buckets] ==
        IF b = 0 THEN empty ELSE RehashChain(after[b - 1], BucketChain(h, b - 1))
      full == after[h.num_buckets]
      ineff == IF full.nonideal_items > full.num_items \div 2 THEN full.ineff_expands + 1 ELSE 0
  IN  [full EXCEPT !.ineff_expands = ineff, !.noexpand = @ \/ ineff > 1]

HashAddToBkt(h, k) ==
  LET added == Push(h, k)
      bkt == added.buckets[BucketOf(h, k)]
  IN  IF bkt.count >= (bkt.expand_mult + 1) * HASH_BKT_CAPACITY_THRESH /\ ~added.noexpand
      THEN HashExpandBuckets(added)
      ELSE added

(* HASH_ADD_KEYPTR_BYHASHVALUE, with HASH_ADD_TO_TABLE *)
HashAdd(h, k) ==
  LET listed == IF h.head = NULL THEN HashMakeTable(h, k) ELSE HashAppendList(h, k)
  IN  HashAddToBkt([listed EXCEPT !.num_items = @ + 1], k)

-----------------------------------------------------------------------------
(* HASH_DELETE. *)

HashDelInBkt(h, k) ==
  LET b == BucketOf(h, k)
      bkt == h.buckets[b]
      first == IF bkt.hh_head = k THEN h.hh_next[k] ELSE bkt.hh_head
  IN  [h EXCEPT !.buckets[b] = [hh_head |-> first, count |-> bkt.count - 1, expand_mult |-> bkt.expand_mult],
                !.hh_next = Link(@, h.hh_prev[k], h.hh_next[k]),
                !.hh_prev = Link(@, h.hh_next[k], h.hh_prev[k])]

(* Faulty variant: the tail stays with the item that is deleted. *)
HashDeleteKeepsTail(h, k) ==
  IF h.prev[k] = NULL /\ h.next[k] = NULL
  THEN NoTable(h.hashv)
  ELSE HashDelInBkt([h EXCEPT !.head = IF h.prev[k] = NULL THEN h.next[k] ELSE @,
                              !.next = Link(@, h.prev[k], h.next[k]),
                              !.prev = Link(@, h.next[k], h.prev[k]),
                              !.num_items = @ - 1], k)

(* The last item takes the table with it. *)
HashDelete(h, k) ==
  IF h.prev[k] = NULL /\ h.next[k] = NULL
  THEN NoTable(h.hashv)
  ELSE HashDelInBkt([h EXCEPT !.tail = IF @ = k THEN h.prev[k] ELSE @,
                              !.head = IF h.prev[k] = NULL THEN h.next[k] ELSE @,
                              !.next = Link(@, h.prev[k], h.next[k]),
                              !.prev = Link(@, h.next[k], h.prev[k]),
                              !.num_items = @ - 1], k)

(* The item is freed after HASH_DELETE, and calloc clears the next one. *)
FreeItem(h, k) ==
  [h EXCEPT !.prev[k] = NULL, !.next[k] = NULL, !.hh_prev[k] = NULL, !.hh_next[k] = NULL]

-----------------------------------------------------------------------------
(* HASH_FSCK, the check that uthash makes of itself when HASH_DEBUG is set. *)

Backwards(chain, link) ==
  \A i \in DOMAIN chain : link[chain[i]] = IF i = 1 THEN NULL ELSE chain[i - 1]

(* f[0] + ... + f[n - 1] *)
Total(f, n) ==
  LET sum[i \in 0 .. n] == IF i = 0 THEN 0 ELSE sum[i - 1] + f[i - 1]
  IN  sum[n]

HashFsck(h) ==
  h.head # NULL =>
    LET chains == [b \in 0 .. h.num_buckets - 1 |-> BucketChain(h, b)]
        listed == Chain(h.head, h.next)
    IN  /\ \A b \in DOMAIN chains : /\ Backwards(chains[b], h.hh_prev)
                                   /\ h.buckets[b].count = Len(chains[b])
        /\ h.num_items = Total([b \in DOMAIN chains |-> Len(chains[b])], h.num_buckets)
        /\ Backwards(listed, h.prev)
        /\ h.num_items = Len(listed)

(***************************************************************************)
(* uthash.h:1068-1079: a chain is short of its multiple of the threshold   *)
(* unless expansion is inhibited.  That is so until an expansion leaves    *)
(* more in a bucket: then it is within the multiple of the ideal length.   *)
(***************************************************************************)
ChainsBounded(h) ==
  h.head # NULL /\ ~h.noexpand =>
    \A b \in 0 .. h.num_buckets - 1 :
      LET multiple == h.buckets[b].expand_mult + 1
      IN  \/ h.buckets[b].count < multiple * HASH_BKT_CAPACITY_THRESH
          \/ h.buckets[b].count <= multiple * h.ideal_chain_maxlen

(* The keys for which HASH_FIND finds an item. *)
FoundKeys(h) == {k \in Keys : HashFind(h, k) = k}

=============================================================================
