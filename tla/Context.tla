------------------------------ MODULE Context ------------------------------
(***************************************************************************)
(* The arithmetic by which taskalloc of task.c and makecontext of          *)
(* context.c start a task: the address of its Task structure travels as    *)
(* two 32-bit arguments of taskstart, and the first stack pointer lies in  *)
(* the memory behind the structure.  There is nothing to run: theorems of  *)
(* TaskInfoProofs hold for every address and every stack size.             *)
(***************************************************************************)
EXTENDS Integers

W16 == 65536
W32 == 4294967296

-----------------------------------------------------------------------------

\* taskalloc: y = z; z >>= 16; x = z >> 16, into uints.
argy(z) == z % W32
argx(z) == ((z \div W16) \div W16) % W32

\* taskstart: z = x << 16 is computed in uint, then z <<= 16 in ulong; y has
\* only the bits that are free, so | is +.
taskstart(y, x) == ((x * W16) % W32) * W16 + y

-----------------------------------------------------------------------------

\* uc_stack: ss_sp and ss_size, in uint arithmetic, for a stack of n bytes at
\* address stk.
ss_sp(stk)  == stk + 8
ss_size(n) == (n - 64) % W32

\* The end of the stack in whole words, and the stack pointer rounded down.
tos(sp, size, word) == sp + (size \div word) * word
align16(a) == a - (a % 16)

\* makecontext for 386 (word = 4) and amd64 (word = 8): argc words, aligned,
\* and the return address below them.
makecontext(sp, size, word, argc) == align16(tos(sp, size, word) - argc * word) - word

\* makecontext for power, and for ARM and MIPS, which pass all in registers.
makecontextPower(sp, size, word) == tos(sp, size, word) - 16 * word
makecontextArm(sp, size) == tos(sp, size, 4)

\* needstack(n) does not abort for a local variable at address a.
enough(a, stk, n) == a > stk /\ a - stk >= 256 + n

=============================================================================
