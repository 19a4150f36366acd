----------------------------- MODULE MCSfsBmap -----------------------------
EXTENDS SfsBmap

\* writes that start in the middle of a block, at one, and past the end
MCOffsets == {0, 1, 3, 7}
MCLens == {1, 3}
\* reads of three words: from 1, a partial block, then a whole one or
\* (cut at a size of 3) a trailing partial one; from 6, the indirect
\* range's last block, cut at EOF or wholly past it
MCReadOffsets == {1, 6}
MCReadLens == {3}
\* lengths that leave no partial block and no end inside the indirect range
MCTruncLens == {0, 2, 8}
\* fewer write offsets where writes may fail too: one block-aligned, and
\* one inside the last block, whose writes run past MaxSize into EINVAL
MCIoOffsets == {0, 7}
\* a length ending exactly where the indirect block's range begins
MCTruncIndirect == {4, 8}

=============================================================================
